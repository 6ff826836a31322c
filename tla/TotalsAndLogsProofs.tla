-------------------------- MODULE TotalsAndLogsProofs --------------------------
(***************************************************************************)
(* Theorems about what Conversions computes over sequences of any length:  *)
(* they go by induction over the length, on the least length that would    *)
(* be wrong.                                                               *)
(***************************************************************************)
EXTENDS Conversions, SequenceTheorems, FiniteSetTheorems, WellFoundedInduction, TLAPS

(* Induction, on sets of natural numbers.                                  *)

Less == {pair \in Nat \X Nat : pair[1] < pair[2]}

LEMMA LessWellFounded == IsWellFoundedOn(Less, Nat)
<1>1. Less = OpToRel(<, Nat)
  BY DEF Less, OpToRel
<1> QED
  BY <1>1, NatLessThanWellFounded

LEMMA LeastNumber ==
  ASSUME NEW S \in SUBSET Nat, S # {}
  PROVE  \E n \in S : \A m \in S : n <= m
<1>1. PICK n \in S : \A m \in S : <<m, n>> \notin Less
  BY WFMin, LessWellFounded
<1>2. ASSUME NEW m \in S PROVE n <= m
  <2>1. ASSUME m < n PROVE FALSE
    <3>1. <<m, n>> \in Nat \X Nat
      OBVIOUS
    <3>2. <<m, n>> \in Less
      BY <2>1, <3>1, SMT DEF Less
    <3> QED
      BY <1>1, <3>2
  <2> QED
    BY <2>1
<1> QED
  BY <1>2

LEMMA Induction ==
  ASSUME NEW S, 0 \in S, \A n \in Nat : n \in S => n + 1 \in S
  PROVE  Nat \subseteq S
<1>1. ASSUME Nat \ S # {} PROVE FALSE
  <2>1. PICK n \in Nat \ S : \A m \in Nat \ S : n <= m
    BY <1>1, LeastNumber
  <2>2. n # 0 /\ n - 1 \in Nat /\ n - 1 \in S
    BY <2>1
  <2> QED
    BY <2>1, <2>2
<1> QED
  BY <1>1

-----------------------------------------------------------------------------
(* A running sum.                                                          *)

Adds(f, v, N) ==
  /\ f \in [0..N -> Nat]
  /\ f[0] = 0
  /\ \A n \in 1..N : f[n] = f[n - 1] + v[n]

LEMMA SumExists ==
  ASSUME NEW N \in Nat, NEW v \in [1..N -> Nat]
  PROVE  \E f : Adds(f, v, N)
<1> DEFINE S == {n \in Nat : n <= N => \E f : Adds(f, v, n)}
<1>1. 0 \in S
  <2>1. Adds([n \in 0..0 |-> 0], v, 0)
    BY DEF Adds
  <2> QED
    BY <2>1
<1>2. ASSUME NEW n \in Nat, n \in S PROVE n + 1 \in S
  <2> SUFFICES ASSUME n + 1 <= N PROVE \E f : Adds(f, v, n + 1)
    OBVIOUS
  <2>1. PICK f : Adds(f, v, n)
    BY <1>2
  <2>2. v[n + 1] \in Nat /\ f[n] \in Nat
    BY <2>1 DEF Adds
  <2> DEFINE g == [k \in 0..(n + 1) |-> IF k = n + 1 THEN f[n] + v[n + 1] ELSE f[k]]
  <2>3. g \in [0..(n + 1) -> Nat]
    BY <2>1, <2>2 DEF Adds
  <2>4. g[0] = 0 /\ \A k \in 1..(n + 1) : g[k] = g[k - 1] + v[k]
    BY <2>1 DEF Adds
  <2> QED
    BY <2>3, <2>4 DEF Adds
<1> HIDE DEF S
<1>3. N \in S
  BY <1>1, <1>2, Induction
<1> QED
  BY <1>3 DEF S

LEMMA AddsStep ==
  ASSUME NEW N \in Nat, NEW v \in [1..N -> Nat], NEW f, Adds(f, v, N)
  PROVE  \A n \in 0..(N - 1) :
           f[n] \in Nat /\ v[n + 1] \in Nat /\ f[n + 1] = f[n] + v[n + 1]
<1> SUFFICES ASSUME NEW n \in 0..(N - 1)
             PROVE  f[n] \in Nat /\ v[n + 1] \in Nat /\ f[n + 1] = f[n] + v[n + 1]
  OBVIOUS
<1>1. n \in 0..N /\ n + 1 \in 1..N /\ (n + 1) - 1 = n
  OBVIOUS
<1>2. f[n + 1] = f[(n + 1) - 1] + v[n + 1]
  BY <1>1 DEF Adds
<1> QED
  BY <1>1, <1>2 DEF Adds

(* Two running sums over the parts of a third one.                         *)
Divided(N, k, v, x, y, f, l, r) ==
  /\ N \in Nat /\ k \in 0..N
  /\ v \in [1..N -> Nat] /\ x \in [1..k -> Nat] /\ y \in [1..(N - k) -> Nat]
  /\ \A i \in 1..k : x[i] = v[i]
  /\ \A i \in 1..(N - k) : y[i] = v[k + i]
  /\ Adds(f, v, N) /\ Adds(l, x, k) /\ Adds(r, y, N - k)

LEMMA SumOfParts ==
  ASSUME NEW N, NEW k, NEW v, NEW x, NEW y, NEW f, NEW l, NEW r,
         Divided(N, k, v, x, y, f, l, r)
  PROVE  f[N] = l[k] + r[N - k]
<1>d. /\ N \in Nat /\ k \in 0..N
      /\ v \in [1..N -> Nat] /\ x \in [1..k -> Nat] /\ y \in [1..(N - k) -> Nat]
      /\ \A i \in 1..k : x[i] = v[i]
      /\ \A i \in 1..(N - k) : y[i] = v[k + i]
      /\ Adds(f, v, N) /\ Adds(l, x, k) /\ Adds(r, y, N - k)
  BY DEF Divided
<1> DEFINE S == {n \in Nat : n <= k => f[n] = l[n]}
           T == {n \in Nat : n <= N - k => f[k + n] = l[k] + r[n]}
<1>k. k \in Nat /\ N - k \in Nat /\ N \in Nat
  BY <1>d
<1>f. \A n \in 0..(N - 1) :
        f[n] \in Nat /\ v[n + 1] \in Nat /\ f[n + 1] = f[n] + v[n + 1]
  BY <1>d, AddsStep
<1>l. \A n \in 0..(k - 1) :
        l[n] \in Nat /\ x[n + 1] \in Nat /\ l[n + 1] = l[n] + x[n + 1]
  BY <1>d, <1>k, AddsStep
<1>r. \A n \in 0..((N - k) - 1) :
        r[n] \in Nat /\ y[n + 1] \in Nat /\ r[n + 1] = r[n] + y[n + 1]
  <2> DEFINE M == N - k
  <2>1. M \in Nat /\ y \in [1..M -> Nat] /\ Adds(r, y, M)
    BY <1>d, <1>k
  <2> HIDE DEF M
  <2>2. \A n \in 0..(M - 1) :
          r[n] \in Nat /\ y[n + 1] \in Nat /\ r[n + 1] = r[n] + y[n + 1]
    BY <2>1, AddsStep
  <2> QED
    BY <2>2 DEF M
<1>1. 0 \in S
  BY <1>d DEF Adds
<1>2. ASSUME NEW n \in Nat, n \in S PROVE n + 1 \in S
  <2> SUFFICES ASSUME n + 1 <= k PROVE f[n + 1] = l[n + 1]
    OBVIOUS
  <2>1. f[n] = l[n] /\ n + 1 \in 1..N /\ n + 1 \in 1..k
    BY <1>d, <1>2
  <2>2. f[n + 1] = f[n] + v[n + 1] /\ l[n + 1] = l[n] + x[n + 1]
    BY <1>d, <1>f, <1>l, <2>1
  <2> QED
    BY <1>d, <2>1, <2>2
<1> HIDE DEF S
<1>3. k \in S
  BY <1>k, <1>1, <1>2, Induction
<1>4. f[k] = l[k] /\ l[k] \in Nat
  BY <1>d, <1>3 DEF S, Adds
<1>5. 0 \in T
  BY <1>d, <1>4 DEF Adds
<1>6. ASSUME NEW n \in Nat, n \in T PROVE n + 1 \in T
  <2> SUFFICES ASSUME n + 1 <= N - k PROVE f[k + (n + 1)] = l[k] + r[n + 1]
    OBVIOUS
  <2>1. /\ f[k + n] = l[k] + r[n] /\ k + n + 1 \in 1..N /\ n + 1 \in 1..(N - k)
        /\ n \in 0..(N - k)
    BY <1>d, <1>6
  <2>2. k + n \in 0..(N - 1) /\ k + (n + 1) = (k + n) + 1
    BY <1>d, <1>k
  <2>3. f[(k + n) + 1] = f[k + n] + v[(k + n) + 1]
    BY <1>f, <2>2
  <2>4. r[n + 1] = r[n] + y[n + 1] /\ y[n + 1] \in Nat /\ r[n] \in Nat
    BY <1>d, <1>r, <2>1
  <2>5. y[n + 1] = v[k + (n + 1)]
    BY <1>d, <2>1
  <2> QED
    BY <1>4, <2>1, <2>2, <2>3, <2>4, <2>5
<1> HIDE DEF T
<1>7. N - k \in T
  BY <1>k, <1>5, <1>6, Induction
<1> QED
  BY <1>d, <1>k, <1>7 DEF T

LEMMA SumOfZeros ==
  ASSUME NEW N \in Nat, NEW v \in [1..N -> Nat], \A i \in 1..N : v[i] = 0,
         NEW f, Adds(f, v, N)
  PROVE  f[N] = 0
<1> DEFINE S == {n \in Nat : n <= N => f[n] = 0}
<1>1. 0 \in S
  BY DEF Adds
<1>2. ASSUME NEW n \in Nat, n \in S PROVE n + 1 \in S
  <2> SUFFICES ASSUME n + 1 <= N PROVE f[n + 1] = 0
    OBVIOUS
  <2>1. f[n] = 0 /\ n + 1 \in 1..N
    BY <1>2
  <2>2. f[n + 1] = f[n] + v[n + 1]
    BY <2>1 DEF Adds
  <2> QED
    BY <2>1, <2>2
<1> HIDE DEF S
<1>3. N \in S
  BY <1>1, <1>2, Induction
<1> QED
  BY <1>3 DEF S

-----------------------------------------------------------------------------
(* Totals.                                                                 *)

Summed == {"hashrate", "power", "uptime", "best"}

Values(s, field) ==
  [i \in 1..Len(s) |-> IF s[i][field] = None THEN 0 ELSE s[i][field]]

LEMMA SnapshotFields ==
  ASSUME NEW s \in Seq(Snapshot)
  PROVE  /\ Len(s) \in Nat /\ DOMAIN s = 1..Len(s)
         /\ \A i \in 1..Len(s) :
              /\ s[i] \in Snapshot
              /\ s[i].overheat_mode \in Nat \cup {None}
              /\ s[i].mining_paused \in BOOLEAN \cup {None}
              /\ \A field \in Summed : s[i][field] \in Nat \cup {None}
<1>1. Len(s) \in Nat /\ DOMAIN s = 1..Len(s)
  BY LenProperties
<1>2. ASSUME NEW i \in 1..Len(s) PROVE s[i] \in Snapshot
  BY ElementOfSeq
<1>3. ASSUME NEW x \in Snapshot
      PROVE  /\ x.overheat_mode \in Nat \cup {None}
             /\ x.mining_paused \in BOOLEAN \cup {None}
             /\ \A field \in Summed : x[field] \in Nat \cup {None}
  BY DEF Snapshot, Summed
<1> QED
  BY <1>1, <1>2, <1>3

LEMMA ValuesType ==
  ASSUME NEW s \in Seq(Snapshot), NEW field \in Summed
  PROVE  Values(s, field) \in [1..Len(s) -> Nat]
BY SnapshotFields DEF Values

(* The recursive definition is that of a running sum.                      *)
LEMMA SumOfRuns ==
  ASSUME NEW s \in Seq(Snapshot), NEW field \in Summed
  PROVE  \E f : Adds(f, Values(s, field), Len(s)) /\ SumOf(s, field) = f[Len(s)]
<1> DEFINE N == Len(s)
           v == Values(s, field)
           Is(f) == f = [n \in 0..N |->
                           IF n = 0 THEN 0
                           ELSE IF s[n][field] = None THEN f[n - 1]
                           ELSE f[n - 1] + s[n][field]]
           g == CHOOSE f : Is(f)
<1>1. N \in Nat /\ v \in [1..N -> Nat]
  BY SnapshotFields, ValuesType
<1>2. \A n \in 1..N :
        v[n] = IF s[n][field] = None THEN 0 ELSE s[n][field]
  BY DEF Values
<1>3. SumOf(s, field) = g[N]
  BY DEF SumOf
<1>4. PICK h : Adds(h, v, N)
  BY <1>1, SumExists
<1> HIDE DEF N, v
<1>5. Is(h)
  <2>1. h = [n \in 0..N |-> h[n]]
    BY <1>4 DEF Adds
  <2>2. ASSUME NEW n \in 0..N
        PROVE  h[n] = IF n = 0 THEN 0
                      ELSE IF s[n][field] = None THEN h[n - 1]
                      ELSE h[n - 1] + s[n][field]
    <3>1. CASE n = 0
      BY <1>4, <3>1 DEF Adds
    <3>2. CASE n # 0
      <4>1. n \in 1..N /\ n - 1 \in 0..N
        BY <1>1, <3>2
      <4>2. h[n] = h[n - 1] + v[n] /\ h[n - 1] \in Nat
        BY <1>4, <4>1 DEF Adds
      <4> QED
        BY <1>2, <3>2, <4>1, <4>2
    <3> QED
      BY <3>1, <3>2
  <2> QED
    BY <2>1, <2>2
<1>6. \E f : Is(f)
  BY <1>5
<1>7. Is(g)
  <2> HIDE DEF Is
  <2> QED
    BY <1>6 DEF g
<1> HIDE DEF g
<1>8. /\ DOMAIN g = 0..N /\ g[0] = 0 /\ g = [n \in 0..N |-> g[n]]
      /\ \A n \in 1..N : g[n] = IF s[n][field] = None THEN g[n - 1]
                                 ELSE g[n - 1] + s[n][field]
  BY <1>1, <1>7
<1> HIDE DEF Is
<1> DEFINE S == {n \in Nat : n <= N => g[n] \in Nat}
<1>9. 0 \in S
  BY <1>8
<1>10. ASSUME NEW n \in Nat, n \in S PROVE n + 1 \in S
  <2> SUFFICES ASSUME n + 1 <= N PROVE g[n + 1] \in Nat
    OBVIOUS
  <2>1. n + 1 \in 1..N /\ (n + 1) - 1 = n /\ g[n] \in Nat
    BY <1>1, <1>10
  <2>2. v[n + 1] \in Nat
    BY <1>1, <2>1
  <2>3. g[n + 1] = IF s[n + 1][field] = None THEN g[(n + 1) - 1]
                   ELSE g[(n + 1) - 1] + s[n + 1][field]
    BY <1>8, <2>1
  <2> QED
    BY <1>2, <2>1, <2>2, <2>3
<1> HIDE DEF S
<1>11. \A n \in 0..N : g[n] \in Nat
  <2>1. Nat \subseteq S
    BY <1>9, <1>10, Induction
  <2> QED
    BY <2>1 DEF S
<1>12. \A n \in 1..N : g[n] = g[n - 1] + v[n]
  <2> SUFFICES ASSUME NEW n \in 1..N PROVE g[n] = g[n - 1] + v[n]
    OBVIOUS
  <2>1. g[n - 1] \in Nat
    BY <1>1, <1>11
  <2> QED
    BY <1>2, <1>8, <2>1
<1>13. Adds(g, v, N)
  BY <1>8, <1>11, <1>12 DEF Adds
<1> QED
  BY <1>3, <1>13 DEF N, v

(* A fleet of the miners of l and those of r.                              *)
Parts(s, l, r) ==
  /\ s \in Seq(Snapshot) /\ l \in Seq(Snapshot) /\ r \in Seq(Snapshot)
  /\ Len(s) = Len(l) + Len(r)
  /\ \A i \in 1..Len(l) : s[i] = l[i]
  /\ \A i \in 1..Len(r) : s[Len(l) + i] = r[i]

LEMMA SplitParts ==
  ASSUME NEW s \in Seq(Snapshot), NEW k \in 0..Len(s)
  PROVE  Parts(s, SubSeq(s, 1, k), SubSeq(s, k + 1, Len(s)))
<1> DEFINE l == SubSeq(s, 1, k)
           r == SubSeq(s, k + 1, Len(s))
<1>1. Len(s) \in Nat /\ k \in Nat
  BY LenProperties
<1>2. l \in Seq(Snapshot) /\ Len(l) = k /\ \A i \in 1..k : l[i] = s[i]
  <2>1. \A i \in 1..k : s[i] \in Snapshot
    BY <1>1, SnapshotFields
  <2>2. /\ SubSeq(s, 1, k) \in Seq(Snapshot)
        /\ Len(SubSeq(s, 1, k)) = IF 1 <= k THEN k - 1 + 1 ELSE 0
        /\ \A i \in 1..(k - 1 + 1) : SubSeq(s, 1, k)[i] = s[1 + i - 1]
    BY <1>1, <2>1, SubSeqProperties
  <2> QED
    BY <1>1, <2>2
<1>3. /\ r \in Seq(Snapshot) /\ Len(r) = Len(s) - k
      /\ \A i \in 1..(Len(s) - k) : r[i] = s[k + i]
  <2>1. \A i \in (k + 1)..Len(s) : s[i] \in Snapshot
    BY <1>1, SnapshotFields
  <2>2. /\ r \in Seq(Snapshot)
        /\ Len(r) = IF k + 1 <= Len(s) THEN Len(s) - (k + 1) + 1 ELSE 0
        /\ \A i \in 1..(Len(s) - (k + 1) + 1) : r[i] = s[(k + 1) + i - 1]
    BY <1>1, <2>1, SubSeqProperties
  <2>3. Len(r) = Len(s) - k
    BY <1>1, <2>2
  <2>4. ASSUME NEW i \in 1..(Len(s) - k) PROVE r[i] = s[k + i]
    <3>1. i \in 1..(Len(s) - (k + 1) + 1) /\ (k + 1) + i - 1 = k + i
      BY <1>1
    <3> QED
      BY <2>2, <3>1
  <2> QED
    BY <2>2, <2>3, <2>4
<1> HIDE DEF l, r
<1>4. Parts(s, l, r)
  BY <1>1, <1>2, <1>3 DEF Parts
<1> QED
  BY <1>4 DEF l, r

(* Positions in the parts and in the whole.                                *)
Joined(A, B, C, n, m) ==
  /\ A \subseteq 1..n /\ B \subseteq 1..m /\ C \subseteq 1..(n + m)
  /\ \A i \in 1..n : i \in C <=> i \in A
  /\ \A i \in 1..m : n + i \in C <=> i \in B

LEMMA FiniteUpTo ==
  ASSUME NEW n \in Nat, NEW S \in SUBSET (1..n)
  PROVE  IsFiniteSet(S) /\ Cardinality(S) \in Nat /\ Cardinality(S) <= n
<1>1. IsFiniteSet(1..n) /\ Cardinality(1..n) = n
  BY FS_Interval
<1>2. IsFiniteSet(S) /\ Cardinality(S) <= n
  BY <1>1, FS_Subset
<1> QED
  BY <1>2, FS_CardinalityType

LEMMA JoinedCount ==
  ASSUME NEW n \in Nat, NEW m \in Nat, NEW A, NEW B, NEW C, Joined(A, B, C, n, m)
  PROVE  /\ Cardinality(A) \in Nat /\ Cardinality(B) \in Nat
         /\ Cardinality(C) = Cardinality(A) + Cardinality(B)
         /\ C = {} <=> A = {} /\ B = {}
<1> DEFINE D == {n + i : i \in B}
           shift == [i \in B |-> n + i]
<1>1. /\ IsFiniteSet(A) /\ Cardinality(A) \in Nat
      /\ IsFiniteSet(B) /\ Cardinality(B) \in Nat
  <2>1. ASSUME NEW k \in Nat, NEW S, S \subseteq 1..k
        PROVE  IsFiniteSet(S) /\ Cardinality(S) \in Nat
    BY <2>1, FiniteUpTo
  <2> QED
    BY <2>1 DEF Joined
<1>2. C = A \cup D /\ A \cap D = {}
  <2>1. \A i \in C : i \in A \/ i \in D
    <3> SUFFICES ASSUME NEW i \in C, i \notin 1..n PROVE i \in D
      BY DEF Joined
    <3>1. i \in (n + 1)..(n + m) /\ i - n \in 1..m /\ n + (i - n) = i
      BY DEF Joined
    <3>2. i - n \in B
      BY <3>1 DEF Joined
    <3> QED
      BY <3>1, <3>2
  <2>2. A \subseteq C /\ D \subseteq C
    BY DEF Joined
  <2>3. A \cap D = {}
    BY DEF Joined
  <2> QED
    BY <2>1, <2>2, <2>3
<1>3. shift \in Bijection(B, D)
  <2>1. shift \in [B -> D]
    OBVIOUS
  <2>2. \A i, j \in B : shift[i] = shift[j] => i = j
    BY DEF Joined
  <2>3. \A d \in D : \E i \in B : shift[i] = d
    OBVIOUS
  <2> HIDE DEF shift, D
  <2> QED
    BY <2>1, <2>2, <2>3 DEF Bijection, Injection, Surjection, IsInjective
<1>4. IsFiniteSet(D) /\ Cardinality(D) = Cardinality(B)
  BY <1>1, <1>3, FS_Bijection DEF ExistsBijection
<1> HIDE DEF D
<1>5. Cardinality(A \cup D) = Cardinality(A) + Cardinality(D)
  <2>1. Cardinality(A \cap D) = 0
    BY <1>2, FS_EmptySet
  <2> QED
    <3>1. Cardinality(A \cup D) = Cardinality(A) + Cardinality(D) - Cardinality(A \cap D)
      BY <1>1, <1>4, FS_Union
    <3> QED
      BY <1>1, <1>4, <2>1, <3>1
<1>6. D = {} <=> B = {}
  BY DEF D
<1> QED
  BY <1>1, <1>2, <1>4, <1>5, <1>6

LEMMA PartsFacts ==
  ASSUME NEW s, NEW l, NEW r, Parts(s, l, r)
  PROVE  /\ Len(l) \in Nat /\ Len(r) \in Nat /\ Len(s) = Len(l) + Len(r)
         /\ DOMAIN s = 1..(Len(l) + Len(r)) /\ DOMAIN l = 1..Len(l) /\ DOMAIN r = 1..Len(r)
         /\ \A i \in 1..Len(l) : i \in DOMAIN s /\ s[i] = l[i]
         /\ \A i \in 1..Len(r) : Len(l) + i \in DOMAIN s /\ s[Len(l) + i] = r[i]
<1>1. /\ Len(l) \in Nat /\ Len(r) \in Nat /\ Len(s) = Len(l) + Len(r)
      /\ DOMAIN s = 1..(Len(l) + Len(r)) /\ DOMAIN l = 1..Len(l) /\ DOMAIN r = 1..Len(r)
  BY SnapshotFields DEF Parts
<1>2. ASSUME NEW i \in 1..Len(l) PROVE i \in DOMAIN s /\ s[i] = l[i]
  BY <1>1 DEF Parts
<1>3. ASSUME NEW i \in 1..Len(r) PROVE Len(l) + i \in DOMAIN s /\ s[Len(l) + i] = r[i]
  BY <1>1 DEF Parts
<1> QED
  BY <1>1, <1>2, <1>3

LEMMA ReportingJoined ==
  ASSUME NEW s, NEW l, NEW r, Parts(s, l, r), NEW field
  PROVE  Joined(Reporting(l, field), Reporting(r, field), Reporting(s, field), Len(l), Len(r))
BY PartsFacts DEF Joined, Reporting

LEMMA JudgedJoined ==
  ASSUME NEW s, NEW l, NEW r, Parts(s, l, r)
  PROVE  Joined(Judged(l), Judged(r), Judged(s), Len(l), Len(r))
BY PartsFacts DEF Joined, Judged

Sick(s) == {i \in Judged(s) : Unhealthy(s[i])}
Hot(s) == {i \in Reporting(s, "overheat_mode") : s[i].overheat_mode # 0}

LEMMA SickJoined ==
  ASSUME NEW s, NEW l, NEW r, Parts(s, l, r)
  PROVE  Joined(Sick(l), Sick(r), Sick(s), Len(l), Len(r))
BY PartsFacts DEF Joined, Judged, Sick

LEMMA HotJoined ==
  ASSUME NEW s, NEW l, NEW r, Parts(s, l, r)
  PROVE  Joined(Hot(l), Hot(r), Hot(s), Len(l), Len(r))
BY PartsFacts DEF Joined, Reporting, Hot

LEMMA SumOfNothing ==
  ASSUME NEW s \in Seq(Snapshot), NEW field \in Summed
  PROVE  SumOf(s, field) \in Nat /\ (Reporting(s, field) = {} => SumOf(s, field) = 0)
<1>1. PICK f : Adds(f, Values(s, field), Len(s)) /\ SumOf(s, field) = f[Len(s)]
  BY SumOfRuns
<1>2. Len(s) \in Nat /\ DOMAIN s = 1..Len(s) /\ Values(s, field) \in [1..Len(s) -> Nat]
  BY SnapshotFields, ValuesType
<1>3. SumOf(s, field) \in Nat
  BY <1>1, <1>2 DEF Adds
<1>4. Reporting(s, field) = {} => \A i \in 1..Len(s) : Values(s, field)[i] = 0
  BY <1>2 DEF Reporting, Values
<1>5. Reporting(s, field) = {} => SumOf(s, field) = 0
  BY <1>1, <1>2, <1>4, SumOfZeros
<1> QED
  BY <1>3, <1>5

LEMMA SumJoined ==
  ASSUME NEW s, NEW l, NEW r, Parts(s, l, r), NEW field \in Summed
  PROVE  SumOf(s, field) = SumOf(l, field) + SumOf(r, field)
<1>1. s \in Seq(Snapshot) /\ l \in Seq(Snapshot) /\ r \in Seq(Snapshot)
  BY DEF Parts
<1>2. PICK f : Adds(f, Values(s, field), Len(s)) /\ SumOf(s, field) = f[Len(s)]
  BY <1>1, SumOfRuns
<1>3. PICK g : Adds(g, Values(l, field), Len(l)) /\ SumOf(l, field) = g[Len(l)]
  BY <1>1, SumOfRuns
<1>4. PICK h : Adds(h, Values(r, field), Len(r)) /\ SumOf(r, field) = h[Len(r)]
  BY <1>1, SumOfRuns
<1>5. /\ Values(s, field) \in [1..Len(s) -> Nat] /\ Values(l, field) \in [1..Len(l) -> Nat]
      /\ Values(r, field) \in [1..Len(r) -> Nat]
  BY <1>1, ValuesType
<1>6. /\ Len(s) \in Nat /\ Len(l) \in 0..Len(s) /\ Len(r) = Len(s) - Len(l)
      /\ \A i \in 1..Len(l) : Values(l, field)[i] = Values(s, field)[i]
      /\ \A i \in 1..Len(r) : Values(r, field)[i] = Values(s, field)[Len(l) + i]
  BY PartsFacts DEF Values
<1> DEFINE v == Values(s, field)
           x == Values(l, field)
           y == Values(r, field)
           N == Len(s)
           n == Len(l)
<1>7. Divided(N, n, v, x, y, f, g, h)
  BY <1>2, <1>3, <1>4, <1>5, <1>6 DEF Divided
<1> HIDE DEF v, x, y, N, n
<1>8. f[N] = g[n] + h[N - n]
  BY <1>7, SumOfParts
<1> QED
  BY <1>2, <1>3, <1>4, <1>6, <1>8 DEF N, n

LEMMA TotalJoined ==
  ASSUME NEW s, NEW l, NEW r, Parts(s, l, r), NEW field \in Summed
  PROVE  SumOrNone(s, field) = Together(SumOrNone(l, field), SumOrNone(r, field), +)
<1> DEFINE A == Reporting(l, field)
           B == Reporting(r, field)
           C == Reporting(s, field)
<1>1. C = {} <=> A = {} /\ B = {}
  BY ReportingJoined, JoinedCount, PartsFacts
<1>2. /\ SumOf(l, field) \in Nat /\ SumOf(r, field) \in Nat
      /\ A = {} => SumOf(l, field) = 0
      /\ B = {} => SumOf(r, field) = 0
  BY SumOfNothing DEF Parts
<1>3. SumOf(s, field) = SumOf(l, field) + SumOf(r, field)
  BY SumJoined
<1>4. None \notin Nat
  BY ConversionsAssumption
<1> QED
  BY <1>1, <1>2, <1>3, <1>4 DEF SumOrNone, Together

LEMMA CountJoined ==
  ASSUME NEW n \in Nat, NEW m \in Nat,
         NEW A, NEW B, NEW C, Joined(A, B, C, n, m),
         NEW a, NEW b, NEW c, Joined(a, b, c, n, m), a \subseteq A, b \subseteq B
  PROVE  CountOrNone(C, c) = Together(CountOrNone(A, a), CountOrNone(B, b), +)
<1>1. C = {} <=> A = {} /\ B = {}
  BY JoinedCount
<1>2. /\ Cardinality(a) \in Nat /\ Cardinality(b) \in Nat
      /\ Cardinality(c) = Cardinality(a) + Cardinality(b)
  BY JoinedCount
<1>3. (A = {} => Cardinality(a) = 0) /\ (B = {} => Cardinality(b) = 0)
  BY FS_EmptySet
<1>4. None \notin Nat
  BY ConversionsAssumption
<1> QED
  BY <1>1, <1>2, <1>3, <1>4 DEF CountOrNone, Together

(* The largest of some values.                                             *)
Best(s) == {s[i].best : i \in Reporting(s, "best")}

LEMMA BoundExists ==
  ASSUME NEW N \in Nat, NEW v \in [1..N -> Nat]
  PROVE  \E b \in Nat : \A i \in 1..N : v[i] <= b
<1> DEFINE S == {n \in Nat : n <= N => \E b \in Nat : \A i \in 1..n : v[i] <= b}
<1>1. 0 \in S
  OBVIOUS
<1>2. ASSUME NEW n \in Nat, n \in S PROVE n + 1 \in S
  <2> SUFFICES ASSUME n + 1 <= N
               PROVE  \E b \in Nat : \A i \in 1..(n + 1) : v[i] <= b
    OBVIOUS
  <2>1. PICK b \in Nat : \A i \in 1..n : v[i] <= b
    BY <1>2
  <2>2. v[n + 1] \in Nat
    OBVIOUS
  <2>3. \A i \in 1..(n + 1) : v[i] <= b + v[n + 1]
    <3> SUFFICES ASSUME NEW i \in 1..(n + 1) PROVE v[i] <= b + v[n + 1]
      OBVIOUS
    <3>1. v[i] \in Nat
      OBVIOUS
    <3>2. CASE i = n + 1
      BY <2>2, <3>1, <3>2
    <3>3. CASE i # n + 1
      <4>1. v[i] <= b
        BY <2>1, <3>3
      <4> QED
        BY <2>2, <3>1, <4>1
    <3> QED
      BY <3>2, <3>3
  <2>4. b + v[n + 1] \in Nat
    BY <2>2
  <2> QED
    BY <2>3, <2>4
<1> HIDE DEF S
<1>3. N \in S
  BY <1>1, <1>2, Induction
<1> QED
  BY <1>3 DEF S

LEMMA LargestIsThere ==
  ASSUME NEW S \in SUBSET Nat, S # {}, NEW b \in Nat, \A x \in S : x <= b
  PROVE  Max(S) \in S /\ \A x \in S : x <= Max(S)
<1> DEFINE T == {n \in Nat : \A x \in S : x <= n}
<1>1. PICK n \in T : \A m \in T : n <= m
  <2>1. T \in SUBSET Nat /\ b \in T
    OBVIOUS
  <2> HIDE DEF T
  <2> QED
    BY <2>1, LeastNumber
<1>2. n \in S
  <2> SUFFICES ASSUME n \notin S PROVE FALSE
    OBVIOUS
  <2>1. \A x \in S : x < n
    BY <1>1
  <2>2. n - 1 \in Nat /\ \A x \in S : x <= n - 1
    <3>1. PICK z \in S : z < n
      BY <2>1
    <3> QED
      BY <1>1, <2>1, <3>1
  <2> QED
    BY <1>1, <2>2
<1>3. \E x \in S : \A y \in S : x >= y
  BY <1>1, <1>2
<1>4. Max(S) \in S /\ \A y \in S : Max(S) >= y
  BY <1>3 DEF Max
<1> QED
  BY <1>4

LEMMA BestFacts ==
  ASSUME NEW s \in Seq(Snapshot)
  PROVE  /\ Best(s) = {} <=> Reporting(s, "best") = {}
         /\ Best(s) # {} => /\ Max(Best(s)) \in Best(s)
                           /\ \A x \in Best(s) : x \in Nat /\ x <= Max(Best(s))
<1>1. /\ Len(s) \in Nat /\ DOMAIN s = 1..Len(s)
      /\ Values(s, "best") \in [1..Len(s) -> Nat]
  BY SnapshotFields, ValuesType DEF Summed
<1>2. \A i \in Reporting(s, "best") :
        i \in 1..Len(s) /\ s[i].best = Values(s, "best")[i]
  BY <1>1 DEF Reporting, Values
<1>3. PICK b \in Nat : \A i \in 1..Len(s) : Values(s, "best")[i] <= b
  BY <1>1, BoundExists
<1>4. Best(s) \in SUBSET Nat /\ \A x \in Best(s) : x <= b
  BY <1>1, <1>2, <1>3 DEF Best
<1>5. Best(s) = {} <=> Reporting(s, "best") = {}
  BY DEF Best
<1>6. ASSUME Best(s) # {}
      PROVE  Max(Best(s)) \in Best(s) /\ \A x \in Best(s) : x <= Max(Best(s))
  BY <1>4, <1>6, LargestIsThere
<1> QED
  BY <1>4, <1>5, <1>6

LEMMA LargestJoined ==
  ASSUME NEW s, NEW l, NEW r, Parts(s, l, r)
  PROVE  LargestOrNone(s, "best") =
           Together(LargestOrNone(l, "best"), LargestOrNone(r, "best"), Larger)
<1>1. s \in Seq(Snapshot) /\ l \in Seq(Snapshot) /\ r \in Seq(Snapshot)
  BY DEF Parts
<1>2. Best(s) = Best(l) \cup Best(r)
  <2>1. \A i \in Reporting(l, "best") : i \in Reporting(s, "best") /\ s[i] = l[i]
    BY PartsFacts DEF Reporting
  <2>2. \A i \in Reporting(r, "best") :
          Len(l) + i \in Reporting(s, "best") /\ s[Len(l) + i] = r[i]
    BY PartsFacts DEF Reporting
  <2>3. ASSUME NEW j \in Reporting(s, "best")
        PROVE  s[j].best \in Best(l) \cup Best(r)
    <3>1. j \in 1..(Len(l) + Len(r)) /\ s[j].best # None
      BY PartsFacts DEF Reporting
    <3>2. CASE j \in 1..Len(l)
      <4>1. j \in Reporting(l, "best") /\ s[j] = l[j]
        BY <3>1, <3>2, PartsFacts DEF Reporting
      <4> QED
        BY <4>1 DEF Best
    <3>3. CASE j \notin 1..Len(l)
      <4>1. j - Len(l) \in 1..Len(r) /\ Len(l) + (j - Len(l)) = j
        BY <3>1, <3>3, PartsFacts
      <4>2. s[j] = r[j - Len(l)]
        BY <4>1, PartsFacts
      <4>3. j - Len(l) \in Reporting(r, "best")
        BY <3>1, <4>1, <4>2, PartsFacts DEF Reporting
      <4> QED
        BY <4>2, <4>3 DEF Best
    <3> QED
      BY <3>2, <3>3
  <2>4. Best(l) \subseteq Best(s)
    BY <2>1 DEF Best
  <2>5. Best(r) \subseteq Best(s)
    BY <2>2 DEF Best
  <2>6. Best(s) \subseteq Best(l) \cup Best(r)
    BY <2>3 DEF Best
  <2> QED
    BY <2>4, <2>5, <2>6
<1>3. ASSUME NEW x \in Seq(Snapshot)
      PROVE  LargestOrNone(x, "best") = IF Best(x) = {} THEN None ELSE Max(Best(x))
  BY <1>3, BestFacts DEF LargestOrNone, Best
<1> DEFINE L == Best(l)
           R == Best(r)
           S == Best(s)
<1>4. /\ S = L \cup R
      /\ L # {} => Max(L) \in L /\ \A x \in L : x \in Nat /\ x <= Max(L)
      /\ R # {} => Max(R) \in R /\ \A x \in R : x \in Nat /\ x <= Max(R)
      /\ S # {} => Max(S) \in S /\ \A x \in S : x \in Nat /\ x <= Max(S)
  BY <1>1, <1>2, BestFacts
<1> HIDE DEF L, R, S
<1>5. CASE L = {} \/ R = {}
  <2>1. S = (IF L = {} THEN R ELSE L)
    BY <1>4, <1>5
  <2>2. (IF S = {} THEN None ELSE Max(S)) =
          Together(IF L = {} THEN None ELSE Max(L), IF R = {} THEN None ELSE Max(R), Larger)
    <3>1. \A x \in Nat : x # None
      BY ConversionsAssumption
    <3> QED
      BY <1>4, <1>5, <2>1, <3>1 DEF Together
  <2> QED
    BY <1>1, <1>3, <2>2 DEF L, R, S
<1>6. CASE L # {} /\ R # {}
  <2>1. S # {}
    BY <1>4, <1>6
  <2>2. /\ Max(L) \in Nat /\ Max(R) \in Nat /\ Max(S) \in Nat
        /\ Max(L) <= Max(S) /\ Max(R) <= Max(S) /\ (Max(S) <= Max(L) \/ Max(S) <= Max(R))
    BY <1>4, <1>6, <2>1
  <2>3. Max(S) = Larger(Max(L), Max(R))
    BY <2>2 DEF Larger
  <2>4. Max(L) # None /\ Max(R) # None
    BY <2>2, ConversionsAssumption
  <2> QED
    BY <1>1, <1>3, <1>6, <2>1, <2>3, <2>4 DEF L, R, S, Together
<1> QED
  BY <1>5, <1>6

(* What the totals say of their coverage and of each other.                *)
LEMMA AggregateFields ==
  ASSUME NEW s
  PROVE  /\ Aggregates(s).online_miners = Len(s)
         /\ Aggregates(s).coverage["hashrate"] = Cardinality(Reporting(s, "hashrate"))
         /\ Aggregates(s).coverage["power"] = Cardinality(Reporting(s, "power"))
         /\ Aggregates(s).coverage["uptime"] = Cardinality(Reporting(s, "uptime"))
         /\ Aggregates(s).coverage["best"] = Cardinality(Reporting(s, "best"))
         /\ Aggregates(s).coverage["unhealthy"] = Cardinality(Judged(s))
         /\ Aggregates(s).coverage["overheat"] = Cardinality(Reporting(s, "overheat_mode"))
         /\ Aggregates(s)["total_hashrate"] = SumOrNone(s, "hashrate")
         /\ Aggregates(s)["total_power"] = SumOrNone(s, "power")
         /\ Aggregates(s)["total_uptime"] = SumOrNone(s, "uptime")
         /\ Aggregates(s)["best_difficulty"] = LargestOrNone(s, "best")
         /\ Aggregates(s)["unhealthy_miners"] = CountOrNone(Judged(s), Sick(s))
         /\ Aggregates(s)["overheating_miners"] =
              CountOrNone(Reporting(s, "overheat_mode"), Hot(s))
         /\ Aggregates(s).efficiency =
              Efficiency(SumOrNone(s, "power"), SumOrNone(s, "hashrate"))
BY DEF Aggregates, Sick, Hot

LEMMA TotalsOfParts ==
  ASSUME NEW s, NEW l, NEW r, Parts(s, l, r)
  PROVE  /\ \A t \in {"total_hashrate", "total_power", "total_uptime",
                      "unhealthy_miners", "overheating_miners"} :
              Aggregates(s)[t] = Together(Aggregates(l)[t], Aggregates(r)[t], +)
         /\ Aggregates(s).best_difficulty =
              Together(Aggregates(l).best_difficulty, Aggregates(r).best_difficulty, Larger)
<1>1. ASSUME NEW field \in Summed
      PROVE  SumOrNone(s, field) = Together(SumOrNone(l, field), SumOrNone(r, field), +)
  BY <1>1, TotalJoined DEF Together
<1>2. CountOrNone(Judged(s), Sick(s)) =
        Together(CountOrNone(Judged(l), Sick(l)), CountOrNone(Judged(r), Sick(r)), +)
  <2> DEFINE A == Judged(l)
             B == Judged(r)
             C == Judged(s)
             a == Sick(l)
             b == Sick(r)
             c == Sick(s)
             n == Len(l)
             m == Len(r)
  <2>1. n \in Nat /\ m \in Nat
    BY PartsFacts
  <2>2. Joined(A, B, C, n, m)
    BY JudgedJoined
  <2>3. Joined(a, b, c, n, m)
    BY SickJoined
  <2>4. a \subseteq A /\ b \subseteq B
    BY DEF Sick
  <2> HIDE DEF A, B, C, a, b, c, n, m
  <2>5. CountOrNone(C, c) = Together(CountOrNone(A, a), CountOrNone(B, b), +)
    BY <2>1, <2>2, <2>3, <2>4, CountJoined DEF Together
  <2> QED
    BY <2>5 DEF A, B, C, a, b, c
<1>3. CountOrNone(Reporting(s, "overheat_mode"), Hot(s)) =
        Together(CountOrNone(Reporting(l, "overheat_mode"), Hot(l)),
                 CountOrNone(Reporting(r, "overheat_mode"), Hot(r)), +)
  <2> DEFINE A == Reporting(l, "overheat_mode")
             B == Reporting(r, "overheat_mode")
             C == Reporting(s, "overheat_mode")
             a == Hot(l)
             b == Hot(r)
             c == Hot(s)
             n == Len(l)
             m == Len(r)
  <2>1. n \in Nat /\ m \in Nat
    BY PartsFacts
  <2>2. Joined(A, B, C, n, m)
    BY ReportingJoined
  <2>3. Joined(a, b, c, n, m)
    BY HotJoined
  <2>4. a \subseteq A /\ b \subseteq B
    BY DEF Hot
  <2> HIDE DEF A, B, C, a, b, c, n, m
  <2>5. CountOrNone(C, c) = Together(CountOrNone(A, a), CountOrNone(B, b), +)
    BY <2>1, <2>2, <2>3, <2>4, CountJoined DEF Together
  <2> QED
    BY <2>5 DEF A, B, C, a, b, c
<1>4. LargestOrNone(s, "best") =
        Together(LargestOrNone(l, "best"), LargestOrNone(r, "best"), Larger)
  BY LargestJoined
<1>5. "hashrate" \in Summed /\ "power" \in Summed /\ "uptime" \in Summed
  BY DEF Summed
<1>6. /\ Aggregates(s)["total_hashrate"] =
           Together(Aggregates(l)["total_hashrate"], Aggregates(r)["total_hashrate"], +)
      /\ Aggregates(s)["total_power"] =
           Together(Aggregates(l)["total_power"], Aggregates(r)["total_power"], +)
      /\ Aggregates(s)["total_uptime"] =
           Together(Aggregates(l)["total_uptime"], Aggregates(r)["total_uptime"], +)
  BY <1>1, <1>5, AggregateFields
<1>7. Aggregates(s)["unhealthy_miners"] =
        Together(Aggregates(l)["unhealthy_miners"], Aggregates(r)["unhealthy_miners"], +)
  BY <1>2, AggregateFields
<1>8. Aggregates(s)["overheating_miners"] =
        Together(Aggregates(l)["overheating_miners"], Aggregates(r)["overheating_miners"], +)
  BY <1>3, AggregateFields
<1>9. Aggregates(s).best_difficulty =
        Together(Aggregates(l).best_difficulty, Aggregates(r).best_difficulty, Larger)
  BY <1>4, AggregateFields
<1> QED
  BY <1>6, <1>7, <1>8, <1>9

LEMMA CoverageCounts ==
  ASSUME NEW s \in Seq(Snapshot), NEW field
  PROVE  /\ Cardinality(Reporting(s, field)) \in Nat
         /\ Cardinality(Reporting(s, field)) <= Len(s)
         /\ Cardinality(Reporting(s, field)) = 0 <=> Reporting(s, field) = {}
<1>1. Len(s) \in Nat /\ Reporting(s, field) \in SUBSET (1..Len(s))
  BY SnapshotFields DEF Reporting
<1> QED
  BY <1>1, FiniteUpTo, FS_EmptySet

LEMMA JudgedCounts ==
  ASSUME NEW s \in Seq(Snapshot)
  PROVE  /\ Cardinality(Judged(s)) \in Nat /\ Cardinality(Judged(s)) <= Len(s)
         /\ Cardinality(Judged(s)) = 0 <=> Judged(s) = {}
         /\ Cardinality(Sick(s)) \in Nat /\ Cardinality(Hot(s)) \in Nat
         /\ Hot(s) \subseteq Sick(s) /\ Cardinality(Hot(s)) <= Cardinality(Sick(s))
         /\ Cardinality(Hot(s)) # 0 => Judged(s) # {}
<1>1. /\ Len(s) \in Nat /\ Judged(s) \in SUBSET (1..Len(s)) /\ Sick(s) \in SUBSET (1..Len(s))
      /\ Hot(s) \in SUBSET (1..Len(s))
  BY SnapshotFields DEF Judged, Sick, Hot, Reporting
<1>2. ASSUME NEW i \in Hot(s) PROVE i \in Sick(s)
  <2>1. i \in DOMAIN s /\ s[i].overheat_mode \notin {None, 0}
    BY DEF Hot, Reporting
  <2>2. SnapshotCondition(s[i]) = "overheat"
    BY <2>1 DEF SnapshotCondition
  <2> QED
    BY <2>1, <2>2 DEF Sick, Judged, Unhealthy
<1>3. /\ IsFiniteSet(Judged(s)) /\ Cardinality(Judged(s)) \in Nat
      /\ Cardinality(Judged(s)) <= Len(s)
      /\ IsFiniteSet(Sick(s)) /\ Cardinality(Sick(s)) \in Nat
      /\ IsFiniteSet(Hot(s)) /\ Cardinality(Hot(s)) \in Nat
  BY <1>1, FiniteUpTo
<1>4. Hot(s) \subseteq Sick(s) /\ Cardinality(Hot(s)) <= Cardinality(Sick(s))
  BY <1>2, <1>3, FS_Subset
<1>5. Cardinality(Judged(s)) = 0 <=> Judged(s) = {}
  BY <1>3, FS_EmptySet
<1>6. Cardinality(Hot(s)) # 0 => Judged(s) # {}
  BY <1>2, FS_EmptySet DEF Sick
<1> QED
  BY <1>3, <1>4, <1>5, <1>6

LEMMA TotalsCovered ==
  ASSUME NEW s \in Seq(Snapshot)
  PROVE  \A pair \in {<<"total_hashrate", "hashrate">>, <<"total_power", "power">>,
                      <<"total_uptime", "uptime">>, <<"best_difficulty", "best">>,
                      <<"unhealthy_miners", "unhealthy">>,
                      <<"overheating_miners", "overheat">>} :
           /\ (Aggregates(s)[pair[1]] = None) = (Aggregates(s).coverage[pair[2]] = 0)
           /\ Aggregates(s).coverage[pair[2]] <= Aggregates(s).online_miners
<1>1. \A x \in Nat : x # None
  BY ConversionsAssumption
<1>2. ASSUME NEW field \in Summed
      PROVE  (SumOrNone(s, field) = None) = (Cardinality(Reporting(s, field)) = 0)
  BY <1>1, SumOfNothing, CoverageCounts DEF SumOrNone
<1>3. (LargestOrNone(s, "best") = None) = (Cardinality(Reporting(s, "best")) = 0)
  <2>1. Best(s) = {} <=> Reporting(s, "best") = {}
    BY BestFacts
  <2>2. Best(s) # {} => Max(Best(s)) # None
    BY <1>1, BestFacts
  <2> QED
    BY <2>1, <2>2, CoverageCounts DEF LargestOrNone, Best
<1>4. /\ (CountOrNone(Judged(s), Sick(s)) = None) = (Cardinality(Judged(s)) = 0)
      /\ (CountOrNone(Reporting(s, "overheat_mode"), Hot(s)) = None) =
           (Cardinality(Reporting(s, "overheat_mode")) = 0)
  BY <1>1, JudgedCounts, CoverageCounts DEF CountOrNone
<1>5. /\ Cardinality(Judged(s)) <= Len(s)
      /\ \A field : Cardinality(Reporting(s, field)) <= Len(s)
  BY JudgedCounts, CoverageCounts
<1>6. "hashrate" \in Summed /\ "power" \in Summed /\ "uptime" \in Summed
  BY DEF Summed
<1>7. /\ (SumOrNone(s, "hashrate") = None) = (Cardinality(Reporting(s, "hashrate")) = 0)
      /\ (SumOrNone(s, "power") = None) = (Cardinality(Reporting(s, "power")) = 0)
      /\ (SumOrNone(s, "uptime") = None) = (Cardinality(Reporting(s, "uptime")) = 0)
  BY <1>2, <1>6
<1> DEFINE Fine(x, y) ==
             /\ (Aggregates(s)[x] = None) = (Aggregates(s).coverage[y] = 0)
             /\ Aggregates(s).coverage[y] <= Aggregates(s).online_miners
<1>8. Fine("total_hashrate", "hashrate")
  BY <1>5, <1>7, AggregateFields
<1>9. Fine("total_power", "power")
  BY <1>5, <1>7, AggregateFields
<1>10. Fine("total_uptime", "uptime")
  BY <1>5, <1>7, AggregateFields
<1>11. Fine("best_difficulty", "best")
  BY <1>3, <1>5, AggregateFields
<1>12. Fine("unhealthy_miners", "unhealthy")
  BY <1>4, <1>5, AggregateFields
<1>13. Fine("overheating_miners", "overheat")
  BY <1>4, <1>5, AggregateFields
<1> QED
  BY <1>8, <1>9, <1>10, <1>11, <1>12, <1>13

(* Those whose own sensor is on.                                           *)
LEMMA Sensors ==
  ASSUME NEW s \in Snapshot
  PROVE  /\ IsOn("overheating", s) = TRUE <=> s.overheat_mode # None /\ s.overheat_mode # 0
         /\ IsOn("mining", s) = TRUE => SnapshotCondition(s) # "paused"
<1>1. s.mining_paused \in BOOLEAN \cup {None} /\ None \notin BOOLEAN
  BY ConversionsAssumption DEF Snapshot
<1>2. IsOn("overheating", s) =
        IF s.overheat_mode = None THEN None ELSE s.overheat_mode # 0
  BY DEF IsOn
<1>3. IsOn("overheating", s) = TRUE <=> s.overheat_mode # None /\ s.overheat_mode # 0
  <2>1. CASE s.overheat_mode = None
    BY <1>1, <1>2, <2>1
  <2>2. CASE s.overheat_mode # None
    BY <1>2, <2>2
  <2> QED
    BY <2>1, <2>2
<1>4. IsOn("mining", s) = IF s.mining_paused = None THEN None ELSE ~s.mining_paused
  BY DEF IsOn
<1>5. ASSUME s.mining_paused = TRUE PROVE IsOn("mining", s) # TRUE
  BY <1>1, <1>4, <1>5
<1>6. s.mining_paused # TRUE => SnapshotCondition(s) # "paused"
  BY DEF SnapshotCondition
<1> QED
  BY <1>3, <1>5, <1>6

LEMMA EfficiencyDefined ==
  ASSUME NEW s \in Seq(Snapshot)
  PROVE  (Aggregates(s).efficiency = None) =
           (None \in {Aggregates(s).total_power, Aggregates(s).total_hashrate}
              \/ Aggregates(s).total_hashrate = 0)
<1> DEFINE w == SumOrNone(s, "power")
           g == SumOrNone(s, "hashrate")
<1>1. w \in Nat \cup {None} /\ g \in Nat \cup {None}
  BY SumOfNothing DEF SumOrNone, Summed
<1>2. /\ Aggregates(s).total_power = w /\ Aggregates(s).total_hashrate = g
      /\ Aggregates(s).efficiency = Efficiency(w, g)
  BY AggregateFields
<1> HIDE DEF w, g
<1>3. CASE None \in {w, g} \/ g = 0
  <2>1. Efficiency(w, g) = None
    BY <1>3 DEF Efficiency
  <2> QED
    BY <1>2, <1>3, <2>1
<1>4. CASE ~(None \in {w, g} \/ g = 0)
  <2>1. w \in Nat /\ g \in Nat /\ ~(g <= 0) /\ None \notin {w, g}
    BY <1>1, <1>4
  <2>2. Efficiency(w, g) = [watts |-> w, gh_s |-> g]
    BY <2>1 DEF Efficiency
  <2>3. Efficiency(w, g) \in [watts : Nat, gh_s : Nat]
    BY <2>1, <2>2
  <2>4. Efficiency(w, g) # None
    BY <2>3, ConversionsAssumption
  <2> QED
    BY <1>2, <1>4, <2>4
<1> QED
  BY <1>3, <1>4

LEMMA HotAreSick ==
  ASSUME NEW s \in Seq(Snapshot)
  PROVE  LET a == Aggregates(s)
         IN  /\ a.overheating_miners \notin {None, 0} =>
                  a.unhealthy_miners # None /\ a.overheating_miners <= a.unhealthy_miners
             /\ Hot(s) # {} => a.overheating_miners = Cardinality(Hot(s))
<1> DEFINE a == Aggregates(s)
<1>1. /\ a.overheating_miners = IF Reporting(s, "overheat_mode") = {} THEN None
                                ELSE Cardinality(Hot(s))
      /\ a.unhealthy_miners = IF Judged(s) = {} THEN None ELSE Cardinality(Sick(s))
  BY AggregateFields DEF CountOrNone
<1>2. Hot(s) \subseteq Reporting(s, "overheat_mode")
  BY DEF Hot
<1>3. \A x \in Nat : x # None
  BY ConversionsAssumption
<1> HIDE DEF a
<1>4. ASSUME a.overheating_miners \notin {None, 0}
      PROVE  a.unhealthy_miners # None /\ a.overheating_miners <= a.unhealthy_miners
  BY <1>1, <1>3, <1>4, JudgedCounts
<1>5. Hot(s) # {} => a.overheating_miners = Cardinality(Hot(s))
  BY <1>1, <1>2
<1> QED
  BY <1>4, <1>5 DEF a

(* What is returned is what was asked for.                                 *)
Returned ==
  /\ call.to = "calculate_fleet_aggregates" =>
       call.snapshots \in Fleets /\ result = {Aggregates(call.snapshots)}
  /\ call.to = "get_system_logs" =>
       /\ call.response \in LogResponses
       /\ result = GetSystemLogs(
                      call.response.chunks,
                      IF call.response.announced THEN Len(Encode(call.response.text))
                      ELSE None)

LEMMA ReturnedAlways == Spec => []Returned
<1>1. Init => Returned
  BY DEF Init, Idle, Returned
<1>2. Returned /\ [Next]_vars => Returned'
  <2> SUFFICES ASSUME Returned, [Next]_vars PROVE Returned'
    OBVIOUS
  <2>1. CASE ReadSystemInfo
    BY <2>1 DEF ReadSystemInfo, Returned
  <2>2. CASE ReadSystemAsic
    BY <2>2 DEF ReadSystemAsic, Returned
  <2>3. CASE ReceivePolicy
    BY <2>3 DEF ReceivePolicy, Returned
  <2>4. CASE AddUp
    BY <2>4 DEF AddUp, Returned
  <2>5. CASE ThinHistory
    BY <2>5 DEF ThinHistory, Returned
  <2>6. CASE ReadLogs
    BY <2>6 DEF ReadLogs, Returned
  <2>7. CASE PlanScan
    BY <2>7 DEF PlanScan, Returned
  <2>8. CASE Finish
    BY <2>8 DEF Finish, Idle, Returned
  <2>9. CASE UNCHANGED vars
    BY <2>9 DEF vars, Returned
  <2> QED
    BY <2>1, <2>2, <2>3, <2>4, <2>5, <2>6, <2>7, <2>8, <2>9 DEF Next
<1> QED
  BY <1>1, <1>2, PTL DEF Spec

-----------------------------------------------------------------------------
(* Of a fleet of any size the totals are those of any two parts together,  *)
(* a metric has a total exactly when a miner reports it, and the counts    *)
(* agree with what each miner's own sensors say (aggregates.py:40).        *)
THEOREM TotalsMatch == Spec => []TotalsMatchCoverage
<1>1. Returned => TotalsMatchCoverage
  <2> SUFFICES ASSUME Returned, call.to = "calculate_fleet_aggregates" PROVE TotalsMatchCoverage
    BY DEF TotalsMatchCoverage
  <2> DEFINE s == call.snapshots
             a == Aggregates(s)
  <2>1. s \in Seq(Snapshot) /\ result = {a}
    BY ConversionsAssumption DEF Returned
  <2>2. ASSUME NEW k \in 0..Len(s)
        PROVE  LET l == Aggregates(SubSeq(s, 1, k))
                   r == Aggregates(SubSeq(s, k + 1, Len(s)))
               IN  /\ \A t \in {"total_hashrate", "total_power", "total_uptime",
                                "unhealthy_miners", "overheating_miners"} :
                        a[t] = Together(l[t], r[t], +)
                   /\ a.best_difficulty =
                        Together(l.best_difficulty, r.best_difficulty, Larger)
    <3>1. Parts(s, SubSeq(s, 1, k), SubSeq(s, k + 1, Len(s)))
      BY <2>1, SplitParts
    <3> DEFINE p == SubSeq(s, 1, k)
               q == SubSeq(s, k + 1, Len(s))
    <3> HIDE DEF s, p, q
    <3> QED
      BY <3>1, TotalsOfParts DEF Together, p, q
  <2>3. \A pair \in {<<"total_hashrate", "hashrate">>, <<"total_power", "power">>,
                     <<"total_uptime", "uptime">>, <<"best_difficulty", "best">>,
                     <<"unhealthy_miners", "unhealthy">>,
                     <<"overheating_miners", "overheat">>} :
          /\ (a[pair[1]] = None) = (a.coverage[pair[2]] = 0)
          /\ a.coverage[pair[2]] <= a.online_miners
    BY <2>1, TotalsCovered
  <2>4. Hot(s) = On("overheating")
    <3>1. \A i \in DOMAIN s : s[i] \in Snapshot
      BY <2>1, SnapshotFields
    <3> QED
      BY <3>1, Sensors DEF On, Hot, Reporting
  <2>5. /\ a.overheating_miners \notin {None, 0} =>
             a.unhealthy_miners # None /\ a.overheating_miners <= a.unhealthy_miners
        /\ On("overheating") # {} => a.overheating_miners = Cardinality(On("overheating"))
    BY <2>1, <2>4, HotAreSick
  <2>6. \A i \in On("mining") : SnapshotCondition(call.snapshots[i]) # "paused"
    <3>1. \A i \in DOMAIN s : s[i] \in Snapshot
      BY <2>1, SnapshotFields
    <3> QED
      BY <3>1, Sensors DEF On
  <2>7. (a.efficiency = None) =
          (None \in {a.total_power, a.total_hashrate} \/ a.total_hashrate = 0)
    BY <2>1, EfficiencyDefined
  <2>8. \A x \in result : x = a
    BY <2>1
  <2> HIDE DEF a
  <2> QED
    BY <2>2, <2>3, <2>5, <2>6, <2>7, <2>8, ZenonT(60) DEF TotalsMatchCoverage
<1> QED
  BY <1>1, ReturnedAlways, PTL

-----------------------------------------------------------------------------
(* Sequences put one after the other.                                      *)

(* What comes of the first i of them. *)
Flattens(f, q, n, S) ==
  /\ f \in [1..n -> Seq(S)]
  /\ f[1] = q[1]
  /\ \A i \in 2..n : f[i] = f[i - 1] \o q[i]

LEMMA FlattensExists ==
  ASSUME NEW S, NEW q \in Seq(Seq(S)), Len(q) # 0
  PROVE  \E f : Flattens(f, q, Len(q), S)
<1> DEFINE N == Len(q)
           T == {n \in Nat : n + 1 <= N => \E f : Flattens(f, q, n + 1, S)}
<1>1. N \in Nat \ {0} /\ \A i \in 1..N : q[i] \in Seq(S)
  BY LenProperties, ElementOfSeq
<1> HIDE DEF N
<1>2. 0 \in T
  <2>1. q[1] \in Seq(S)
    BY <1>1
  <2> DEFINE f == [i \in 1..1 |-> q[1]]
  <2>2. Flattens(f, q, 1, S)
    BY <2>1 DEF Flattens
  <2> QED
    BY <2>2
<1>3. ASSUME NEW n \in Nat, n \in T PROVE n + 1 \in T
  <2> SUFFICES ASSUME n + 2 <= N PROVE \E f : Flattens(f, q, n + 2, S)
    BY <1>1
  <2>1. PICK f : Flattens(f, q, n + 1, S)
    BY <1>1, <1>3
  <2>2. q[n + 2] \in Seq(S) /\ f[n + 1] \in Seq(S) /\ n + 2 \in Nat
    BY <1>1, <2>1 DEF Flattens
  <2>3. f[n + 1] \o q[n + 2] \in Seq(S)
    BY <2>2, ConcatProperties
  <2> DEFINE g == [i \in 1..(n + 2) |->
                     IF i = n + 2 THEN f[n + 1] \o q[n + 2] ELSE f[i]]
  <2>4. g \in [1..(n + 2) -> Seq(S)]
    BY <2>1, <2>3 DEF Flattens
  <2>5. g[1] = q[1]
    BY <2>1 DEF Flattens
  <2>6. ASSUME NEW i \in 2..(n + 2) PROVE g[i] = g[i - 1] \o q[i]
    <3>1. CASE i = n + 2
      <4>1. i - 1 = n + 1 /\ i - 1 \in 1..(n + 2) /\ i - 1 # n + 2
        BY <3>1
      <4>2. g[n + 2] = f[n + 1] \o q[n + 2]
        <5>1. n + 2 \in 1..(n + 2)
          OBVIOUS
        <5> QED
          BY <5>1, Zenon
      <4>3. g[i - 1] = f[n + 1]
        BY <4>1
      <4> QED
        BY <3>1, <4>2, <4>3
    <3>2. CASE i # n + 2
      <4>1. i \in 2..(n + 1) /\ g[i] = f[i] /\ g[i - 1] = f[i - 1]
        BY <3>2
      <4> QED
        BY <2>1, <4>1 DEF Flattens
    <3> QED
      BY <3>1, <3>2
  <2> QED
    BY <2>4, <2>5, <2>6 DEF Flattens
<1> HIDE DEF T
<1>4. N - 1 \in T
  <2>1. Nat \subseteq T
    BY <1>2, <1>3, Induction
  <2> QED
    BY <1>1, <2>1
<1> QED
  BY <1>1, <1>4 DEF T, N

LEMMA FlattensAgree ==
  ASSUME NEW S, NEW q, NEW n \in Nat \ {0}, NEW m \in 1..n,
         NEW f, Flattens(f, q, n, S), NEW g, Flattens(g, q, m, S)
  PROVE  f[m] = g[m]
<1> DEFINE T == {k \in Nat : k + 1 <= m => f[k + 1] = g[k + 1]}
<1>1. 0 \in T
  BY DEF Flattens
<1>2. ASSUME NEW k \in Nat, k \in T PROVE k + 1 \in T
  <2> SUFFICES ASSUME k + 2 <= m PROVE f[k + 2] = g[k + 2]
    OBVIOUS
  <2>1. k + 2 \in 2..m /\ k + 2 \in 2..n /\ (k + 2) - 1 = k + 1 /\ f[k + 1] = g[k + 1]
    BY <1>2
  <2> QED
    BY <2>1 DEF Flattens
<1> HIDE DEF T
<1>3. m - 1 \in T
  BY <1>1, <1>2, Induction
<1> QED
  BY <1>3 DEF T

LEMMA FlattenIs ==
  ASSUME NEW S, NEW q \in Seq(Seq(S)), Len(q) # 0, NEW f, Flattens(f, q, Len(q), S)
  PROVE  FlattenSeq(q) = f[Len(q)]
<1> DEFINE N == Len(q)
           Is(h) == h = [i \in 1..N |-> IF i = 1 THEN q[i] ELSE h[i - 1] \o q[i]]
           g == CHOOSE h : Is(h)
<1>1. N \in Nat \ {0} /\ \A i \in 1..N : q[i] \in Seq(S)
  BY LenProperties, ElementOfSeq
<1>2. FlattenSeq(q) = g[N]
  BY DEF FlattenSeq
<1> HIDE DEF N
<1>3. Is(f)
  <2>1. f = [i \in 1..N |-> f[i]]
    BY DEF Flattens, N
  <2>2. ASSUME NEW i \in 1..N PROVE f[i] = IF i = 1 THEN q[i] ELSE f[i - 1] \o q[i]
    <3>1. CASE i = 1
      BY <3>1 DEF Flattens
    <3>2. CASE i # 1
      <4>1. i \in 2..N
        BY <1>1, <3>2
      <4> QED
        BY <3>2, <4>1 DEF Flattens, N
    <3> QED
      BY <3>1, <3>2
  <2> QED
    BY <2>1, <2>2
<1>4. Is(g)
  <2>1. \E h : Is(h)
    BY <1>3
  <2> HIDE DEF Is
  <2> QED
    BY <2>1 DEF g
<1> HIDE DEF g
<1>5. g[1] = q[1] /\ \A i \in 2..N : g[i] = g[i - 1] \o q[i]
  <2>1. \A i \in 1..N : g[i] = IF i = 1 THEN q[i] ELSE g[i - 1] \o q[i]
    BY <1>4
  <2>2. ASSUME NEW i \in 2..N PROVE g[i] = g[i - 1] \o q[i]
    <3>1. i \in 1..N /\ i # 1
      BY <1>1
    <3> QED
      BY <2>1, <3>1
  <2>3. 1 \in 1..N
    BY <1>1
  <2>4. g[1] = q[1]
    BY <2>1, <2>3
  <2> QED
    BY <2>2, <2>4
<1> HIDE DEF Is
<1> DEFINE T == {k \in Nat : k + 1 <= N => g[k + 1] = f[k + 1]}
<1>6. 0 \in T
  BY <1>5 DEF Flattens
<1>7. ASSUME NEW k \in Nat, k \in T PROVE k + 1 \in T
  <2> SUFFICES ASSUME k + 2 <= N PROVE g[k + 2] = f[k + 2]
    BY <1>1
  <2>1. k + 2 \in 2..N /\ (k + 2) - 1 = k + 1 /\ g[k + 1] = f[k + 1]
    BY <1>1, <1>7
  <2> QED
    BY <1>5, <2>1 DEF Flattens, N
<1> HIDE DEF T
<1>8. N - 1 \in T
  <2>1. Nat \subseteq T
    BY <1>6, <1>7, Induction
  <2> QED
    BY <1>1, <2>1
<1> QED
  BY <1>1, <1>2, <1>8 DEF T, N

(* Nothing is nothing, and one more sequence goes to the end.              *)
LEMMA FlattenFacts ==
  ASSUME NEW S
  PROVE  /\ FlattenSeq(<<>>) = <<>>
         /\ \A q \in Seq(Seq(S)) : FlattenSeq(q) \in Seq(S)
<1>1. FlattenSeq(<<>>) = <<>>
  BY EmptySeq DEF FlattenSeq
<1>2. ASSUME NEW q \in Seq(Seq(S)) PROVE FlattenSeq(q) \in Seq(S)
  <2>1. CASE Len(q) = 0
    BY <1>1, <2>1, EmptySeq
  <2>2. CASE Len(q) # 0
    <3>1. PICK f : Flattens(f, q, Len(q), S)
      BY <2>2, FlattensExists
    <3>2. f[Len(q)] \in Seq(S)
      BY <2>2, <3>1, LenProperties DEF Flattens
    <3> QED
      BY <2>2, <3>1, <3>2, FlattenIs
  <2> QED
    BY <2>1, <2>2
<1> QED
  BY <1>1, <1>2

LEMMA FlattenAppend ==
  ASSUME NEW S, NEW q \in Seq(Seq(S)), NEW x \in Seq(S)
  PROVE  FlattenSeq(Append(q, x)) = FlattenSeq(q) \o x
<1> DEFINE r == Append(q, x)
           n == Len(q)
<1>1. /\ r \in Seq(Seq(S)) /\ Len(r) = n + 1 /\ n \in Nat
      /\ \A i \in 1..n : r[i] = q[i]
      /\ r[n + 1] = x
  BY AppendProperties, LenProperties
<1> HIDE DEF r
<1>2. PICK f : Flattens(f, r, n + 1, S)
  BY <1>1, FlattensExists
<1>3. FlattenSeq(r) = f[n + 1]
  BY <1>1, <1>2, FlattenIs
<1>4. CASE n = 0
  <2>1. FlattenSeq(r) = x
    BY <1>1, <1>2, <1>3, <1>4 DEF Flattens
  <2>2. FlattenSeq(q) = <<>>
    BY <1>4, EmptySeq, FlattenFacts
  <2> QED
    BY <2>1, <2>2, ConcatEmptySeq DEF r
<1>5. CASE n # 0
  <2> DEFINE g == [i \in 1..n |-> f[i]]
  <2>1. Flattens(g, q, n, S)
    <3>1. \A i \in 1..n : i \in 1..(n + 1) /\ f[i] \in Seq(S)
      <4>1. f \in [1..(n + 1) -> Seq(S)]
        BY <1>2 DEF Flattens
      <4>2. \A i \in 1..n : i \in 1..(n + 1)
        BY <1>1
      <4> HIDE DEF n
      <4> QED
        BY <4>1, <4>2
    <3>2. g \in [1..n -> Seq(S)] /\ 1 \in 1..n
      BY <1>1, <1>5, <3>1
    <3>3. g[1] = q[1]
      BY <1>1, <1>2, <3>2 DEF Flattens
    <3>4. ASSUME NEW i \in 2..n PROVE g[i] = g[i - 1] \o q[i]
      <4>1. i \in 2..(n + 1) /\ g[i] = f[i] /\ g[i - 1] = f[i - 1] /\ q[i] = r[i]
        BY <1>1
      <4> QED
        BY <1>2, <4>1 DEF Flattens
    <3> QED
      BY <3>2, <3>3, <3>4 DEF Flattens
  <2>2. FlattenSeq(q) = f[n]
    <3>1. FlattenSeq(q) = g[n]
      BY <1>5, <2>1, FlattenIs
    <3> QED
      BY <1>1, <1>5, <3>1
  <2>3. f[n + 1] = f[n] \o x
    <3>1. n + 1 \in 2..(n + 1) /\ (n + 1) - 1 = n
      BY <1>1, <1>5
    <3>2. f[n + 1] = f[(n + 1) - 1] \o r[n + 1]
      BY <1>2, <3>1 DEF Flattens
    <3> QED
      BY <1>1, <3>1, <3>2
  <2> QED
    BY <1>3, <2>2, <2>3 DEF r
<1> QED
  BY <1>4, <1>5

(* The encoding of characters that are no bytes of a wide one.             *)
Alphabet(C) == "wide1" \notin C /\ "wide2" \notin C
BytesOf(C) == C \cup {"wide1", "wide2"}

LEMMA BytesFacts ==
  ASSUME NEW C, NEW c \in C
  PROVE  /\ Bytes(c) \in Seq(BytesOf(C))
         /\ c = "wide" => Bytes(c) = <<"wide1", "wide2">> /\ Len(Bytes(c)) = 2
         /\ c # "wide" => Bytes(c) = <<c>> /\ Len(Bytes(c)) = 1
<1>1. ASSUME NEW S, NEW x \in S PROVE <<x>> \in Seq(S) /\ Len(<<x>>) = 1
  OBVIOUS
<1>2. ASSUME NEW S, NEW x \in S, NEW y \in S
      PROVE  <<x, y>> \in Seq(S) /\ Len(<<x, y>>) = 2
  OBVIOUS
<1>3. "wide1" \in BytesOf(C) /\ "wide2" \in BytesOf(C) /\ c \in BytesOf(C)
  BY DEF BytesOf
<1>4. CASE c = "wide"
  BY <1>2, <1>3, <1>4 DEF Bytes
<1>5. CASE c # "wide"
  BY <1>1, <1>3, <1>5 DEF Bytes
<1> QED
  BY <1>4, <1>5

LEMMA CharactersFacts ==
  ASSUME NEW C, NEW b \in BytesOf(C)
  PROVE  /\ Characters(b) \in Seq(C \cup {"wide"})
         /\ b = "wide1" => Characters(b) = <<"wide">>
         /\ b = "wide2" => Characters(b) = <<>>
         /\ b # "wide1" /\ b # "wide2" => Characters(b) = <<b>>
<1>1. ASSUME NEW S, NEW x \in S PROVE <<x>> \in Seq(S)
  OBVIOUS
<1>2. <<>> \in Seq(C \cup {"wide"})
  BY EmptySeq
<1>3. CASE b = "wide1"
  BY <1>1, <1>3 DEF Characters
<1>4. CASE b = "wide2"
  BY <1>2, <1>4 DEF Characters
<1>5. CASE b # "wide1" /\ b # "wide2"
  <2>1. b \in C
    BY <1>5 DEF BytesOf
  <2> QED
    BY <1>1, <1>5, <2>1 DEF Characters
<1> QED
  BY <1>3, <1>4, <1>5

LEMMA EncodeFacts ==
  ASSUME NEW C
  PROVE  /\ Encode(<<>>) = <<>>
         /\ \A t \in Seq(C) : Encode(t) \in Seq(BytesOf(C))
         /\ \A t \in Seq(C), c \in C : Encode(Append(t, c)) = Encode(t) \o Bytes(c)
<1> DEFINE S == BytesOf(C)
           Each(t) == [i \in DOMAIN t |-> Bytes(t[i])]
<1>1. ASSUME NEW t \in Seq(C)
      PROVE  /\ Each(t) \in Seq(Seq(S)) /\ Len(Each(t)) = Len(t) /\ Len(t) \in Nat
             /\ \A i \in 1..Len(t) : Each(t)[i] = Bytes(t[i])
  <2>1. Len(t) \in Nat /\ DOMAIN t = 1..Len(t) /\ \A i \in 1..Len(t) : t[i] \in C
    BY LenProperties, ElementOfSeq
  <2>2. \A i \in 1..Len(t) : Bytes(t[i]) \in Seq(S)
    BY <2>1, BytesFacts
  <2> HIDE DEF S
  <2> QED
    BY <2>1, <2>2
<1>2. Encode(<<>>) = <<>>
  <2>1. Each(<<>>) = <<>>
    OBVIOUS
  <2> QED
    BY <2>1, FlattenFacts DEF Encode
<1>3. ASSUME NEW t \in Seq(C) PROVE Encode(t) \in Seq(S)
  BY <1>1, FlattenFacts DEF Encode
<1>4. ASSUME NEW t \in Seq(C), NEW c \in C
      PROVE  Encode(Append(t, c)) = Encode(t) \o Bytes(c)
  <2> DEFINE u == Append(t, c)
             q == Each(t)
             r == Each(u)
             x == Bytes(c)
  <2>1. /\ u \in Seq(C) /\ Len(u) = Len(t) + 1 /\ u[Len(t) + 1] = c
        /\ \A i \in 1..Len(t) : u[i] = t[i]
    BY AppendProperties
  <2>2. x \in Seq(S)
    BY BytesFacts
  <2>3. /\ q \in Seq(Seq(S)) /\ Len(q) = Len(t) /\ Len(t) \in Nat
        /\ \A i \in 1..Len(t) : q[i] = Bytes(t[i])
    BY <1>1
  <2> HIDE DEF u
  <2>4. /\ r \in Seq(Seq(S)) /\ Len(r) = Len(u)
        /\ \A i \in 1..Len(u) : r[i] = Bytes(u[i])
    BY <1>1, <2>1
  <2>5. Encode(u) = FlattenSeq(r) /\ Encode(t) = FlattenSeq(q)
    BY DEF Encode
  <2> HIDE DEF q, r, x, S, Each
  <2>6. /\ Append(q, x) \in Seq(Seq(S)) /\ Len(Append(q, x)) = Len(q) + 1
        /\ \A i \in 1..Len(q) : Append(q, x)[i] = q[i]
        /\ Append(q, x)[Len(q) + 1] = x
    BY <2>2, <2>3, AppendProperties
  <2>7. \A i \in 1..Len(r) : r[i] = Append(q, x)[i]
    BY <2>1, <2>3, <2>4, <2>6 DEF x
  <2>8. r = Append(q, x)
    BY <2>1, <2>3, <2>4, <2>6, <2>7, SeqEqual
  <2> QED
    BY <2>2, <2>3, <2>5, <2>8, FlattenAppend DEF u, x
<1> QED
  BY <1>2, <1>3, <1>4

LEMMA DecodeFacts ==
  ASSUME NEW C
  PROVE  /\ Decode(<<>>) = <<>>
         /\ \A u \in Seq(BytesOf(C)) : Decode(u) \in Seq(C \cup {"wide"})
         /\ \A u \in Seq(BytesOf(C)), b \in BytesOf(C) :
              Decode(Append(u, b)) = Decode(u) \o Characters(b)
<1> DEFINE B == BytesOf(C)
           S == C \cup {"wide"}
           Each(t) == [i \in DOMAIN t |-> Characters(t[i])]
<1>1. ASSUME NEW t \in Seq(B)
      PROVE  /\ Each(t) \in Seq(Seq(S)) /\ Len(Each(t)) = Len(t) /\ Len(t) \in Nat
             /\ \A i \in 1..Len(t) : Each(t)[i] = Characters(t[i])
  <2>1. Len(t) \in Nat /\ DOMAIN t = 1..Len(t) /\ \A i \in 1..Len(t) : t[i] \in B
    BY LenProperties, ElementOfSeq
  <2>2. \A i \in 1..Len(t) : Characters(t[i]) \in Seq(S)
    BY <2>1, CharactersFacts
  <2> HIDE DEF S, B
  <2> QED
    BY <2>1, <2>2
<1>2. Decode(<<>>) = <<>>
  <2>1. Each(<<>>) = <<>>
    OBVIOUS
  <2> QED
    BY <2>1, FlattenFacts DEF Decode
<1>3. ASSUME NEW t \in Seq(B) PROVE Decode(t) \in Seq(S)
  BY <1>1, FlattenFacts DEF Decode
<1>4. ASSUME NEW t \in Seq(B), NEW c \in B
      PROVE  Decode(Append(t, c)) = Decode(t) \o Characters(c)
  <2> DEFINE u == Append(t, c)
             q == Each(t)
             r == Each(u)
             x == Characters(c)
  <2> HIDE DEF B
  <2>1. /\ u \in Seq(B) /\ Len(u) = Len(t) + 1 /\ u[Len(t) + 1] = c
        /\ \A i \in 1..Len(t) : u[i] = t[i]
    BY AppendProperties
  <2>2. x \in Seq(S)
    BY CharactersFacts DEF B
  <2>3. /\ q \in Seq(Seq(S)) /\ Len(q) = Len(t) /\ Len(t) \in Nat
        /\ \A i \in 1..Len(t) : q[i] = Characters(t[i])
    BY <1>1
  <2> HIDE DEF u
  <2>4. /\ r \in Seq(Seq(S)) /\ Len(r) = Len(u)
        /\ \A i \in 1..Len(u) : r[i] = Characters(u[i])
    BY <1>1, <2>1
  <2>5. Decode(u) = FlattenSeq(r) /\ Decode(t) = FlattenSeq(q)
    BY DEF Decode
  <2> HIDE DEF q, r, x, S, Each
  <2>6. /\ Append(q, x) \in Seq(Seq(S)) /\ Len(Append(q, x)) = Len(q) + 1
        /\ \A i \in 1..Len(q) : Append(q, x)[i] = q[i]
        /\ Append(q, x)[Len(q) + 1] = x
    BY <2>2, <2>3, AppendProperties
  <2>7. \A i \in 1..Len(r) : r[i] = Append(q, x)[i]
    BY <2>1, <2>3, <2>4, <2>6 DEF x
  <2>8. r = Append(q, x)
    BY <2>1, <2>3, <2>4, <2>6, <2>7, SeqEqual
  <2> QED
    BY <2>2, <2>3, <2>5, <2>8, FlattenAppend DEF u, x
<1> QED
  BY <1>2, <1>3, <1>4

(* One more element of a part of a sequence.                               *)
LEMMA PartGrows ==
  ASSUME NEW S, NEW s \in Seq(S), NEW k \in 0..Len(s), NEW n \in k..(Len(s) - 1)
  PROVE  /\ SubSeq(s, k + 1, n) \in Seq(S) /\ s[n + 1] \in S
         /\ SubSeq(s, k + 1, n + 1) = Append(SubSeq(s, k + 1, n), s[n + 1])
<1>1. Len(s) \in Nat /\ \A i \in 1..Len(s) : s[i] \in S
  BY LenProperties, ElementOfSeq
<1>2. k + 1 \in 1..Len(s) /\ n + 1 \in (k + 1)..Len(s) /\ (n + 1) - 1 = n /\ n + 1 \in 1..Len(s)
  BY <1>1
<1>3. SubSeq(s, k + 1, n + 1) = SubSeq(s, k + 1, (n + 1) - 1) \o <<s[n + 1]>>
  BY <1>2, SubSeqRecursiveSecond
<1>4. SubSeq(s, k + 1, n) \in Seq(S)
  <2>1. k + 1 \in Int /\ n \in Int /\ \A i \in (k + 1)..n : s[i] \in S
    BY <1>1, <1>2
  <2> QED
    BY <2>1, SubSeqProperties
<1>5. s[n + 1] \in S
  BY <1>1, <1>2
<1>6. Append(SubSeq(s, k + 1, n), s[n + 1]) = SubSeq(s, k + 1, n) \o <<s[n + 1]>>
  BY <1>4, <1>5, AppendIsConcat
<1> QED
  BY <1>2, <1>3, <1>4, <1>5, <1>6

(* The encoding of the first n characters, and where it ends.              *)
Pre(t, n) == Encode(SubSeq(t, 1, n))
Off(t, n) == Len(Pre(t, n))

LEMMA PreFacts ==
  ASSUME NEW C, NEW t \in Seq(C)
  PROVE  /\ Pre(t, 0) = <<>> /\ Off(t, 0) = 0 /\ Pre(t, Len(t)) = Encode(t)
         /\ \A n \in 0..Len(t) : Pre(t, n) \in Seq(BytesOf(C)) /\ Off(t, n) \in Nat
<1>1. Len(t) \in Nat /\ \A i \in 1..Len(t) : t[i] \in C
  BY LenProperties, ElementOfSeq
<1>2. SubSeq(t, 1, 0) = <<>>
  BY SubSeqEmpty
<1>3. Pre(t, 0) = <<>> /\ Off(t, 0) = 0
  BY <1>2, EncodeFacts, EmptySeq DEF Pre, Off
<1>4. Pre(t, Len(t)) = Encode(t)
  BY SubSeqFull DEF Pre
<1>5. ASSUME NEW n \in 0..Len(t)
      PROVE  Pre(t, n) \in Seq(BytesOf(C)) /\ Off(t, n) \in Nat
  <2>1. SubSeq(t, 1, n) \in Seq(C)
    BY <1>1, SubSeqProperties
  <2>2. Pre(t, n) \in Seq(BytesOf(C))
    BY <2>1, EncodeFacts DEF Pre
  <2> QED
    BY <2>2, LenProperties DEF Off
<1> QED
  BY <1>3, <1>4, <1>5

LEMMA PreGrows ==
  ASSUME NEW C, NEW t \in Seq(C), NEW n \in 0..(Len(t) - 1)
  PROVE  /\ t[n + 1] \in C /\ Pre(t, n + 1) = Pre(t, n) \o Bytes(t[n + 1])
         /\ Off(t, n + 1) = Off(t, n) + (IF t[n + 1] = "wide" THEN 2 ELSE 1)
         /\ Off(t, n) \in Nat
         /\ \A i \in 1..Off(t, n) : Pre(t, n + 1)[i] = Pre(t, n)[i]
         /\ \A i \in 1..Len(Bytes(t[n + 1])) :
              Pre(t, n + 1)[Off(t, n) + i] = Bytes(t[n + 1])[i]
<1> DEFINE u == Pre(t, n)
           x == Bytes(t[n + 1])
<1>1. Len(t) \in Nat /\ n \in Nat
  BY LenProperties
<1>2. /\ SubSeq(t, 1, n) \in Seq(C) /\ t[n + 1] \in C
      /\ SubSeq(t, 1, n + 1) = Append(SubSeq(t, 1, n), t[n + 1])
  <2>1. 0 \in 0..Len(t) /\ 0 + 1 = 1
    BY <1>1
  <2> QED
    BY <2>1, PartGrows
<1>3. Pre(t, n + 1) = u \o x
  BY <1>2, EncodeFacts DEF Pre
<1>4. u \in Seq(BytesOf(C)) /\ x \in Seq(BytesOf(C))
  BY <1>2, BytesFacts, EncodeFacts DEF Pre
<1>5. Len(x) = IF t[n + 1] = "wide" THEN 2 ELSE 1
  BY <1>2, BytesFacts
<1> HIDE DEF u, x
<1>6. /\ Len(u) \in Nat /\ Len(x) \in Nat /\ Len(u \o x) = Len(u) + Len(x)
      /\ \A i \in 1..(Len(u) + Len(x)) :
           (u \o x)[i] = IF i <= Len(u) THEN u[i] ELSE x[i - Len(u)]
  BY <1>4, ConcatProperties, LenProperties
<1>7. \A i \in 1..Len(u) : (u \o x)[i] = u[i]
  BY <1>6
<1>8. ASSUME NEW i \in 1..Len(x) PROVE (u \o x)[Len(u) + i] = x[i]
  <2>1. Len(u) + i \in 1..(Len(u) + Len(x)) /\ ~(Len(u) + i <= Len(u))
        /\ (Len(u) + i) - Len(u) = i
    BY <1>6
  <2> QED
    BY <1>6, <2>1
<1> QED
  BY <1>2, <1>3, <1>5, <1>6, <1>7, <1>8 DEF u, x, Off

LEMMA OffsetsGrow ==
  ASSUME NEW C, NEW t \in Seq(C), NEW n \in 0..Len(t), NEW k \in 0..n
  PROVE  Off(t, k) + (n - k) <= Off(t, n)
<1> DEFINE N == Len(t)
           T == {d \in Nat : k + d <= N => Off(t, k) + d <= Off(t, k + d)}
<1>1. N \in Nat /\ k \in Nat /\ Off(t, k) \in Nat
  BY LenProperties, PreFacts
<1>2. 0 \in T
  BY <1>1
<1>3. ASSUME NEW d \in Nat, d \in T PROVE d + 1 \in T
  <2> SUFFICES ASSUME k + d + 1 <= N PROVE Off(t, k) + d + 1 <= Off(t, k + d + 1)
    BY <1>1
  <2> DEFINE m == k + d
  <2>1. m \in 0..(N - 1) /\ Off(t, k) + d <= Off(t, m)
    BY <1>1, <1>3
  <2>2. Off(t, m) \in Nat /\ Off(t, m + 1) = Off(t, m) + (IF t[m + 1] = "wide" THEN 2 ELSE 1)
    BY <2>1, PreGrows
  <2> HIDE DEF m
  <2>3. Off(t, k) + d + 1 <= Off(t, m + 1)
    BY <1>1, <2>1, <2>2
  <2> QED
    BY <2>3 DEF m
<1> HIDE DEF T
<1>4. Nat \subseteq T
  BY <1>2, <1>3, Induction
<1>5. n - k \in Nat /\ k + (n - k) = n /\ n <= N
  BY <1>1
<1>6. n - k \in T
  BY <1>4, <1>5
<1> QED
  BY <1>5, <1>6 DEF T

(* A later character begins later.                                         *)
LEMMA OffsetsOrder ==
  ASSUME NEW C, NEW t \in Seq(C), NEW n \in 0..Len(t), NEW k \in 0..n
  PROVE  /\ Off(t, k) \in Nat /\ Off(t, n) \in Nat
         /\ Off(t, k) <= Off(t, n) /\ (k < n => Off(t, k) < Off(t, n))
<1>1. k \in 0..Len(t) /\ k \in Nat /\ n \in Nat
  BY LenProperties
<1>2. Off(t, k) \in Nat /\ Off(t, n) \in Nat
  BY <1>1, PreFacts
<1>3. Off(t, k) + (n - k) <= Off(t, n)
  BY OffsetsGrow
<1> QED
  BY <1>1, <1>2, <1>3

LEMMA SameBytes ==
  ASSUME NEW C, NEW t \in Seq(C), NEW n \in 0..Len(t), NEW k \in 0..n
  PROVE  \A i \in 1..Off(t, k) : Pre(t, n)[i] = Pre(t, k)[i]
<1> DEFINE N == Len(t)
           T == {d \in Nat : k + d <= N =>
                   \A i \in 1..Off(t, k) : Pre(t, k + d)[i] = Pre(t, k)[i]}
<1>1. N \in Nat /\ k \in Nat /\ Off(t, k) \in Nat
  BY LenProperties, PreFacts
<1>2. 0 \in T
  BY <1>1
<1>3. ASSUME NEW d \in Nat, d \in T PROVE d + 1 \in T
  <2> SUFFICES ASSUME k + d + 1 <= N, NEW i \in 1..Off(t, k)
               PROVE  Pre(t, k + d + 1)[i] = Pre(t, k)[i]
    BY <1>1
  <2> DEFINE m == k + d
  <2>1. m \in 0..(N - 1) /\ m \in 0..N /\ k \in 0..m /\ m - k = d /\ Pre(t, m)[i] = Pre(t, k)[i]
    BY <1>1, <1>3
  <2>2. Off(t, k) + (m - k) <= Off(t, m)
    BY <2>1, OffsetsGrow
  <2>3. Off(t, m) \in Nat
    BY <2>1, PreGrows
  <2>4. i \in 1..Off(t, m)
    BY <1>1, <2>1, <2>2, <2>3
  <2>5. Pre(t, m + 1)[i] = Pre(t, m)[i]
    BY <2>1, <2>4, PreGrows
  <2> QED
    BY <1>1, <2>1, <2>5
<1> HIDE DEF T
<1>4. Nat \subseteq T
  BY <1>2, <1>3, Induction
<1>5. n - k \in Nat /\ k + (n - k) = n /\ n <= N
  BY <1>1
<1>6. n - k \in T
  BY <1>4, <1>5
<1> QED
  BY <1>5, <1>6 DEF T

(* A character of one byte is found where its byte is.                     *)
LEMMA Positions ==
  ASSUME NEW C, NEW t \in Seq(C), NEW x \in C,
         x # "wide", x # "wide1", x # "wide2"
  PROVE  \A j \in 1..Off(t, Len(t)) :
           (Encode(t)[j] = x) <=> \E k \in 1..Len(t) : Off(t, k) = j /\ t[k] = x
<1> DEFINE N == Len(t)
           Right(n) == \A j \in 1..Off(t, n) :
                         (Pre(t, n)[j] = x) <=> \E k \in 1..n : Off(t, k) = j /\ t[k] = x
           T == {n \in Nat : n <= N => Right(n)}
<1>1. N \in Nat
  BY LenProperties
<1>2. 0 \in T
  <2>1. Off(t, 0) = 0
    BY PreFacts
  <2>2. Right(0)
    BY <2>1
  <2> QED
    BY <2>2
<1>3. ASSUME NEW n \in Nat, n \in T PROVE n + 1 \in T
  <2> SUFFICES ASSUME n + 1 <= N, NEW j \in 1..Off(t, n + 1)
               PROVE  (Pre(t, n + 1)[j] = x) <=>
                         \E k \in 1..(n + 1) : Off(t, k) = j /\ t[k] = x
    OBVIOUS
  <2> DEFINE c == t[n + 1]
             a == Off(t, n)
             b == Off(t, n + 1)
  <2>1. n \in 0..(N - 1) /\ n + 1 \in 0..N /\ Right(n)
    BY <1>1, <1>3
  <2>2. /\ c \in C /\ a \in Nat /\ b = a + (IF c = "wide" THEN 2 ELSE 1)
        /\ \A i \in 1..a : Pre(t, n + 1)[i] = Pre(t, n)[i]
        /\ \A i \in 1..Len(Bytes(c)) : Pre(t, n + 1)[a + i] = Bytes(c)[i]
    BY <2>1, PreGrows
  <2>3. \A k \in 1..n : Off(t, k) \in Nat /\ Off(t, k) <= a
    <3>1. ASSUME NEW k \in 1..n PROVE Off(t, k) \in Nat /\ Off(t, k) <= a
      <4>1. n \in 0..N /\ k \in 0..n /\ k \in 0..N /\ n - k \in Nat
        BY <1>1, <2>1
      <4>2. Off(t, k) \in Nat /\ Off(t, k) + (n - k) <= Off(t, n)
        BY <4>1, OffsetsGrow, PreFacts
      <4> QED
        BY <2>2, <4>1, <4>2
    <3> QED
      BY <3>1
  <2> HIDE DEF T, Right, a, b, c
  <2>4. CASE j <= a
    <3>1. j \in 1..a
      BY <2>2, <2>4 DEF b
    <3>2. Pre(t, n + 1)[j] = Pre(t, n)[j]
      BY <2>2, <3>1
    <3>3. (Pre(t, n)[j] = x) <=> \E k \in 1..n : Off(t, k) = j /\ t[k] = x
      BY <2>1, <3>1 DEF Right, a
    <3>4. b # j
      BY <2>2, <2>4
    <3>5. ASSUME NEW k \in 1..(n + 1), Off(t, k) = j PROVE k \in 1..n
      BY <3>4, <3>5 DEF b
    <3> QED
      BY <3>2, <3>3, <3>5
  <2>5. CASE ~(j <= a)
    <3>1. ASSUME NEW k \in 1..(n + 1), Off(t, k) = j PROVE k = n + 1
      BY <2>2, <2>3, <2>5, <3>1
    <3>2. (\E k \in 1..(n + 1) : Off(t, k) = j /\ t[k] = x) <=> b = j /\ c = x
      BY <3>1 DEF b, c
    <3>3. CASE c = "wide"
      <4>1. Bytes(c) = <<"wide1", "wide2">> /\ Len(Bytes(c)) = 2
        BY <2>2, <3>3, BytesFacts
      <4>2. j = a + 1 \/ j = a + 2
        BY <2>2, <2>5, <3>3 DEF b
      <4>3. Pre(t, n + 1)[a + 1] = "wide1" /\ Pre(t, n + 1)[a + 2] = "wide2"
        BY <2>2, <4>1
      <4> QED
        BY <3>2, <3>3, <4>2, <4>3
    <3>4. CASE c # "wide"
      <4>1. Bytes(c) = <<c>> /\ Len(Bytes(c)) = 1
        BY <2>2, <3>4, BytesFacts
      <4>2. j = a + 1 /\ b = a + 1
        BY <2>2, <2>5, <3>4 DEF b
      <4>3. Pre(t, n + 1)[a + 1] = c
        BY <2>2, <4>1
      <4> QED
        BY <3>2, <4>2, <4>3
    <3> QED
      BY <3>3, <3>4
  <2> QED
    BY <2>2, <2>4, <2>5
<1> HIDE DEF T
<1>4. Right(N)
  <2>1. Nat \subseteq T
    BY <1>2, <1>3, Induction
  <2> QED
    BY <1>1, <2>1 DEF T
<1> QED
  BY <1>4, PreFacts

(* Decoding from a byte on gives the characters that begin there or later. *)
CutsAt(t, p, cut) ==
  /\ cut \in 0..Len(t)
  /\ p \in 0..Off(t, cut)
  /\ cut = 0 \/ Off(t, cut - 1) < p

LEMMA CutPlace ==
  ASSUME NEW C, NEW t \in Seq(C), NEW p, NEW cut, CutsAt(t, p, cut)
  PROVE  \/ Off(t, cut) = p
         \/ /\ Off(t, cut) = p + 1 /\ cut # 0 /\ t[cut] = "wide"
            /\ Pre(t, cut)[p + 1] = "wide2"
<1>1. Len(t) \in Nat /\ cut \in 0..Len(t) /\ p \in Nat
  BY LenProperties DEF CutsAt
<1>2. CASE cut = 0
  BY <1>2, PreFacts DEF CutsAt
<1>3. CASE cut # 0
  <2> DEFINE n == cut - 1
             c == t[n + 1]
  <2>1. n \in 0..(Len(t) - 1) /\ n + 1 = cut
    BY <1>1, <1>3
  <2>2. /\ c \in C /\ Off(t, n) \in Nat
        /\ Off(t, n + 1) = Off(t, n) + (IF c = "wide" THEN 2 ELSE 1)
        /\ \A i \in 1..Len(Bytes(c)) : Pre(t, n + 1)[Off(t, n) + i] = Bytes(c)[i]
    BY <2>1, PreGrows
  <2>3. Off(t, n) < p /\ p <= Off(t, n + 1)
    BY <1>3, <2>1, <2>2 DEF CutsAt
  <2> HIDE DEF n, c
  <2>4. Off(t, n + 1) = p \/ (Off(t, n + 1) = p + 1 /\ c = "wide" /\ p = Off(t, n) + 1)
    BY <1>1, <2>2, <2>3
  <2>5. ASSUME c = "wide", p = Off(t, n) + 1 PROVE Pre(t, n + 1)[p + 1] = "wide2"
    <3>1. Bytes(c) = <<"wide1", "wide2">> /\ Len(Bytes(c)) = 2
      BY <2>2, <2>5, BytesFacts
    <3>2. Pre(t, n + 1)[Off(t, n) + 2] = "wide2"
      BY <2>2, <3>1
    <3>3. p + 1 = Off(t, n) + 2
      BY <2>2, <2>5
    <3> QED
      BY <3>2, <3>3
  <2> QED
    BY <1>3, <2>1, <2>4, <2>5 DEF c
<1> QED
  BY <1>2, <1>3

LEMMA BytesAt ==
  ASSUME NEW C, NEW t \in Seq(C), NEW n \in 0..(Len(t) - 1), NEW i \in 1..Len(Bytes(t[n + 1]))
  PROVE  /\ Encode(t)[Off(t, n) + i] = Bytes(t[n + 1])[i]
         /\ Off(t, n) + i \in 1..Len(Encode(t))
<1> DEFINE N == Len(t)
<1>1. N \in Nat /\ N \in 0..N /\ n \in 0..N /\ n + 1 \in 0..N
  BY LenProperties
<1>2. /\ t[n + 1] \in C /\ Off(t, n) \in Nat /\ Off(t, n + 1) \in Nat /\ Off(t, N) \in Nat
      /\ Off(t, n + 1) = Off(t, n) + (IF t[n + 1] = "wide" THEN 2 ELSE 1)
      /\ Pre(t, n + 1)[Off(t, n) + i] = Bytes(t[n + 1])[i]
  BY <1>1, PreFacts, PreGrows
<1>3. Len(Bytes(t[n + 1])) = IF t[n + 1] = "wide" THEN 2 ELSE 1
  BY <1>2, BytesFacts
<1>4. Off(t, n) + i \in 1..Off(t, n + 1)
  BY <1>2, <1>3
<1>5. Off(t, n + 1) + (N - (n + 1)) <= Off(t, N)
  BY <1>1, OffsetsGrow
<1>6. Pre(t, N)[Off(t, n) + i] = Pre(t, n + 1)[Off(t, n) + i]
  BY <1>1, <1>4, SameBytes
<1>7. Pre(t, N) = Encode(t) /\ Off(t, N) = Len(Encode(t))
  BY PreFacts DEF Off
<1>8. Off(t, n) + i \in 1..Off(t, N)
  BY <1>1, <1>2, <1>4, <1>5
<1> QED
  BY <1>2, <1>6, <1>7, <1>8

LEMMA DecodeGrows ==
  ASSUME NEW C, NEW b \in Seq(BytesOf(C)), NEW p \in 0..Len(b), NEW a \in p..(Len(b) - 1)
  PROVE  Decode(SubSeq(b, p + 1, a + 1)) =
           Decode(SubSeq(b, p + 1, a)) \o Characters(b[a + 1])
<1> DEFINE B == BytesOf(C)
<1>1. /\ SubSeq(b, p + 1, a) \in Seq(B) /\ b[a + 1] \in B
      /\ SubSeq(b, p + 1, a + 1) = Append(SubSeq(b, p + 1, a), b[a + 1])
  BY PartGrows
<1> QED
  BY <1>1, DecodeFacts

LEMMA DecodeFromCut ==
  ASSUME NEW C, Alphabet(C), NEW t \in Seq(C), NEW p, NEW cut, CutsAt(t, p, cut)
  PROVE  Decode(SubSeq(Encode(t), p + 1, Len(Encode(t)))) = SubSeq(t, cut + 1, Len(t))
<1> DEFINE N == Len(t)
           b == Encode(t)
           D(k) == Decode(SubSeq(b, p + 1, Off(t, k)))
           T == {d \in Nat : cut + d <= N => D(cut + d) = SubSeq(t, cut + 1, cut + d)}
<1>1. /\ N \in Nat /\ cut \in 0..N /\ p \in Nat /\ p <= Off(t, cut)
      /\ b \in Seq(BytesOf(C)) /\ Len(b) = Off(t, N) /\ Len(b) \in Nat
      /\ \A k \in 0..N : Off(t, k) \in Nat
  BY LenProperties, EncodeFacts, PreFacts DEF CutsAt, Off
<1>2. \A k \in cut..N :
        p <= Off(t, k) /\ Off(t, k) <= Len(b) /\ (k < N => Off(t, k) < Len(b))
  <2> SUFFICES ASSUME NEW k \in cut..N
               PROVE  p <= Off(t, k) /\ Off(t, k) <= Len(b) /\ (k < N => Off(t, k) < Len(b))
    OBVIOUS
  <2>1. k \in 0..N /\ N \in 0..N /\ cut \in 0..k
    BY <1>1
  <2>2. /\ Off(t, cut) <= Off(t, k) /\ Off(t, cut) \in Nat
        /\ Off(t, k) <= Off(t, N) /\ (k < N => Off(t, k) < Off(t, N))
    BY <2>1, OffsetsOrder
  <2>3. Off(t, k) \in Nat /\ Off(t, N) = Len(b) /\ p \in Nat /\ p <= Off(t, cut)
    BY <1>1, <2>1
  <2> HIDE DEF N, b
  <2> QED
    BY <2>2, <2>3
<1>3. Decode(<<>>) = <<>>
  BY DecodeFacts
<1>4. 0 \in T
  <2>1. D(cut) = <<>>
    <3>1. CASE Off(t, cut) = p
      <4>1. SubSeq(b, p + 1, p) = <<>>
        BY <1>1, SubSeqEmpty
      <4> QED
        BY <1>3, <3>1, <4>1
    <3>2. CASE Off(t, cut) # p
      <4>1. Off(t, cut) = p + 1 /\ Pre(t, cut)[p + 1] = "wide2"
        BY <3>2, CutPlace
      <4>2. N \in 0..N /\ cut \in 0..N /\ p + 1 \in 1..Off(t, cut)
        BY <1>1, <4>1
      <4>3. b[p + 1] = "wide2"
        BY <4>1, <4>2, SameBytes, PreFacts
      <4>4. p \in 0..Len(b) /\ p \in p..(Len(b) - 1)
        BY <1>1, <1>2, <4>1
      <4>5. D(cut) = Decode(SubSeq(b, p + 1, p)) \o Characters("wide2")
        BY <1>1, <4>1, <4>3, <4>4, DecodeGrows
      <4>6. Characters("wide2") = <<>>
        BY DEF Characters
      <4>7. SubSeq(b, p + 1, p) = <<>>
        BY <1>1, SubSeqEmpty
      <4> QED
        BY <1>3, <4>5, <4>6, <4>7, EmptySeq, ConcatEmptySeq
    <3> QED
      BY <3>1, <3>2
  <2>2. SubSeq(t, cut + 1, cut) = <<>>
    BY <1>1, SubSeqEmpty
  <2>3. cut + 0 = cut
    BY <1>1
  <2> HIDE DEF D
  <2> QED
    BY <2>1, <2>2, <2>3
<1>5. ASSUME NEW d \in Nat, d \in T PROVE d + 1 \in T
  <2> SUFFICES ASSUME cut + d + 1 <= N PROVE D(cut + d + 1) = SubSeq(t, cut + 1, cut + d + 1)
    BY <1>1
  <2> DEFINE k == cut + d
             c == t[k + 1]
             a == Off(t, k)
             u == SubSeq(t, cut + 1, k)
  <2>1. /\ k \in 0..(N - 1) /\ k \in cut..N /\ k \in cut..(N - 1) /\ k + 1 \in cut..N
        /\ D(k) = u
    BY <1>1, <1>5
  <2> HIDE DEF T, k
  <2>2. c \in C /\ a \in Nat /\ Off(t, k + 1) = a + (IF c = "wide" THEN 2 ELSE 1)
    BY <2>1, PreGrows
  <2>3. u \in Seq(C) /\ SubSeq(t, cut + 1, k + 1) = Append(u, c)
    BY <1>1, <2>1, PartGrows
  <2>4. Append(u, c) = u \o <<c>>
    BY <2>2, <2>3, AppendIsConcat
  <2>5. p <= a /\ Off(t, k + 1) <= Len(b)
    <3> HIDE DEF b
    <3> QED
      BY <1>2, <2>1
  <2>6. p \in 0..Len(b) /\ a \in p..(Len(b) - 1)
    BY <1>1, <2>2, <2>5
  <2>7. \A i \in 1..Len(Bytes(c)) : b[a + i] = Bytes(c)[i]
    BY <2>1, BytesAt
  <2>8. Decode(SubSeq(b, p + 1, a + 1)) = u \o Characters(b[a + 1])
    BY <1>1, <2>1, <2>6, DecodeGrows
  <2>9. D(k + 1) = u \o <<c>>
    <3>1. CASE c = "wide"
      <4>1. Bytes(c) = <<"wide1", "wide2">> /\ Len(Bytes(c)) = 2
        BY <2>2, <3>1, BytesFacts
      <4>2. b[a + 1] = "wide1" /\ b[a + 2] = "wide2"
        BY <2>7, <4>1
      <4>3. a + 1 \in p..(Len(b) - 1) /\ (a + 1) + 1 = a + 2
        BY <1>1, <2>2, <2>5, <3>1
      <4>4. Decode(SubSeq(b, p + 1, a + 2)) =
              Decode(SubSeq(b, p + 1, a + 1)) \o Characters(b[a + 2])
        BY <1>1, <2>6, <4>3, DecodeGrows
      <4>5. Characters("wide1") = <<"wide">> /\ Characters("wide2") = <<>>
        BY DEF Characters
      <4>6. u \o <<"wide">> \in Seq(C)
        BY <2>2, <2>3, <2>4, <3>1, AppendProperties
      <4>7. (u \o <<"wide">>) \o <<>> = u \o <<"wide">>
        BY <4>6, ConcatEmptySeq
      <4>8. Off(t, k + 1) = a + 2
        BY <2>2, <3>1
      <4> QED
        BY <2>8, <3>1, <4>2, <4>4, <4>5, <4>7, <4>8
    <3>2. CASE c # "wide"
      <4>1. Bytes(c) = <<c>> /\ Len(Bytes(c)) = 1
        BY <2>2, <3>2, BytesFacts
      <4>2. b[a + 1] = c
        BY <2>7, <4>1
      <4>3. c # "wide1" /\ c # "wide2"
        BY <2>2 DEF Alphabet
      <4>4. Characters(c) = <<c>>
        BY <4>3 DEF Characters
      <4>5. Off(t, k + 1) = a + 1
        BY <2>2, <3>2
      <4> QED
        BY <2>8, <4>2, <4>4, <4>5
    <3> QED
      BY <3>1, <3>2
  <2> QED
    BY <2>3, <2>4, <2>9 DEF k
<1>6. N - cut \in T
  <2> HIDE DEF T
  <2>1. Nat \subseteq T
    BY <1>4, <1>5, Induction
  <2> QED
    BY <1>1, <2>1
<1>7. D(N) = SubSeq(t, cut + 1, N)
  <2>1. N - cut \in Nat /\ cut + (N - cut) = N
    BY <1>1
  <2> HIDE DEF D
  <2> QED
    BY <1>1, <1>6, <2>1
<1> QED
  BY <1>1, <1>7

(* The encoding of what follows the first k characters.                    *)
LEMMA EncodedRest ==
  ASSUME NEW C, NEW t \in Seq(C), NEW k \in 0..Len(t)
  PROVE  Len(Encode(SubSeq(t, k + 1, Len(t)))) = Off(t, Len(t)) - Off(t, k)
<1> DEFINE N == Len(t)
           R(n) == Len(Encode(SubSeq(t, k + 1, n)))
           T == {d \in Nat : k + d <= N => R(k + d) = Off(t, k + d) - Off(t, k)}
<1>1. N \in Nat /\ k \in 0..N /\ \A n \in 0..N : Off(t, n) \in Nat
  BY LenProperties, PreFacts
<1>2. 0 \in T
  <2>1. SubSeq(t, k + 1, k) = <<>>
    BY <1>1, SubSeqEmpty
  <2>2. R(k) = 0
    BY <2>1, EncodeFacts, EmptySeq
  <2> QED
    BY <1>1, <2>2
<1>3. ASSUME NEW d \in Nat, d \in T PROVE d + 1 \in T
  <2> SUFFICES ASSUME k + d + 1 <= N
               PROVE  R(k + d + 1) = Off(t, k + d + 1) - Off(t, k)
    BY <1>1
  <2> DEFINE n == k + d
             u == SubSeq(t, k + 1, n)
             x == Bytes(t[n + 1])
  <2>1. n \in 0..(N - 1) /\ n \in k..(N - 1) /\ R(n) = Off(t, n) - Off(t, k)
    BY <1>1, <1>3
  <2> HIDE DEF T, n
  <2>2. /\ t[n + 1] \in C /\ u \in Seq(C)
        /\ SubSeq(t, k + 1, n + 1) = Append(u, t[n + 1])
    BY <1>1, <2>1, PartGrows
  <2>3. Encode(SubSeq(t, k + 1, n + 1)) = Encode(u) \o x
    BY <2>2, EncodeFacts
  <2>4. Encode(u) \in Seq(BytesOf(C)) /\ x \in Seq(BytesOf(C))
    BY <2>2, BytesFacts, EncodeFacts
  <2>5. R(n + 1) = R(n) + Len(x)
    BY <2>3, <2>4, ConcatProperties
  <2>6. Len(x) = IF t[n + 1] = "wide" THEN 2 ELSE 1
    BY <2>2, BytesFacts
  <2>7. Off(t, n) \in Nat /\ Off(t, n + 1) = Off(t, n) + (IF t[n + 1] = "wide" THEN 2 ELSE 1)
    BY <2>1, PreGrows
  <2> HIDE DEF R, x
  <2>8. R(n + 1) = Off(t, n + 1) - Off(t, k)
    BY <1>1, <2>1, <2>5, <2>6, <2>7
  <2> QED
    BY <2>8 DEF n
<1>4. N - k \in T
  <2> HIDE DEF T
  <2>1. Nat \subseteq T
    BY <1>2, <1>3, Induction
  <2> QED
    BY <1>1, <2>1
<1>5. N - k \in Nat /\ k + (N - k) = N
  BY <1>1
<1> HIDE DEF R
<1>6. R(N) = Off(t, N) - Off(t, k)
  BY <1>1, <1>4, <1>5
<1> QED
  BY <1>6 DEF R

LEMMA LastByte ==
  ASSUME NEW C, Alphabet(C), NEW t \in Seq(C), Encode(t) # <<>>
  PROVE  Last(Encode(t)) # "wide1"
<1> DEFINE N == Len(t)
           b == Encode(t)
<1>1. N \in Nat /\ b = Pre(t, N) /\ Len(b) = Off(t, N) /\ Off(t, 0) = 0 /\ b \in Seq(BytesOf(C))
  BY LenProperties, PreFacts, EncodeFacts DEF Off
<1>2. N # 0
  <2>1. Len(b) # 0
    BY <1>1, EmptySeq
  <2> QED
    BY <1>1, <2>1
<1> DEFINE n == N - 1
           c == t[n + 1]
<1>3. n \in 0..(N - 1) /\ n + 1 = N
  BY <1>1, <1>2
<1>4. /\ c \in C /\ Off(t, n) \in Nat /\ Off(t, n + 1) = Off(t, n) + (IF c = "wide" THEN 2 ELSE 1)
      /\ \A i \in 1..Len(Bytes(c)) : Pre(t, n + 1)[Off(t, n) + i] = Bytes(c)[i]
  BY <1>3, PreGrows
<1> HIDE DEF N, b, n, c
<1>5. CASE c = "wide"
  <2>1. Bytes(c) = <<"wide1", "wide2">> /\ Len(Bytes(c)) = 2
    BY <1>4, <1>5, BytesFacts
  <2>2. Len(b) = Off(t, n) + 2
    BY <1>1, <1>3, <1>4, <1>5
  <2>3. b[Off(t, n) + 2] = "wide2"
    BY <1>1, <1>3, <1>4, <2>1
  <2> QED
    BY <2>2, <2>3 DEF Last, b
<1>6. CASE c # "wide"
  <2>1. Bytes(c) = <<c>> /\ Len(Bytes(c)) = 1
    BY <1>4, <1>6, BytesFacts
  <2>2. Len(b) = Off(t, n) + 1
    BY <1>1, <1>3, <1>4, <1>6
  <2>3. b[Off(t, n) + 1] = c
    BY <1>1, <1>3, <1>4, <2>1
  <2> QED
    BY <1>4, <2>2, <2>3 DEF Last, b, Alphabet
<1> QED
  BY <1>5, <1>6

LEMMA CutExists ==
  ASSUME NEW C, NEW t \in Seq(C), NEW p \in 0..Off(t, Len(t))
  PROVE  \E cut : CutsAt(t, p, cut)
<1> DEFINE N == Len(t)
           T == {k \in 0..N : p <= Off(t, k)}
<1>1. N \in Nat /\ p \in Nat /\ \A k \in 0..N : Off(t, k) \in Nat
  BY LenProperties, PreFacts
<1>2. N \in T /\ T \in SUBSET Nat
  BY <1>1
<1>3. PICK cut \in T : \A k \in T : cut <= k
  <2> HIDE DEF T
  <2> QED
    BY <1>2, LeastNumber
<1>4. ASSUME cut # 0 PROVE Off(t, cut - 1) < p
  <2>1. cut - 1 \in 0..N /\ cut - 1 \notin T
    BY <1>1, <1>3, <1>4
  <2> QED
    BY <1>1, <2>1
<1> QED
  BY <1>1, <1>3, <1>4 DEF CutsAt

(* The end of the end of a sequence.                                       *)
LEMMA TailOfTail ==
  ASSUME NEW S, NEW b \in Seq(S), NEW p \in 0..Len(b), NEW m \in 0..(Len(b) - p)
  PROVE  LET tail == SubSeq(b, p + 1, Len(b))
         IN  /\ tail \in Seq(S) /\ Len(tail) = Len(b) - p
             /\ \A i \in 1..(Len(b) - p) : tail[i] = b[p + i]
             /\ SubSeq(tail, m + 1, Len(tail)) = SubSeq(b, p + m + 1, Len(b))
<1> DEFINE n == Len(b)
           tail == SubSeq(b, p + 1, n)
           x == SubSeq(tail, m + 1, n - p)
           y == SubSeq(b, p + m + 1, n)
<1>1. n \in Nat /\ p \in Nat /\ m \in Nat /\ \A i \in 1..n : b[i] \in S
  BY LenProperties, ElementOfSeq
<1>2. /\ tail \in Seq(S) /\ Len(tail) = IF p + 1 <= n THEN n - (p + 1) + 1 ELSE 0
      /\ \A i \in 1..(n - (p + 1) + 1) : tail[i] = b[(p + 1) + i - 1]
  <2>1. p + 1 \in Int /\ n \in Int /\ \A i \in (p + 1)..n : b[i] \in S
    BY <1>1
  <2> QED
    BY <2>1, SubSeqProperties
<1>3. Len(tail) = n - p
  BY <1>1, <1>2
<1>4. ASSUME NEW i \in 1..(n - p) PROVE tail[i] = b[p + i] /\ tail[i] \in S
  <2>1. i \in 1..(n - (p + 1) + 1) /\ (p + 1) + i - 1 = p + i /\ p + i \in 1..n
    BY <1>1
  <2> QED
    BY <1>1, <1>2, <2>1
<1> HIDE DEF tail, n
<1>5. /\ x \in Seq(S) /\ Len(x) = IF m + 1 <= n - p THEN (n - p) - (m + 1) + 1 ELSE 0
      /\ \A i \in 1..((n - p) - (m + 1) + 1) : x[i] = tail[(m + 1) + i - 1]
  <2>1. m + 1 \in Int /\ n - p \in Int /\ \A i \in (m + 1)..(n - p) : tail[i] \in S
    BY <1>1, <1>4
  <2> QED
    BY <2>1, SubSeqProperties
<1>6. /\ y \in Seq(S) /\ Len(y) = IF p + m + 1 <= n THEN n - (p + m + 1) + 1 ELSE 0
      /\ \A i \in 1..(n - (p + m + 1) + 1) : y[i] = b[(p + m + 1) + i - 1]
  <2>1. p + m + 1 \in Int /\ n \in Int /\ \A i \in (p + m + 1)..n : b[i] \in S
    BY <1>1
  <2> QED
    BY <2>1, SubSeqProperties
<1> HIDE DEF x, y
<1>7. Len(x) = n - p - m /\ Len(y) = n - p - m
  BY <1>1, <1>5, <1>6 DEF n
<1>8. ASSUME NEW i \in 1..(n - p - m) PROVE x[i] = y[i]
  <2>1. i \in 1..((n - p) - (m + 1) + 1) /\ (m + 1) + i - 1 = m + i /\ m + i \in 1..(n - p)
    BY <1>1
  <2>2. x[i] = b[p + (m + i)]
    BY <1>4, <1>5, <2>1
  <2>3. i \in 1..(n - (p + m + 1) + 1) /\ (p + m + 1) + i - 1 = p + (m + i)
    BY <1>1
  <2> QED
    BY <1>6, <2>2, <2>3
<1>9. x = y
  BY <1>5, <1>6, <1>7, <1>8, SeqEqual
<1> QED
  BY <1>2, <1>3, <1>4, <1>9 DEF n, tail, x, y

(* The place where the text that is shown begins.                          *)
NewestFrom(t, cut) ==
  LET size == Len(Encode(t))
  IN  /\ cut \in 0..Len(t) /\ size - Off(t, cut) <= MaxLogText
      /\ cut > 0 =>
           \/ /\ t[cut] = "newline" /\ size >= MaxLogText
              /\ \A line \in 1..(cut - 1) :
                   t[line] = "newline" => size - Off(t, line) >= MaxLogText
           \/ /\ \A k \in (cut + 1)..Len(t) : t[k] # "newline"
              /\ size - Off(t, cut) >= MaxLogText - 1

LEMMA TailIsNewest ==
  ASSUME NEW C, Alphabet(C), "newline" \in C, NEW t \in Seq(C),
         Len(Encode(t)) > MaxLogText
  PROVE  \E cut : LogTail(Encode(t)) = SubSeq(t, cut + 1, Len(t)) /\ NewestFrom(t, cut)
<1> DEFINE N == Len(t)
           b == Encode(t)
           size == Len(b)
           s == size - MaxLogText
           tail == SubSeq(b, s + 1, size)
           ends == {i \in DOMAIN tail : tail[i] = "newline"}
<1>1. /\ N \in Nat /\ b \in Seq(BytesOf(C)) /\ size \in Nat /\ size = Off(t, N)
      /\ MaxLogText \in Nat \ {0} /\ s \in 1..size /\ size - s = MaxLogText
      /\ \A k \in 0..N : Off(t, k) \in Nat
  BY LenProperties, EncodeFacts, PreFacts, ConversionsAssumption DEF Off
<1>2. \A k \in 0..N : \A j \in 0..k :
        Off(t, j) <= Off(t, k) /\ (j < k => Off(t, j) < Off(t, k))
  BY OffsetsOrder
<1>3. \A k \in 0..N : Off(t, k) <= size
  <2> SUFFICES ASSUME NEW k \in 0..N PROVE Off(t, k) <= size
    OBVIOUS
  <2>1. N \in 0..N /\ k \in 0..N
    BY <1>1
  <2>2. Off(t, k) <= Off(t, N)
    BY <1>2, <2>1
  <2>3. Off(t, N) = size
    BY <1>1
  <2> HIDE DEF N, size
  <2> QED
    BY <2>2, <2>3
<1>4. \A j \in 1..size : b[j] = "newline" <=> \E k \in 1..N : Off(t, k) = j /\ t[k] = "newline"
  <2>1. \A j \in 1..Off(t, Len(t)) :
          (Encode(t)[j] = "newline") <=> \E k \in 1..Len(t) : Off(t, k) = j /\ t[k] = "newline"
    BY Positions
  <2> QED
    BY <1>1, <2>1
<1>5. /\ DOMAIN tail = 1..MaxLogText /\ Len(tail) = MaxLogText
      /\ \A i \in 1..MaxLogText : tail[i] = b[s + i]
  <2>1. s \in 0..Len(b) /\ 0 \in 0..(Len(b) - s)
    BY <1>1
  <2> HIDE DEF b
  <2>2. /\ tail \in Seq(BytesOf(C)) /\ Len(tail) = size - s
        /\ \A i \in 1..(size - s) : tail[i] = b[s + i]
    BY <1>1, <2>1, TailOfTail
  <2> HIDE DEF tail, s, size
  <2>3. DOMAIN tail = 1..Len(tail)
    BY <2>2, LenProperties
  <2> QED
    BY <1>1, <2>2, <2>3
<1>6. \A k \in 1..N : t[k] = "newline" /\ Off(t, k) > s => Off(t, k) - s \in ends
  <2> SUFFICES ASSUME NEW k \in 1..N, t[k] = "newline", Off(t, k) > s
               PROVE  Off(t, k) - s \in ends
    OBVIOUS
  <2>1. k \in 0..N /\ Off(t, k) \in 1..size
    BY <1>1, <1>3
  <2>2. b[Off(t, k)] = "newline"
    BY <1>4, <2>1
  <2>3. Off(t, k) - s \in 1..MaxLogText /\ s + (Off(t, k) - s) = Off(t, k)
    BY <1>1, <2>1
  <2> HIDE DEF tail
  <2> QED
    BY <1>5, <2>2, <2>3
<1>7. LogTail(b) = Decode(IF ends = {} THEN tail ELSE SubSeq(tail, Min(ends) + 1, Len(tail)))
  BY DEF LogTail
<1>8. \A p \in 0..size : \A cut : CutsAt(t, p, cut) =>
        /\ cut \in 0..N /\ Off(t, cut) \in {p, p + 1}
        /\ Decode(SubSeq(b, p + 1, size)) = SubSeq(t, cut + 1, N)
  <2> SUFFICES ASSUME NEW p \in 0..size, NEW cut, CutsAt(t, p, cut)
               PROVE  /\ cut \in 0..N /\ Off(t, cut) \in {p, p + 1}
                      /\ Decode(SubSeq(b, p + 1, size)) = SubSeq(t, cut + 1, N)
    OBVIOUS
  <2>1. cut \in 0..N
    BY DEF CutsAt
  <2>2. Off(t, cut) \in {p, p + 1}
    BY CutPlace
  <2>3. Decode(SubSeq(b, p + 1, size)) = SubSeq(t, cut + 1, N)
    BY DecodeFromCut
  <2> QED
    BY <2>1, <2>2, <2>3
<1> HIDE DEF N, b, size, s, tail
<1>9. CASE ends = {}
  <2>1. PICK cut : CutsAt(t, s, cut)
    BY <1>1, CutExists DEF N
  <2>2. cut \in 0..N /\ Off(t, cut) \in {s, s + 1} /\ Decode(SubSeq(b, s + 1, size)) = SubSeq(t, cut + 1, N)
    BY <1>1, <1>8, <2>1
  <2>3. LogTail(b) = SubSeq(t, cut + 1, N)
    BY <1>7, <1>9, <2>2 DEF tail
  <2>4. size - Off(t, cut) <= MaxLogText /\ size - Off(t, cut) >= MaxLogText - 1
    <3>1. /\ size \in Nat /\ s \in Nat /\ MaxLogText \in Nat /\ size - s = MaxLogText
          /\ Off(t, cut) = s \/ Off(t, cut) = s + 1
      BY <1>1, <2>2
    <3> QED
      BY <3>1
  <2>5. ASSUME NEW k \in (cut + 1)..N PROVE t[k] # "newline"
    <3>1. N \in Nat /\ cut \in 0..N
      BY <1>1, <2>2
    <3>2. k \in 1..N /\ k \in 0..N /\ cut \in 0..k /\ cut < k
      BY <3>1
    <3>3. Off(t, cut) < Off(t, k)
      BY <1>2, <3>2
    <3>4. s \in Nat /\ Off(t, cut) \in Nat /\ Off(t, k) \in Nat
      BY <1>1, <3>1, <3>2
    <3>5. s <= Off(t, cut)
      BY <2>2, <3>4
    <3>6. Off(t, k) > s
      BY <3>3, <3>4, <3>5
    <3> QED
      BY <1>6, <1>9, <3>2, <3>6
  <2>6. NewestFrom(t, cut)
    BY <2>2, <2>4, <2>5 DEF NewestFrom, N, b, size
  <2> QED
    BY <2>3, <2>6 DEF N, b
<1>10. CASE ends # {}
  <2> DEFINE m == Min(ends)
             p == s + m
  <2>1. m \in ends /\ \A i \in ends : m <= i
    <3>1. ends \in SUBSET Nat
      BY <1>1, <1>5
    <3> HIDE DEF ends
    <3>2. \E x \in ends : \A y \in ends : x =< y
      BY <1>10, <3>1, LeastNumber
    <3> QED
      BY <3>2 DEF Min
  <2>2. m \in 1..MaxLogText /\ b[p] = "newline" /\ p \in 1..size
    BY <1>1, <1>5, <2>1
  <2> HIDE DEF m
  <2>3. PICK cut \in 1..N : Off(t, cut) = p /\ t[cut] = "newline"
    BY <1>4, <2>2
  <2>4. CutsAt(t, p, cut)
    <3>1. cut \in 0..N /\ cut - 1 \in 0..cut /\ cut - 1 \in 0..N
      BY <1>1
    <3>2. cut - 1 < cut
      BY <1>1
    <3>3. Off(t, cut - 1) < p /\ p \in 0..Off(t, cut)
      <4>1. Off(t, cut - 1) < Off(t, cut)
        BY <1>2, <3>1, <3>2
      <4>2. p \in Nat
        BY <1>1, <2>2
      <4> QED
        BY <2>3, <4>1, <4>2
    <3> QED
      BY <3>1, <3>3 DEF CutsAt, N
  <2>5. Decode(SubSeq(b, p + 1, size)) = SubSeq(t, cut + 1, N)
    <3>1. p \in 0..size
      BY <1>1, <2>2
    <3> HIDE DEF p
    <3> QED
      BY <1>8, <2>4, <3>1
  <2>6. SubSeq(tail, m + 1, Len(tail)) = SubSeq(b, p + 1, size)
    <3>1. s \in 0..Len(b) /\ m \in 0..(Len(b) - s)
      BY <1>1, <2>2 DEF size
    <3> QED
      BY <1>1, <3>1, TailOfTail DEF tail, size
  <2>7. LogTail(b) = SubSeq(t, cut + 1, N)
    BY <1>7, <1>10, <2>5, <2>6 DEF m
  <2>8. size - Off(t, cut) <= MaxLogText /\ size >= MaxLogText
    BY <1>1, <2>2, <2>3
  <2>9. ASSUME NEW line \in 1..(cut - 1), t[line] = "newline"
        PROVE  size - Off(t, line) >= MaxLogText
    <3>1. N \in Nat
      BY <1>1
    <3>2. cut \in 0..N /\ line \in 0..cut /\ line \in 1..N /\ line \in 0..N /\ line < cut
      BY <3>1
    <3>3. Off(t, line) \in Nat /\ Off(t, line) < p
      <4>1. Off(t, line) < Off(t, cut) /\ Off(t, line) \in Nat
        BY <1>1, <1>2, <3>2
      <4> QED
        BY <2>3, <4>1
    <3>4. ~(Off(t, line) > s)
      <4> SUFFICES ASSUME Off(t, line) > s PROVE FALSE
        OBVIOUS
      <4>1. m <= Off(t, line) - s
        BY <1>6, <2>1, <2>9, <3>2
      <4> QED
        BY <1>1, <2>2, <3>3, <4>1
    <3> QED
      BY <1>1, <3>3, <3>4
  <2>10. NewestFrom(t, cut)
    <3>1. cut \in 0..N /\ cut > 0
      BY <1>1
    <3> QED
      BY <2>3, <2>8, <2>9, <3>1 DEF NewestFrom, N, b, size
  <2> QED
    BY <2>7, <2>10 DEF N, b
<1> QED
  BY <1>9, <1>10

(* The body that is read.                                                  *)
LEMMA LeastOf ==
  ASSUME NEW S \in SUBSET Nat, S # {}
  PROVE  Min(S) \in S /\ \A x \in S : Min(S) <= x
<1>1. \E x \in S : \A y \in S : x =< y
  BY LeastNumber
<1> QED
  BY <1>1 DEF Min

LEMMA CutAtBound ==
  ASSUME NEW S, NEW x \in Seq(S), NEW M \in Nat
  PROVE  LET y == SubSeq(x, 1, Min({Len(x), M + 1}))
         IN  /\ Len(x) <= M => y = x
             /\ Len(x) > M => Len(y) > M
<1> DEFINE k == Min({Len(x), M + 1})
<1>1. Len(x) \in Nat /\ \A i \in 1..Len(x) : x[i] \in S
  BY LenProperties, ElementOfSeq
<1>2. k \in {Len(x), M + 1} /\ k <= Len(x) /\ k <= M + 1
  <2> DEFINE T == {Len(x), M + 1}
  <2>1. T \in SUBSET Nat /\ T # {} /\ Len(x) \in T /\ M + 1 \in T
    BY <1>1
  <2> HIDE DEF T
  <2>2. Min(T) \in T /\ Min(T) <= Len(x) /\ Min(T) <= M + 1
    BY <2>1, LeastOf
  <2> QED
    BY <2>2 DEF T
<1> HIDE DEF k
<1>3. CASE Len(x) <= M
  <2>1. k = Len(x)
    BY <1>1, <1>2, <1>3
  <2> QED
    BY <1>1, <1>3, <2>1, SubSeqFull DEF k
<1>4. CASE Len(x) > M
  <2>1. k = M + 1
    BY <1>1, <1>2, <1>4
  <2>2. 1 \in Int /\ k \in Int /\ \A i \in 1..k : x[i] \in S
    BY <1>1, <1>2, <2>1
  <2>3. Len(SubSeq(x, 1, k)) = IF 1 <= k THEN k - 1 + 1 ELSE 0
    BY <2>2, SubSeqProperties
  <2> QED
    BY <1>4, <1>1, <2>1, <2>3 DEF k
<1> QED
  BY <1>1, <1>3, <1>4

LEMMA FirstChunks ==
  ASSUME NEW S, NEW q \in Seq(Seq(S)), NEW n \in 0..Len(q)
  PROVE  /\ FlattenSeq(SubSeq(q, 1, n)) \in Seq(S)
         /\ FlattenSeq(SubSeq(q, 1, Len(q))) = FlattenSeq(q)
         /\ Len(FlattenSeq(SubSeq(q, 1, n))) <= Len(FlattenSeq(q))
         /\ Len(FlattenSeq(SubSeq(q, 1, n))) = Len(FlattenSeq(q)) =>
              FlattenSeq(SubSeq(q, 1, n)) = FlattenSeq(q)
<1> DEFINE N == Len(q)
           F(k) == FlattenSeq(SubSeq(q, 1, k))
           Fine(k) == Len(F(n)) <= Len(F(k)) /\ (Len(F(n)) = Len(F(k)) => F(n) = F(k))
           T == {d \in Nat : n + d <= N => Fine(n + d)}
<1>1. N \in Nat /\ n \in Nat /\ \A i \in 1..N : q[i] \in Seq(S)
  BY LenProperties, ElementOfSeq
<1>2. \A k \in 0..N : F(k) \in Seq(S) /\ Len(F(k)) \in Nat
  <2> SUFFICES ASSUME NEW k \in 0..N PROVE F(k) \in Seq(S) /\ Len(F(k)) \in Nat
    OBVIOUS
  <2>1. SubSeq(q, 1, k) \in Seq(Seq(S))
    BY <1>1, SubSeqProperties
  <2>2. F(k) \in Seq(S)
    BY <2>1, FlattenFacts
  <2> HIDE DEF F
  <2> QED
    BY <2>2, LenProperties
<1>3. \A k \in 0..(N - 1) : F(k + 1) = F(k) \o q[k + 1]
  <2> SUFFICES ASSUME NEW k \in 0..(N - 1) PROVE F(k + 1) = F(k) \o q[k + 1]
    OBVIOUS
  <2>1. 0 \in 0..N /\ k \in 0..(N - 1) /\ 0 + 1 = 1
    BY <1>1
  <2>2. /\ SubSeq(q, 1, k) \in Seq(Seq(S)) /\ q[k + 1] \in Seq(S)
        /\ SubSeq(q, 1, k + 1) = Append(SubSeq(q, 1, k), q[k + 1])
    BY <2>1, PartGrows
  <2> QED
    BY <2>2, FlattenAppend
<1>4. F(N) = FlattenSeq(q)
  BY SubSeqFull
<1> HIDE DEF F
<1>5. 0 \in T
  <2>1. n + 0 = n /\ n \in 0..N
    BY <1>1
  <2> QED
    BY <1>2, <2>1
<1>6. ASSUME NEW d \in Nat, d \in T PROVE d + 1 \in T
  <2> DEFINE k == n + d
  <2> SUFFICES ASSUME k + 1 <= N PROVE Fine(k + 1)
    BY <1>1
  <2>1. k \in 0..(N - 1) /\ k \in 0..N /\ Fine(k) /\ k + 1 \in 1..N
    BY <1>1, <1>6
  <2> DEFINE u == F(k)
             x == q[k + 1]
  <2>2. u \in Seq(S) /\ x \in Seq(S) /\ F(k + 1) = u \o x /\ Len(u) \in Nat /\ Len(x) \in Nat
    BY <1>1, <1>2, <1>3, <2>1, LenProperties
  <2> HIDE DEF T, k, u, x
  <2>3. Len(u \o x) = Len(u) + Len(x)
    BY <2>2, ConcatProperties
  <2>4. Len(F(n)) \in Nat
    BY <1>2
  <2>5. Len(F(n)) <= Len(F(k + 1))
    BY <2>1, <2>2, <2>3, <2>4 DEF u
  <2>6. ASSUME Len(F(n)) = Len(F(k + 1)) PROVE F(n) = F(k + 1)
    <3>1. Len(x) = 0 /\ Len(F(n)) = Len(u)
      BY <2>1, <2>2, <2>3, <2>4, <2>6 DEF u
    <3>2. x = <<>>
      BY <2>2, <3>1, EmptySeq
    <3>3. u \o x = u
      BY <2>2, <3>2, ConcatEmptySeq
    <3> QED
      BY <2>1, <2>2, <3>1, <3>3 DEF u
  <2> QED
    BY <2>5, <2>6
<1>7. Fine(N)
  <2> HIDE DEF T
  <2>1. Nat \subseteq T
    BY <1>5, <1>6, Induction
  <2>2. N - n \in Nat /\ n + (N - n) = N /\ N - n \in T
    BY <1>1, <2>1
  <2> HIDE DEF Fine
  <2> QED
    BY <1>1, <2>2 DEF T
<1> QED
  BY <1>2, <1>4, <1>7 DEF F

LEMMA BodyRead ==
  ASSUME NEW S, NEW q \in Seq(Seq(S)), NEW length,
         length = Len(FlattenSeq(q)) \/ (length = None /\ Len(q) <= 1)
  PROVE  ReadResponseBody(q, length) =
           IF Len(FlattenSeq(q)) > MaxLogResponse THEN {} ELSE {FlattenSeq(q)}
<1> DEFINE b == FlattenSeq(q)
           N == Len(q)
           M == MaxLogResponse
           F(n) == FlattenSeq(SubSeq(q, 1, n))
           Body(n) == SubSeq(F(n), 1, Min({Len(F(n)), M + 1}))
           enough == {n \in 1..N : \/ Len(Body(n)) > M
                                   \/ length = None
                                   \/ Len(Body(n)) >= length}
           k == Min(enough \cup {N})
<1>1. ReadResponseBody(q, length) =
        IF (length # None /\ length > M) \/ Len(Body(k)) > M THEN {} ELSE {Body(k)}
  BY DEF ReadResponseBody
<1>2. N \in Nat /\ M \in Nat /\ b \in Seq(S) /\ Len(b) \in Nat /\ None \notin Nat
  BY ConversionsAssumption, LenProperties, FlattenFacts
<1>3. \A n \in 0..N : /\ F(n) \in Seq(S) /\ Len(F(n)) \in Nat /\ Len(F(n)) <= Len(b)
                      /\ Len(F(n)) = Len(b) => F(n) = b
  <2> SUFFICES ASSUME NEW n \in 0..N
               PROVE  /\ F(n) \in Seq(S) /\ Len(F(n)) \in Nat /\ Len(F(n)) <= Len(b)
                      /\ Len(F(n)) = Len(b) => F(n) = b
    OBVIOUS
  <2> QED
    BY FirstChunks, LenProperties
<1>4. F(N) = b
  BY SubSeqFull
<1> HIDE DEF b, N, M, F
<1>5. \A n \in 0..N : /\ Len(F(n)) <= M => Body(n) = F(n)
                      /\ Len(F(n)) > M => Len(Body(n)) > M
  BY <1>2, <1>3, CutAtBound
<1> HIDE DEF Body
<1>6. k \in enough \cup {N} /\ k \in 0..N
  <2>1. enough \cup {N} \in SUBSET Nat /\ enough \cup {N} # {}
    BY <1>2
  <2>2. k \in enough \cup {N}
    <3> DEFINE U == enough \cup {N}
    <3> HIDE DEF U
    <3>1. Min(U) \in U
      BY <2>1, LeastOf DEF U
    <3> QED
      BY <3>1 DEF U
  <2>3. enough \subseteq 0..N /\ N \in 0..N
    BY <1>2
  <2> HIDE DEF k, enough
  <2> QED
    BY <2>2, <2>3
<1>7. CASE length = Len(b)
  <2>1. CASE Len(b) > M
    <3>1. length # None /\ length > M
      BY <1>2, <1>7, <2>1
    <3> HIDE DEF k
    <3> QED
      BY <1>1, <2>1, <3>1 DEF b, M
  <2>2. CASE ~(Len(b) > M)
    <3>1. Len(F(k)) <= M /\ Body(k) = F(k)
      BY <1>2, <1>3, <1>5, <1>6, <2>2
    <3>2. F(k) = b
      <4>1. CASE k = N
        BY <1>4, <4>1
      <4>2. CASE k # N
        <5>1. k \in enough
          BY <1>6, <4>2
        <5> HIDE DEF k
        <5>2. Len(Body(k)) > M \/ length = None \/ Len(Body(k)) >= length
          BY <5>1
        <5>3. Len(F(k)) \in Nat /\ Len(F(k)) <= Len(b) /\ (Len(F(k)) = Len(b) => F(k) = b)
          BY <1>3, <1>6
        <5>4. Len(F(k)) = Len(b)
          BY <1>2, <1>7, <3>1, <5>2, <5>3
        <5> QED
          BY <5>3, <5>4
      <4> QED
        BY <4>1, <4>2
    <3> HIDE DEF k
    <3> QED
      BY <1>1, <1>2, <1>7, <2>2, <3>1, <3>2 DEF b, M
  <2> QED
    BY <2>1, <2>2
<1>8. CASE length = None /\ N <= 1
  <2>1. k = N
    <3>1. enough \subseteq {N}
      BY <1>2, <1>8
    <3> HIDE DEF k, enough
    <3> QED
      BY <1>6, <3>1
  <2>2. F(k) = b
    BY <1>4, <2>1
  <2> HIDE DEF k
  <2>3. CASE Len(b) > M
    <3>1. Len(Body(k)) > M
      BY <1>5, <1>6, <2>2, <2>3
    <3> QED
      BY <1>1, <2>3, <3>1 DEF b, M
  <2>4. CASE ~(Len(b) > M)
    <3>1. Body(k) = b
      BY <1>2, <1>5, <1>6, <2>2, <2>4
    <3> QED
      BY <1>1, <1>8, <2>4, <3>1 DEF b, M
  <2> QED
    BY <2>3, <2>4
<1> QED
  BY <1>7, <1>8 DEF b, N

LEMMA NulEncoded ==
  ASSUME NEW C, NEW t \in Seq(C), "nul" \in C
  PROVE  "nul" \in ToSet(Encode(t)) <=> "nul" \in ToSet(t)
<1> DEFINE N == Len(t)
           b == Encode(t)
<1>1. /\ N \in Nat /\ DOMAIN t = 1..N /\ Len(b) \in Nat /\ DOMAIN b = 1..Len(b)
      /\ Len(b) = Off(t, N) /\ Off(t, 0) = 0
  BY LenProperties, EncodeFacts, PreFacts DEF Off
<1>2. \A j \in 1..Len(b) : b[j] = "nul" <=> \E k \in 1..N : Off(t, k) = j /\ t[k] = "nul"
  <2>1. \A j \in 1..Off(t, Len(t)) :
          (Encode(t)[j] = "nul") <=> \E k \in 1..Len(t) : Off(t, k) = j /\ t[k] = "nul"
    BY Positions
  <2> QED
    BY <1>1, <2>1
<1>3. \A k \in 1..N : Off(t, k) \in 1..Len(b)
  <2> SUFFICES ASSUME NEW k \in 1..N PROVE Off(t, k) \in 1..Len(b)
    OBVIOUS
  <2>1. N \in 0..N /\ k \in 0..N /\ 0 \in 0..k
    BY <1>1
  <2>2. /\ Off(t, 0) + (k - 0) <= Off(t, k) /\ Off(t, k) + (N - k) <= Off(t, N)
        /\ Off(t, k) \in Nat
    BY <2>1, OffsetsGrow, PreFacts
  <2> HIDE DEF N, b
  <2> QED
    BY <1>1, <2>1, <2>2
<1> HIDE DEF N, b
<1>4. "nul" \in ToSet(b) <=> \E j \in 1..Len(b) : b[j] = "nul"
  BY <1>1 DEF ToSet
<1>5. "nul" \in ToSet(t) <=> \E k \in 1..N : t[k] = "nul"
  BY <1>1 DEF ToSet
<1>6. ASSUME NEW k \in 1..N, t[k] = "nul" PROVE \E j \in 1..Len(b) : b[j] = "nul"
  BY <1>2, <1>3, <1>6
<1> QED
  BY <1>2, <1>4, <1>5, <1>6 DEF b

(* Nothing is returned of a text that is refused, and else its end.        *)
LEMMA ParsedLogs ==
  ASSUME NEW C, Alphabet(C), "newline" \in C, "nul" \in C, NEW t \in Seq(C),
         Len(Encode(t)) <= MaxLogResponse
  PROVE  IF "nul" \in ToSet(t) THEN ParseSystemLogs(Encode(t)) = {}
         ELSE \E cut : /\ ParseSystemLogs(Encode(t)) = {SubSeq(t, cut + 1, Len(t))}
                       /\ NewestFrom(t, cut)
<1> DEFINE b == Encode(t)
<1>1. /\ Len(t) \in Nat /\ Len(b) \in Nat /\ b \in Seq(BytesOf(C)) /\ Off(t, 0) = 0
      /\ MaxLogResponse \in Nat /\ MaxLogText \in Nat
  BY LenProperties, EncodeFacts, PreFacts, ConversionsAssumption
<1>2. CASE "nul" \in ToSet(t)
  <2>1. "nul" \in ToSet(b)
    BY <1>2, NulEncoded
  <2> QED
    BY <1>2, <2>1 DEF ParseSystemLogs
<1>3. CASE "nul" \notin ToSet(t)
  <2>1. "nul" \notin ToSet(b) /\ ~(Len(b) > MaxLogResponse)
    BY <1>1, <1>3, NulEncoded
  <2>2. CASE Len(b) <= MaxLogText
    <3>1. ParseSystemLogs(b) = {Decode(b)}
      BY <2>1, <2>2 DEF ParseSystemLogs
    <3>2. CutsAt(t, 0, 0)
      BY <1>1 DEF CutsAt
    <3>3. Decode(SubSeq(b, 0 + 1, Len(b))) = SubSeq(t, 0 + 1, Len(t))
      BY <3>2, DecodeFromCut
    <3>4. SubSeq(b, 0 + 1, Len(b)) = b
      BY <1>1, SubSeqFull
    <3>5. NewestFrom(t, 0)
      BY <1>1, <2>2 DEF NewestFrom
    <3> QED
      BY <1>3, <3>1, <3>3, <3>4, <3>5
  <2>3. CASE ~(Len(b) <= MaxLogText)
    <3>1. ParseSystemLogs(b) = {LogTail(b)}
      BY <2>1, <2>3 DEF ParseSystemLogs
    <3>2. PICK cut : LogTail(b) = SubSeq(t, cut + 1, Len(t)) /\ NewestFrom(t, cut)
      <4>1. Len(Encode(t)) > MaxLogText
        BY <1>1, <2>3
      <4> QED
        BY <4>1, TailIsNewest
    <3> QED
      BY <1>3, <3>1, <3>2
  <2> QED
    BY <2>2, <2>3
<1> QED
  BY <1>2, <1>3

(* The place says of the text what the operator is shown.                  *)
LEMMA NewestShown ==
  ASSUME NEW C, NEW t \in Seq(C), NEW from, NewestFrom(t, from)
  PROVE  LET shown == SubSeq(t, from + 1, Len(t))
             cut == Len(t) - Len(shown)
             before == SubSeq(t, 1, cut - 1)
             line == Max({0} \cup {i \in DOMAIN before : before[i] = "newline"})
             withLine == Encode(SubSeq(t, line + 1, Len(t)))
         IN  /\ Len(Encode(shown)) <= MaxLogText
             /\ SubSeq(t, cut + 1, Len(t)) = shown
             /\ cut > 0 =>
                  \/ t[cut] = "newline" /\ Len(withLine) >= MaxLogText
                  \/ /\ "newline" \notin ToSet(shown)
                     /\ Len(Encode(shown)) >= MaxLogText - 1
<1> DEFINE N == Len(t)
           shown == SubSeq(t, from + 1, N)
           cut == N - Len(shown)
           before == SubSeq(t, 1, cut - 1)
           lines == {0} \cup {i \in DOMAIN before : before[i] = "newline"}
           line == Max(lines)
           size == Len(Encode(t))
<1>1. /\ N \in Nat /\ from \in 0..N /\ \A i \in 1..N : t[i] \in C
      /\ size = Off(t, N) /\ Off(t, 0) = 0 /\ \A k \in 0..N : Off(t, k) \in Nat
  BY LenProperties, ElementOfSeq, PreFacts DEF NewestFrom, Off
<1>2. /\ shown \in Seq(C) /\ Len(shown) = N - from
      /\ \A i \in 1..(N - from) : shown[i] = t[from + i]
  <2>1. from \in 0..N /\ 0 \in 0..(N - from)
    BY <1>1
  <2> QED
    BY <2>1, TailOfTail
<1>3. cut = from
  BY <1>1, <1>2
<1>4. Len(Encode(shown)) = size - Off(t, from)
  BY <1>1, EncodedRest
<1>5. Len(Encode(shown)) <= MaxLogText
  BY <1>4 DEF NewestFrom
<1> HIDE DEF shown, cut, size
<1>6. ASSUME from > 0
      PROVE  \/ t[from] = "newline" /\ Len(Encode(SubSeq(t, line + 1, N))) >= MaxLogText
             \/ "newline" \notin ToSet(shown) /\ Len(Encode(shown)) >= MaxLogText - 1
  <2>1. CASE /\ \A k \in (from + 1)..N : t[k] # "newline"
             /\ size - Off(t, from) >= MaxLogText - 1
    <3>1. DOMAIN shown = 1..(N - from)
      BY <1>2, LenProperties
    <3>2. \A i \in 1..(N - from) : shown[i] # "newline"
      BY <1>1, <1>2, <2>1
    <3> QED
      BY <1>4, <2>1, <3>1, <3>2 DEF ToSet
  <2>2. CASE /\ t[from] = "newline" /\ size >= MaxLogText
             /\ \A k \in 1..(from - 1) :
                  t[k] = "newline" => size - Off(t, k) >= MaxLogText
    <3>1. DOMAIN before = 1..(from - 1) /\ \A i \in 1..(from - 1) : before[i] = t[i]
      <4>1. 1 \in Int /\ from - 1 \in Int /\ \A i \in 1..(from - 1) : t[i] \in C
        BY <1>1
      <4>2. /\ before \in Seq(C) /\ Len(before) = IF 1 <= from - 1 THEN from - 1 - 1 + 1 ELSE 0
            /\ \A i \in 1..(from - 1 - 1 + 1) : before[i] = t[1 + i - 1]
        BY <1>3, <4>1, SubSeqProperties
      <4> HIDE DEF before
      <4>3. DOMAIN before = 1..Len(before)
        BY <4>2, LenProperties
      <4>4. Len(before) = from - 1
        BY <1>1, <1>6, <4>2
      <4>5. ASSUME NEW i \in 1..(from - 1) PROVE before[i] = t[i]
        <5>1. i \in 1..(from - 1 - 1 + 1) /\ 1 + i - 1 = i
          BY <1>1
        <5> QED
          BY <4>2, <5>1
      <4> QED
        BY <4>3, <4>4, <4>5
    <3> HIDE DEF before
    <3>2. lines \in SUBSET Nat /\ lines # {} /\ \A x \in lines : x <= N
      BY <1>1, <3>1
    <3>3. line \in lines
      <4> HIDE DEF lines
      <4> QED
        BY <1>1, <3>2, LargestIsThere
    <3>4. line = 0 \/ (line \in 1..(from - 1) /\ t[line] = "newline")
      <4> HIDE DEF line
      <4> QED
        BY <3>1, <3>3
    <3> HIDE DEF line
    <3>5. line \in 0..N /\ size - Off(t, line) >= MaxLogText
      BY <1>1, <2>2, <3>4
    <3>6. Len(Encode(SubSeq(t, line + 1, N))) = size - Off(t, line)
      BY <1>1, <3>5, EncodedRest
    <3> QED
      BY <2>2, <3>5, <3>6
  <2> QED
    BY <1>6, <2>1, <2>2 DEF NewestFrom, size
<1> QED
  BY <1>3, <1>5, <1>6 DEF N, shown, cut

(* What is returned of a response that arrives whole.                      *)
LEMMA LogsReturned ==
  ASSUME NEW response \in LogResponses,
         response.announced \/ Len(response.chunks) <= 1
  PROVE  LET text == response.text
             size == Len(Encode(text))
             shown == GetSystemLogs(response.chunks,
                                    IF response.announced THEN size ELSE None)
         IN  /\ text \in Seq(ToSet(text) \cup {"newline", "nul"})
             /\ IF "nul" \in ToSet(text) \/ size > MaxLogResponse THEN shown = {}
                ELSE \E cut : /\ shown = {SubSeq(text, cut + 1, Len(text))}
                              /\ NewestFrom(text, cut)
<1> DEFINE t == response.text
           q == response.chunks
           b == Encode(t)
           length == IF response.announced THEN Len(b) ELSE None
           S == ToSet(b)
           C == ToSet(t) \cup {"newline", "nul"}
           shown == GetSystemLogs(q, length)
<1>1. /\ IsList(t) /\ {"wide1", "wide2"} \cap ToSet(t) = {}
      /\ q \in Seq(Seq(S) \ {<<>>}) /\ FlattenSeq(q) = b
  BY ConversionsAssumption
<1>2. t \in Seq(C)
  <2>1. Len(t) \in Nat /\ t = [i \in 1..Len(t) |-> t[i]]
    BY <1>1 DEF IsList
  <2>2. DOMAIN t = 1..Len(t)
    BY <2>1
  <2>3. \A i \in 1..Len(t) : t[i] \in C
    BY <2>2 DEF ToSet
  <2>4. \A i \in 1..Len(t) : t[i] \in C
    BY <2>3
  <2> HIDE DEF C
  <2>5. [i \in 1..Len(t) |-> t[i]] \in Seq(C)
    BY <2>1, <2>4, IsASeq
  <2> QED
    BY <2>1, <2>5
<1>3. Alphabet(C) /\ "newline" \in C /\ "nul" \in C
  BY <1>1 DEF Alphabet
<1>4. q \in Seq(Seq(S))
  <2> DEFINE U == Seq(S) \ {<<>>}
             V == Seq(S)
  <2>1. U \subseteq V /\ q \in Seq(U)
    BY <1>1
  <2> HIDE DEF U, V
  <2>2. q \in Seq(V)
    BY <2>1, SeqMonotonic
  <2> QED
    BY <2>2 DEF V
<1>5. ReadResponseBody(q, length) = IF Len(b) > MaxLogResponse THEN {} ELSE {b}
  <2>1. length = Len(FlattenSeq(q)) \/ (length = None /\ Len(q) <= 1)
    BY <1>1
  <2> HIDE DEF S, q, length
  <2> QED
    BY <1>1, <1>4, <2>1, BodyRead
<1> HIDE DEF q, length, C
<1>6. CASE Len(b) > MaxLogResponse
  BY <1>2, <1>5, <1>6 DEF GetSystemLogs, C, q, length
<1>7. CASE ~(Len(b) > MaxLogResponse)
  <2>1. b # <<>> => Last(b) # "wide1"
    BY <1>2, <1>3, LastByte
  <2>2. shown = ParseSystemLogs(b)
    <3>1. shown = UNION {IF body # <<>> /\ Last(body) = "wide1" THEN {}
                         ELSE ParseSystemLogs(body) : body \in {b}}
      BY <1>5, <1>7 DEF GetSystemLogs
    <3> HIDE DEF shown, b
    <3> QED
      BY <2>1, <3>1
  <2>3. Len(b) <= MaxLogResponse
    <3>1. Len(b) \in Nat /\ MaxLogResponse \in Nat
      BY <1>2, EncodeFacts, LenProperties, ConversionsAssumption
    <3> QED
      BY <1>7, <3>1
  <2>4. IF "nul" \in ToSet(t) THEN ParseSystemLogs(b) = {}
        ELSE \E cut : ParseSystemLogs(b) = {SubSeq(t, cut + 1, Len(t))} /\ NewestFrom(t, cut)
    BY <1>2, <1>3, <2>3, ParsedLogs
  <2> QED
    BY <1>2, <1>7, <2>2, <2>4 DEF C, q, length
<1> QED
  BY <1>6, <1>7

-----------------------------------------------------------------------------
(* Of a log text of any length the panel gets the newest whole lines, as   *)
(* many bytes of them as fit, or nothing when the text has a zero byte or  *)
(* is larger than a response may be (axeos/parser.py:316,                  *)
(* axeos/client.py:233).                                                   *)
THEOREM NewestLines == Spec => []LogsAreNewestWholeLines
<1>1. Returned => LogsAreNewestWholeLines
  <2> SUFFICES ASSUME Returned, call.to = "get_system_logs",
                      call.response.announced \/ Len(call.response.chunks) <= 1
               PROVE  LogsAreNewestWholeLines
    BY DEF LogsAreNewestWholeLines
  <2> DEFINE text == call.response.text
             size == Len(Encode(text))
             C == ToSet(text) \cup {"newline", "nul"}
             refused == "nul" \in ToSet(text) \/ size > MaxLogResponse
  <2>1. /\ text \in Seq(C)
        /\ IF refused THEN result = {}
           ELSE \E cut : result = {SubSeq(text, cut + 1, Len(text))} /\ NewestFrom(text, cut)
    BY LogsReturned DEF Returned
  <2>2. CASE refused
    BY <2>1, <2>2 DEF LogsAreNewestWholeLines
  <2>3. CASE ~refused
    <3>1. PICK from : result = {SubSeq(text, from + 1, Len(text))} /\ NewestFrom(text, from)
      BY <2>1, <2>3
    <3> DEFINE shown == SubSeq(text, from + 1, Len(text))
               cut == Len(text) - Len(shown)
               before == SubSeq(text, 1, cut - 1)
               line == Max({0} \cup {i \in DOMAIN before : before[i] = "newline"})
               withLine == Encode(SubSeq(text, line + 1, Len(text)))
    <3> HIDE DEF C
    <3>2. /\ Len(Encode(shown)) <= MaxLogText
          /\ SubSeq(text, cut + 1, Len(text)) = shown
          /\ cut > 0 =>
               \/ text[cut] = "newline" /\ Len(withLine) >= MaxLogText
               \/ "newline" \notin ToSet(shown) /\ Len(Encode(shown)) >= MaxLogText - 1
      BY <2>1, <3>1, NewestShown
    <3>3. (result = {}) = refused
      BY <2>3, <3>1
    <3> QED
      BY <3>1, <3>2, <3>3 DEF LogsAreNewestWholeLines
  <2> QED
    BY <2>2, <2>3
<1> QED
  BY <1>1, ReturnedAlways, PTL
=============================================================================
