----------------------------- MODULE LogTheorems -----------------------------
(***************************************************************************)
(* Facts about the operators of AppendOnlyLog, for every log: what the     *)
(* n-th of a set of places is, which lines stay when groups are taken out, *)
(* and what a prefix compaction leaves.                                    *)
(***************************************************************************)
EXTENDS AppendOnlyLog, FiniteSetTheorems, SequenceTheorems, WellFoundedInduction, TLAPS

-----------------------------------------------------------------------------
(* Compaction: in a log whose groups are numbered upwards the lines that   *)
(* stay are the end of the log.                                            *)

LEMMA PlaceInSuffix ==
  ASSUME NEW k \in Nat, NEW m \in Nat, k <= m, NEW n \in 1 .. m - k
  PROVE  Cardinality(k + 1 .. m) = m - k /\ Place(k + 1 .. m, n) = k + n
<1> DEFINE S == k + 1 .. m
<1>1. \A i \in S : Cardinality({j \in S : j <= i}) = i - k
  <2> TAKE i \in S
  <2>1. {j \in S : j <= i} = k + 1 .. i
    OBVIOUS
  <2>2. Cardinality(k + 1 .. i) = i - k
    <3>1. k + 1 \in Int /\ i \in Int
      OBVIOUS
    <3> QED
      BY <3>1, FS_Interval
  <2> QED
    BY <2>1, <2>2
<1>2. Cardinality(S) = m - k
  BY FS_Interval
<1>3. k + n \in S
  OBVIOUS
<1>4. Place(S, n) = k + n
  <2> HIDE DEF S
  <2>1. \A i \in S : Cardinality({j \in S : j <= i}) = n <=> i = k + n
    BY <1>1 DEF S
  <2> QED
    BY <1>3, <2>1 DEF Place
<1> QED
  BY <1>2, <1>4

LEMMA LinesAtSuffix ==
  ASSUME NEW log, NEW k \in Nat, NEW m \in Nat, k <= m
  PROVE  LinesAt(log, k + 1 .. m) = [n \in 1 .. m - k |-> log[k + n]]
<1>1. Cardinality(k + 1 .. m) = m - k
  <2>1. \A a, b \in Int : Cardinality(a .. b) = IF a > b THEN 0 ELSE b - a + 1
    BY FS_Interval
  <2>2. Cardinality(k + 1 .. m) = IF k + 1 > m THEN 0 ELSE m - (k + 1) + 1
    BY <2>1
  <2> QED
    BY <2>2
<1>2. \A n \in 1 .. m - k : Place(k + 1 .. m, n) = k + n
  BY PlaceInSuffix
<1> QED
  BY <1>1, <1>2 DEF LinesAt

LEMMA Least ==
  ASSUME NEW T \in SUBSET Nat, T # {}
  PROVE  \E x \in T : \A y \in T : x <= y
<1>1. PICK x \in T : \A y \in T : ~ (<<y, x>> \in OpToRel(<, Nat))
  BY NatLessThanWellFounded, WFMin
<1>2. \A y \in T : ~ (y < x)
  BY <1>1 DEF OpToRel
<1> QED
  BY <1>2

\* Every group has one line, and the numbers go up.
Ascending(log) == \A i, j \in DOMAIN log : i < j => log[i].group < log[j].group

LEMMA CompactedIsSuffix ==
  ASSUME NEW L, NEW log \in Seq(L), NEW keep \in Int, Ascending(log),
         \A i \in DOMAIN log : log[i].group \in Nat
  PROVE  \E k \in Nat :
           /\ k <= Len(log) /\ (log # <<>> => k < Len(log))
           /\ WithoutGroups(log, DroppedGroups(log, keep)) = [n \in 1 .. Len(log) - k |-> log[k + n]]
<1> DEFINE n == Len(log)
           D == DroppedGroups(log, keep)
           F == {i \in 1 .. n : log[i].group \in D}
           H(i) == {h \in Groups(log) : FirstAt(log, h) >= i}
<1>1. n \in Nat /\ DOMAIN log = 1 .. n
  BY LenProperties
<1>2. \A i \in 1 .. n : FirstAt(log, log[i].group) = i
  <2> TAKE i \in 1 .. n
  <2> DEFINE P(x) == log[x].group = log[i].group /\ \A j \in 1 .. x - 1 : log[j].group # log[i].group
  <2>1. \A x \in 1 .. n : P(x) <=> x = i
    <3> TAKE x \in 1 .. n
    <3>1. P(i)
      BY <1>1 DEF Ascending
    <3>2. ASSUME P(x) PROVE x = i
      BY <1>1, <3>2 DEF Ascending
    <3> QED
      BY <3>1, <3>2
  <2>2. FirstAt(log, log[i].group) = CHOOSE x \in 1 .. n : P(x)
    BY <1>1 DEF FirstAt
  <2> HIDE DEF P
  <2> QED
    BY <2>1, <2>2
<1>3. IsFiniteSet(Groups(log))
  <2>1. \A a, b \in Int : IsFiniteSet(a .. b)
    BY FS_Interval
  <2>2. IsFiniteSet(1 .. n)
    BY <1>1, <2>1
  <2> DEFINE f == [i \in 1 .. n |-> log[i].group]
  <2>3. Groups(log) = {f[i] : i \in 1 .. n}
    BY <1>1 DEF Groups
  <2>4. f \in Surjection(1 .. n, Groups(log))
    BY <2>3 DEF Surjection
  <2> QED
    BY <2>2, <2>4, FS_Surjection
<1>4. \A i \in 1 .. n : i \in F <=> keep > 0 /\ Cardinality(H(i)) > keep
  <2> TAKE i \in 1 .. n
  <2>1. log[i].group \in Groups(log)
    BY <1>1 DEF Groups
  <2> QED
    BY <1>2, <2>1 DEF DroppedGroups
<1>5. \A i \in F, j \in 1 .. n : j <= i => j \in F
  <2> TAKE i \in F, j \in 1 .. n
  <2> SUFFICES ASSUME j <= i PROVE j \in F
    OBVIOUS
  <2>1. H(i) \subseteq H(j)
    <3>1. \A h \in Groups(log) : FirstAt(log, h) \in 1 .. n
      BY <1>1, <1>2 DEF Groups
    <3> QED
      BY <3>1, <1>1
  <2>2. IsFiniteSet(H(j)) /\ IsFiniteSet(H(i))
    BY <1>3, FS_Subset
  <2>3. Cardinality(H(i)) <= Cardinality(H(j)) /\ Cardinality(H(i)) \in Nat /\ Cardinality(H(j)) \in Nat
    BY <2>1, <2>2, FS_Subset, FS_CardinalityType
  <2>4. keep > 0 /\ Cardinality(H(i)) > keep
    BY <1>4
  <2> HIDE DEF H, F
  <2>5. Cardinality(H(j)) > keep
    BY <2>3, <2>4
  <2> QED
    BY <1>4, <2>4, <2>5
<1>6. n # 0 => n \notin F
  <2> SUFFICES ASSUME n # 0, n \in F PROVE FALSE
    OBVIOUS
  <2>1. H(n) = {log[n].group}
    <3>1. \A h \in Groups(log) : \E i \in 1 .. n : h = log[i].group /\ FirstAt(log, h) = i
      BY <1>1, <1>2 DEF Groups
    <3>2. log[n].group \in Groups(log) /\ FirstAt(log, log[n].group) = n
      BY <1>1, <1>2 DEF Groups
    <3> QED
      BY <3>1, <3>2, <1>1
  <2>2. Cardinality(H(n)) = 1
    BY <2>1, FS_Singleton
  <2>3. keep > 0 /\ Cardinality(H(n)) > keep
    BY <1>1, <1>4
  <2> QED
    BY <2>2, <2>3
<1>7. PICK k \in Nat : /\ k <= n /\ (n # 0 => k < n)
                      /\ \A i \in 1 .. n : i \in F <=> i <= k
  <2>1. CASE n = 0
    BY <2>1
  <2>2. CASE n # 0
    <3> DEFINE T == {i \in 1 .. n : i \notin F}
    <3>1. T \in SUBSET Nat /\ n \in T
      BY <1>1, <1>6, <2>2
    <3> HIDE DEF T
    <3>2. PICK x \in T : \A y \in T : x <= y
      BY <3>1, Least
    <3>3. x \in 1 .. n /\ x \notin F /\ \A i \in 1 .. n : i \notin F => x <= i
      BY <3>2 DEF T
    <3> HIDE DEF F
    <3>4. \A i \in 1 .. n : i \in F <=> i <= x - 1
      BY <1>1, <1>5, <3>3
    <3>5. x - 1 \in Nat /\ x - 1 < n
      BY <1>1, <3>3
    <3> QED
      BY <3>4, <3>5, <1>1
  <2> QED
    BY <2>1, <2>2
<1>8. {i \in DOMAIN log : log[i].group \notin D} = k + 1 .. n
  BY <1>1, <1>7
<1>9. WithoutGroups(log, D) = [i \in 1 .. n - k |-> log[k + i]]
  <2>1. WithoutGroups(log, D) = LinesAt(log, k + 1 .. n)
    BY <1>8 DEF WithoutGroups
  <2> HIDE DEF n, D, F
  <2>2. n \in Nat /\ k \in Nat /\ k <= n
    BY <1>1, <1>7
  <2>3. \A a, b \in Nat : a <= b => LinesAt(log, a + 1 .. b) = [i \in 1 .. b - a |-> log[a + i]]
    BY LinesAtSuffix
  <2>4. LinesAt(log, k + 1 .. n) = [i \in 1 .. n - k |-> log[k + i]]
    BY <2>2, <2>3, Zenon
  <2> QED
    BY <2>1, <2>4
<1>10. log # <<>> => n # 0
  BY EmptySeq, LenProperties
<1> QED
  BY <1>7, <1>9, <1>10

-----------------------------------------------------------------------------
(* The places that stay, in their order.                                   *)

\* Place numbers a set upwards and misses nothing.
Enumerated(S) ==
  /\ \A n \in 1 .. Cardinality(S) : Place(S, n) \in S
  /\ \A x \in S : \E n \in 1 .. Cardinality(S) : Place(S, n) = x
  /\ \A m, n \in 1 .. Cardinality(S) : m < n => Place(S, m) < Place(S, n)

LEMMA PlaceNumbers ==
  ASSUME NEW S \in SUBSET Nat, IsFiniteSet(S)
  PROVE  Enumerated(S)
<1> DEFINE B(x) == {j \in S : j <= x}
           r == [x \in S |-> Cardinality(B(x))]
           c == Cardinality(S)
<1>1. c \in Nat
  BY FS_CardinalityType
<1>2. \A x \in S : IsFiniteSet(B(x)) /\ r[x] \in 1 .. c
  <2> TAKE x \in S
  <2>1. IsFiniteSet(B(x)) /\ Cardinality(B(x)) <= c
    BY FS_Subset
  <2>2. Cardinality(B(x)) \in Nat
    BY <2>1, FS_CardinalityType
  <2>3. x \in B(x)
    OBVIOUS
  <2>4. Cardinality(B(x)) # 0
    BY <2>1, <2>3, FS_EmptySet
  <2> HIDE DEF B
  <2> QED
    BY <1>1, <2>1, <2>2, <2>4
<1>3. \A x, y \in S : x < y => r[x] < r[y]
  <2> TAKE x, y \in S
  <2> HAVE x < y
  <2>1. B(x) \subseteq B(y) /\ B(x) # B(y)
    <3>1. x \in Nat /\ y \in Nat
      OBVIOUS
    <3>2. \A j \in S : j <= x => j <= y
      BY <3>1
    <3>3. y \in B(y) /\ y \notin B(x)
      BY <3>1
    <3> QED
      BY <3>2, <3>3
  <2>2. Cardinality(B(x)) <= Cardinality(B(y)) /\ Cardinality(B(x)) # Cardinality(B(y))
    <3>1. IsFiniteSet(B(y))
      BY <1>2
    <3> HIDE DEF B
    <3> QED
      BY <2>1, <3>1, FS_Subset
  <2>3. r[x] \in 1 .. c /\ r[y] \in 1 .. c /\ r[x] = Cardinality(B(x)) /\ r[y] = Cardinality(B(y))
    BY <1>2
  <2> HIDE DEF r, B, c
  <2> QED
    BY <1>1, <2>2, <2>3
<1>4. \A x, y \in S : r[x] = r[y] => x = y
  <2> HIDE DEF r, c, B
  <2>1. \A x \in S : r[x] \in Int /\ x \in Int
    BY <1>1, <1>2
  <2> QED
    BY <1>3, <2>1
<1>5. r \in Surjection(S, 1 .. c)
  <2>1. r \in Injection(S, 1 .. c)
    <3>1. r \in [S -> 1 .. c]
      BY <1>2
    <3> HIDE DEF r
    <3> QED
      BY <3>1, <1>4 DEF Injection, IsInjective
  <2>2. IsFiniteSet(1 .. c) /\ Cardinality(1 .. c) = c
    <3>1. \A a, b \in Int : IsFiniteSet(a .. b) /\ Cardinality(a .. b) = IF a > b THEN 0 ELSE b - a + 1
      BY FS_Interval
    <3> HIDE DEF c
    <3>2. Cardinality(1 .. c) = IF 1 > c THEN 0 ELSE c - 1 + 1
      BY <1>1, <3>1
    <3> QED
      BY <1>1, <3>1, <3>2
  <2> HIDE DEF r
  <2> QED
    BY <2>1, <2>2, FS_Injection
<1>6. \A n \in 1 .. c : \E x \in S : r[x] = n
  <2> HIDE DEF r
  <2> QED
    BY <1>5 DEF Surjection
<1>7. \A n \in 1 .. c : Place(S, n) \in S /\ r[Place(S, n)] = n
  <2> TAKE n \in 1 .. c
  <2>1. PICK x \in S : Cardinality(B(x)) = n
    BY <1>6
  <2>2. Place(S, n) = CHOOSE i \in S : Cardinality(B(i)) = n
    BY DEF Place
  <2> HIDE DEF B
  <2>3. Place(S, n) \in S /\ Cardinality(B(Place(S, n))) = n
    BY <2>1, <2>2, Zenon
  <2> QED
    BY <2>3
<1> HIDE DEF r
<1>8. \A m, n \in 1 .. c : m < n => Place(S, m) < Place(S, n)
  <2> TAKE m, n \in 1 .. c
  <2> HAVE m < n
  <2> DEFINE x == Place(S, m)
             y == Place(S, n)
  <2>1. x \in S /\ y \in S /\ r[x] = m /\ r[y] = n
    BY <1>7
  <2>2. x \in Nat /\ y \in Nat
    BY <2>1
  <2>3. y < x => n < m
    BY <1>3, <2>1
  <2>4. x # y
    BY <1>1, <2>1
  <2> HIDE DEF x, y, c
  <2>5. ~ (n < m)
    BY <1>1
  <2>6. x < y
    BY <2>2, <2>3, <2>4, <2>5
  <2> QED
    BY <2>6 DEF x, y
<1>9. \A x \in S : \E n \in 1 .. c : Place(S, n) = x
  BY <1>2, <1>4, <1>7
<1> QED
  BY <1>7, <1>8, <1>9 DEF Enumerated

\* r is log without the lines of the groups that are gone.
Filtered(r, log, gone) ==
  \E p \in [1 .. Len(r) -> DOMAIN log] :
    /\ \A m, n \in 1 .. Len(r) : m < n => p[m] < p[n]
    /\ \A n \in 1 .. Len(r) : r[n] = log[p[n]] /\ log[p[n]].group \notin gone
    /\ \A i \in DOMAIN log : log[i].group \notin gone => \E n \in 1 .. Len(r) : p[n] = i

LEMMA KeptLines ==
  ASSUME NEW L, NEW log \in Seq(L), NEW gone, NEW r, r = WithoutGroups(log, gone)
  PROVE  r \in Seq(L) /\ Filtered(r, log, gone)
<1> DEFINE S == {i \in DOMAIN log : log[i].group \notin gone}
           c == Cardinality(S)
           p == [n \in 1 .. c |-> Place(S, n)]
<1>1. DOMAIN log = 1 .. Len(log) /\ Len(log) \in Nat
  BY LenProperties
<1>2. S \in SUBSET Nat /\ IsFiniteSet(S) /\ c \in Nat
  <2>1. \A a, b \in Int : IsFiniteSet(a .. b)
    BY FS_Interval
  <2>2. IsFiniteSet(1 .. Len(log))
    BY <1>1, <2>1
  <2>3. IsFiniteSet(S)
    BY <1>1, <2>2, FS_Subset
  <2> QED
    BY <1>1, <2>3, FS_CardinalityType
<1>3. Enumerated(S)
  <2> HIDE DEF S
  <2> QED
    BY <1>2, PlaceNumbers
<1>4. r = [n \in 1 .. c |-> log[Place(S, n)]]
  BY DEF WithoutGroups, LinesAt
<1>5. \A n \in 1 .. c : Place(S, n) \in S
  BY <1>3 DEF Enumerated
<1>6. \A n \in 1 .. c : log[Place(S, n)] \in L
  BY <1>1, <1>5
<1>7. r \in Seq(L) /\ Len(r) = c
  <2> HIDE DEF S, c
  <2> QED
    BY <1>2, <1>4, <1>6
<1>8. p \in [1 .. Len(r) -> DOMAIN log]
  BY <1>5, <1>7
<1>9. \A n \in 1 .. Len(r) : r[n] = log[p[n]] /\ log[p[n]].group \notin gone
  BY <1>4, <1>5, <1>7
<1>10. \A i \in DOMAIN log : log[i].group \notin gone => \E n \in 1 .. Len(r) : p[n] = i
  BY <1>3, <1>7 DEF Enumerated
<1>11. \A m, n \in 1 .. Len(r) : m < n => p[m] < p[n]
  BY <1>3, <1>7 DEF Enumerated
<1> HIDE DEF p
<1> QED
  BY <1>7, <1>8, <1>9, <1>10, <1>11 DEF Filtered

-----------------------------------------------------------------------------
(* Groups of several lines.                                                *)

\* A line continues a group or starts one above all groups before it.
Upward(log) ==
  \A j \in DOMAIN log :
    \/ \E i \in 1 .. j - 1 : log[i].group = log[j].group
    \/ \A i \in 1 .. j - 1 : log[i].group < log[j].group

\* u is the highest group of the log.
Highest(log, u) == u \in Groups(log) /\ \A g \in Groups(log) : g <= u

LEMMA HighestGroup ==
  ASSUME NEW L, NEW log \in Seq(L), log # <<>>, \A i \in DOMAIN log : log[i].group \in Nat
  PROVE  \E u \in Nat : Highest(log, u)
<1> DEFINE n == Len(log)
           Bound(b, k) == \A i \in 1 .. k : log[i].group <= b
<1>1. n \in Nat /\ n # 0 /\ DOMAIN log = 1 .. n
  BY LenProperties, EmptySeq
<1>2. \E b \in Nat : Bound(b, n)
  <2> DEFINE T == {k \in 0 .. n : \A b \in Nat : ~ Bound(b, k)}
  <2> SUFFICES ASSUME T # {} PROVE FALSE
    BY <1>1
  <2>1. T \in SUBSET Nat
    BY <1>1
  <2> HIDE DEF T
  <2>2. PICK k \in T : \A y \in T : k <= y
    BY <2>1, Least
  <2>3. k \in 0 .. n /\ \A b \in Nat : ~ Bound(b, k)
    BY <2>2 DEF T
  <2>4. k # 0
    <3>1. Bound(0, 0)
      OBVIOUS
    <3> QED
      BY <2>3, <3>1
  <2>5. k - 1 \in 0 .. n /\ k - 1 \notin T
    BY <1>1, <2>2, <2>3, <2>4
  <2>6. PICK b \in Nat : Bound(b, k - 1)
    BY <2>5 DEF T
  <2>7. k \in 1 .. n /\ log[k].group \in Nat
    BY <1>1, <2>3, <2>4
  <2> DEFINE g == log[k].group
             m == IF g <= b THEN b ELSE g
  <2>8. m \in Nat /\ b <= m /\ g <= m
    BY <2>7
  <2>9. Bound(m, k)
    <3> SUFFICES ASSUME NEW i \in 1 .. k PROVE log[i].group <= m
      OBVIOUS
    <3>1. CASE i = k
      BY <2>8, <3>1
    <3>2. CASE i # k
      <4>1. i \in 1 .. k - 1 /\ log[i].group \in Nat
        BY <1>1, <2>7, <3>2
      <4>2. log[i].group <= b
        BY <2>6, <4>1
      <4> HIDE DEF m
      <4> QED
        BY <2>8, <4>1, <4>2
    <3> QED
      BY <3>1, <3>2
  <2> QED
    BY <2>3, <2>8, <2>9
<1> DEFINE U == {b \in Nat : Bound(b, n)}
<1>3. PICK u \in U : \A b \in U : u <= b
  <2>1. U \in SUBSET Nat /\ U # {}
    BY <1>2
  <2> HIDE DEF U
  <2> QED
    BY <2>1, Least
<1>4. u \in Nat /\ Bound(u, n)
  BY <1>3
<1>5. u \in Groups(log)
  <2> SUFFICES ASSUME \A i \in 1 .. n : log[i].group # u PROVE FALSE
    BY <1>1 DEF Groups
  <2>1. \A i \in 1 .. n : log[i].group \in Nat /\ log[i].group < u
    BY <1>1, <1>4
  <2>2. u # 0
    BY <1>1, <2>1
  <2>3. u - 1 \in Nat /\ Bound(u - 1, n)
    BY <1>4, <2>1, <2>2
  <2>4. u <= u - 1
    BY <1>3, <2>3
  <2> QED
    BY <1>4, <2>4
<1> QED
  BY <1>1, <1>4, <1>5 DEF Highest, Groups

LEMMA FirstLine ==
  ASSUME NEW L, NEW log \in Seq(L), NEW g \in Groups(log)
  PROVE  /\ FirstAt(log, g) \in DOMAIN log /\ log[FirstAt(log, g)].group = g
         /\ \A j \in 1 .. FirstAt(log, g) - 1 : log[j].group # g
<1> DEFINE T == {i \in DOMAIN log : log[i].group = g}
           P(i) == log[i].group = g /\ \A j \in 1 .. i - 1 : log[j].group # g
<1>1. DOMAIN log = 1 .. Len(log) /\ Len(log) \in Nat
  BY LenProperties
<1>2. T \in SUBSET Nat /\ T # {}
  BY <1>1 DEF Groups
<1>3. PICK i \in T : \A y \in T : i <= y
  <2> HIDE DEF T
  <2> QED
    BY <1>2, Least
<1>4. i \in DOMAIN log /\ P(i)
  BY <1>1, <1>3
<1>5. FirstAt(log, g) = CHOOSE x \in DOMAIN log : P(x)
  BY DEF FirstAt
<1> HIDE DEF P
<1>6. FirstAt(log, g) \in DOMAIN log /\ P(FirstAt(log, g))
  BY <1>4, <1>5, Zenon
<1> QED
  BY <1>6 DEF P

\* The last line of a group.
IsLast(log, i) == \A j \in DOMAIN log : j > i => log[j].group # log[i].group

LEMMA LastLine ==
  ASSUME NEW L, NEW log \in Seq(L), NEW g \in Groups(log)
  PROVE  \E i \in DOMAIN log : log[i].group = g /\ IsLast(log, i)
<1> DEFINE n == Len(log)
           T == {k \in 0 .. n : n - k \in DOMAIN log /\ log[n - k].group = g}
<1>1. DOMAIN log = 1 .. n /\ n \in Nat
  BY LenProperties
<1>2. T \in SUBSET Nat /\ T # {}
  <2>1. PICK i \in 1 .. n : log[i].group = g
    BY <1>1 DEF Groups
  <2>2. n - i \in 0 .. n /\ n - (n - i) = i
    BY <1>1
  <2>3. n - i \in T
    BY <1>1, <2>1, <2>2
  <2>4. T \in SUBSET Nat
    BY <1>1
  <2> HIDE DEF T
  <2> QED
    BY <2>3, <2>4
<1>3. PICK k \in T : \A y \in T : k <= y
  <2> HIDE DEF T
  <2> QED
    BY <1>2, Least
<1>4. n - k \in DOMAIN log /\ log[n - k].group = g
  BY <1>3
<1>5. IsLast(log, n - k)
  <2> SUFFICES ASSUME NEW j \in DOMAIN log, j > n - k, log[j].group = g PROVE FALSE
    BY <1>4 DEF IsLast
  <2>1. n - j \in 0 .. n /\ n - (n - j) = j
    BY <1>1
  <2>2. n - j \in T
    BY <2>1
  <2>3. k <= n - j
    BY <1>3, <2>2
  <2> QED
    BY <1>1, <1>3, <2>3
<1> QED
  BY <1>4, <1>5

LEMMA GroupsFinite ==
  ASSUME NEW L, NEW log \in Seq(L)
  PROVE  IsFiniteSet(Groups(log)) /\ IsFiniteSet(DOMAIN log)
<1>1. DOMAIN log = 1 .. Len(log) /\ Len(log) \in Nat
  BY LenProperties
<1>2. IsFiniteSet(1 .. Len(log))
  <2>1. \A a, b \in Int : IsFiniteSet(a .. b)
    BY FS_Interval
  <2> QED
    BY <1>1, <2>1
<1> DEFINE f == [i \in DOMAIN log |-> log[i].group]
<1>3. f \in Surjection(DOMAIN log, Groups(log))
  BY DEF Surjection, Groups
<1> QED
  BY <1>1, <1>2, <1>3, FS_Surjection

\* Compaction takes the lowest groups and never all of them.
DropsLowest(log, D) ==
  /\ \A g \in D, h \in Groups(log) \ D : g < h
  /\ log # <<>> => Groups(log) \ D # {}

LEMMA DropsOldest ==
  ASSUME NEW L, NEW log \in Seq(L), NEW keep \in Int, Upward(log),
         \A i \in DOMAIN log : log[i].group \in Nat, NEW D, D = DroppedGroups(log, keep)
  PROVE  D \subseteq Groups(log) /\ DropsLowest(log, D)
<1> DEFINE F(g) == FirstAt(log, g)
           H(g) == {h \in Groups(log) : F(h) >= F(g)}
<1>1. DOMAIN log = 1 .. Len(log) /\ Len(log) \in Nat
  BY LenProperties
<1>2. \A g \in Groups(log) : /\ F(g) \in 1 .. Len(log) /\ log[F(g)].group = g
                             /\ \A j \in 1 .. F(g) - 1 : log[j].group # g
  BY <1>1, FirstLine
<1>3. D = {g \in Groups(log) : keep > 0 /\ Cardinality(H(g)) > keep}
  BY DEF DroppedGroups
<1>4. \A g, h \in Groups(log) : F(g) < F(h) => g < h
  <2> TAKE g, h \in Groups(log)
  <2> HAVE F(g) < F(h)
  <2> DEFINE a == F(g)
             b == F(h)
  <2>1. a \in 1 .. Len(log) /\ b \in 1 .. Len(log) /\ a < b /\ log[a].group = g /\ log[b].group = h
    BY <1>2
  <2>2. \A j \in 1 .. b - 1 : log[j].group # h
    BY <1>2
  <2> HIDE DEF a, b, F
  <2>3. a \in 1 .. b - 1
    BY <1>1, <2>1
  <2> QED
    BY <1>1, <2>1, <2>2, <2>3 DEF Upward
<1>5. \A g \in Groups(log) : g \in Nat /\ IsFiniteSet(H(g)) /\ Cardinality(H(g)) \in Nat
  <2> TAKE g \in Groups(log)
  <2>1. IsFiniteSet(Groups(log))
    BY GroupsFinite
  <2>2. IsFiniteSet(H(g))
    BY <2>1, FS_Subset
  <2> HIDE DEF H
  <2> QED
    BY <2>2, FS_CardinalityType DEF Groups
<1>6. ASSUME NEW g \in D, NEW h \in Groups(log) \ D
      PROVE  g < h
  <2>1. g \in Groups(log) /\ h \in Groups(log) /\ g # h
    BY <1>3
  <2>2. F(g) \in Int /\ F(h) \in Int
    BY <1>1, <1>2, <2>1
  <2>3. F(g) # F(h)
    BY <1>2, <2>1
  <2>4. ASSUME F(h) < F(g) PROVE FALSE
    <3>1. H(g) \subseteq H(h)
      <4>1. \A x \in Groups(log) : F(x) \in Int
        BY <1>1, <1>2
      <4> HIDE DEF F
      <4> QED
        BY <2>2, <2>4, <4>1
    <3>2. Cardinality(H(g)) <= Cardinality(H(h))
      <4> HIDE DEF H
      <4> QED
        BY <1>5, <2>1, <3>1, FS_Subset
    <3>3. keep > 0 /\ Cardinality(H(g)) > keep /\ ~ (Cardinality(H(h)) > keep)
      <4> HIDE DEF H
      <4> QED
        BY <1>3
    <3>4. Cardinality(H(g)) \in Nat /\ Cardinality(H(h)) \in Nat
      BY <1>5, <2>1
    <3> HIDE DEF H
    <3> QED
      BY <3>2, <3>3, <3>4
  <2> HIDE DEF F
  <2>5. F(g) < F(h)
    BY <2>2, <2>3, <2>4
  <2> QED
    BY <1>4, <2>1, <2>5
<1>7. ASSUME log # <<>> PROVE Groups(log) \ D # {}
  <2>1. PICK u \in Nat : Highest(log, u)
    BY <1>7, HighestGroup
  <2>2. u \in Groups(log) /\ \A g \in Groups(log) : g <= u
    BY <2>1 DEF Highest
  <2>3. H(u) = {u}
    <3>1. \A h \in Groups(log) : F(h) >= F(u) => h = u
      <4> TAKE h \in Groups(log)
      <4> HAVE F(h) >= F(u)
      <4>1. F(h) \in Int /\ F(u) \in Int /\ h \in Nat
        <5>1. \A x \in Groups(log) : F(x) \in Int
          BY <1>1, <1>2
        <5> HIDE DEF F, H
        <5> QED
          BY <1>5, <2>2, <5>1
      <4>2. CASE F(h) = F(u)
        BY <1>2, <2>2, <4>2
      <4>3. CASE F(h) # F(u)
        <5>1. F(u) < F(h)
          <6> HIDE DEF F
          <6> QED
            BY <4>1, <4>3
        <5>2. u < h /\ h <= u
          BY <1>4, <2>2, <5>1
        <5> QED
          BY <4>1, <5>2
      <4> QED
        BY <4>2, <4>3
    <3>2. F(u) >= F(u)
      <4>1. F(u) \in Int
        BY <1>1, <1>2, <2>2
      <4> HIDE DEF F
      <4> QED
        BY <4>1
    <3> HIDE DEF F
    <3> QED
      BY <2>2, <3>1, <3>2
  <2>4. Cardinality(H(u)) = 1
    BY <2>3, FS_Singleton
  <2> HIDE DEF H
  <2>5. ~ (keep > 0 /\ Cardinality(H(u)) > keep)
    BY <2>4
  <2> QED
    BY <1>3, <2>2, <2>5
<1> QED
  BY <1>3, <1>6, <1>7 DEF DropsLowest
=============================================================================
