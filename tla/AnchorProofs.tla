----------------------------- MODULE AnchorProofs -----------------------------
(***************************************************************************)
(* Proofs about the anchor streams: what one stream guarantees whoever     *)
(* uses it, and on top of it the key life-cycle ledger, the attestation of *)
(* decisions and the anchors of the publications.                          *)
(***************************************************************************)
EXTENDS KeyLifecycle, DecisionAttest, ChainAnchor, LogTheorems

-----------------------------------------------------------------------------
(* One stream.  F is the set of facts its producer asks to be witnessed.   *)

States == {"pending", "anchored", "unanchored"}
Entries(F) == [group : Nat \ {0}, fact : F, state : States, attempts : Nat]
Works(F) == [step : {"append", "write", "compact", "deliver"}, entry : Entries(F),
             fresh : BOOLEAN, todo : Seq(Entries(F))]

StreamTyped(F) ==
  /\ alog \in Seq(Entries(F) \union {Torn})
  /\ witness \in SUBSET [seq : Nat \ {0}, fact : F]
  /\ dispatch \in Threads \union {Nobody}
  /\ busy \in [Threads -> {Idle} \union Works(F)]
  /\ faults \in Nat
  /\ evicted \in SUBSET Nat

\* Only the holder of the mutex is at work.
Exclusive == \A t \in Threads : busy[t] # Idle => dispatch = t

\* The lines of a group carry one fact.
OneFact(log) == \A i, j \in DOMAIN log : log[i].group = log[j].group => log[i].fact = log[j].fact

\* What the witness holds is on record, or older than all that is.
OnRecord(log, w) ==
  \/ \E i \in DOMAIN log : log[i].group = w.seq /\ log[i].fact = w.fact
  \/ log # <<>> /\ \A i \in DOMAIN log : w.seq < log[i].group

\* The entry's number is above all numbers used.
Unused(log, W, e) == (\A i \in DOMAIN log : log[i].group < e.group) /\ \A w \in W : w.seq < e.group

\* The entry's group is on record and pending.
Open(log, e) ==
  \E i \in DOMAIN log : /\ IsLast(log, i) /\ log[i].group = e.group /\ log[i].fact = e.fact
                        /\ log[i].state = "pending"

\* The entries a sweep has still to work off.
Todo(log, todo) ==
  /\ \A i \in DOMAIN todo : Open(log, todo[i])
  /\ \A i, j \in DOMAIN todo : i # j => todo[i].group # todo[j].group

\* What a thread does agrees with the log.
Working(log, W, b) ==
  /\ b.step \in {"append", "write"} => Unused(log, W, b.entry) \/ Open(log, b.entry)
  /\ b.step = "compact" => \E i \in DOMAIN log : IsLast(log, i) /\ log[i] = b.entry
  /\ b.step = "deliver" => Open(log, b.entry)
  /\ b.fresh => b.entry.state = "pending"
  /\ Todo(log, b.todo)
  /\ \A i \in DOMAIN b.todo : b.todo[i].group # b.entry.group

SoundLog(log, W) == OneFact(log) /\ Upward(log) /\ \A w \in W : OnRecord(log, w)

StreamSound ==
  Classified(alog) /\ evicted = {} =>
    /\ SoundLog(alog, witness)
    /\ \A t \in Threads : busy[t] # Idle => Working(alog, witness, busy[t])

StreamInv(F) == StreamTyped(F) /\ Exclusive /\ ~ Ambiguous /\ StreamSound

-----------------------------------------------------------------------------
LEMMA NotTorn ==
  ASSUME NEW F, NEW e \in Entries(F)
  PROVE  e # Torn /\ e.group \in Nat /\ e.group > 0
BY DEF Entries, Torn

LEMMA IdleIsNoWork ==
  ASSUME NEW F, NEW b \in Works(F)
  PROVE  b # Idle /\ b.step # "idle"
BY DEF Works, Idle

LEMMA LatestIsLast ==
  ASSUME NEW L, NEW log \in Seq(L), NEW i \in DOMAIN log, IsLast(log, i)
  PROVE  LastAt(log, log[i].group) = i /\ Latest(log, log[i].group) = log[i]
<1> DEFINE g == log[i].group
           P(x) == log[x].group = g /\ \A j \in x + 1 .. Len(log) : log[j].group # g
<1>1. DOMAIN log = 1 .. Len(log) /\ Len(log) \in Nat
  BY LenProperties
<1>2. \A x \in DOMAIN log : P(x) <=> x = i
  <2> TAKE x \in DOMAIN log
  <2>1. P(i)
    BY <1>1 DEF IsLast
  <2>2. ASSUME P(x), x # i PROVE FALSE
    <3>1. CASE x < i
      <4>1. i \in x + 1 .. Len(log)
        BY <1>1, <3>1
      <4> QED
        BY <2>2, <4>1
    <3>2. CASE x > i
      BY <2>2, <3>2 DEF IsLast
    <3> QED
      BY <1>1, <2>2, <3>1, <3>2
  <2> QED
    BY <2>1, <2>2
<1>3. LastAt(log, g) = CHOOSE x \in DOMAIN log : P(x)
  BY DEF LastAt
<1> HIDE DEF P
<1>4. LastAt(log, g) = i
  BY <1>2, <1>3
<1> QED
  BY <1>4 DEF Latest

LEMMA LatestExists ==
  ASSUME NEW L, NEW log \in Seq(L), NEW g \in Groups(log)
  PROVE  \E i \in DOMAIN log : log[i].group = g /\ IsLast(log, i) /\ Latest(log, g) = log[i]
BY LastLine, LatestIsLast

LEMMA NoConflict ==
  ASSUME NEW log, OneFact(log)
  PROVE  Conflicts(log) = {} /\ Seqs(log) = Groups(log)
BY DEF OneFact, Conflicts, Seqs, Groups

LEMMA GreatestIs ==
  ASSUME NEW S \in SUBSET Nat, S # {}, NEW u \in Nat, \A x \in S : x <= u
  PROVE  Max(S) \in S /\ \A x \in S : x <= Max(S)
<1> DEFINE T == {k \in 0 .. u : u - k \in S}
           P(x) == \A y \in S : x >= y
<1>1. T \in SUBSET Nat /\ T # {}
  <2>1. PICK x \in S : TRUE
    OBVIOUS
  <2>2. u - x \in 0 .. u /\ u - (u - x) = x
    BY <2>1
  <2>3. u - x \in T
    BY <2>1, <2>2
  <2>4. T \in SUBSET Nat
    OBVIOUS
  <2> HIDE DEF T
  <2> QED
    BY <2>3, <2>4
<1>2. PICK k \in T : \A y \in T : k <= y
  <2> HIDE DEF T
  <2> QED
    BY <1>1, Least
<1>3. u - k \in S /\ k \in 0 .. u
  BY <1>2
<1>4. P(u - k)
  <2> SUFFICES ASSUME NEW y \in S PROVE u - k >= y
    OBVIOUS
  <2>1. u - y \in 0 .. u /\ u - (u - y) = y
    OBVIOUS
  <2>2. u - y \in T
    BY <2>1
  <2>3. k <= u - y
    BY <1>2, <2>2
  <2> QED
    BY <1>3, <2>3
<1>5. Max(S) = CHOOSE x \in S : P(x)
  BY DEF Max
<1>6. Max(S) \in S /\ P(Max(S))
  <2> HIDE DEF P
  <2> QED
    BY <1>3, <1>4, <1>5, Zenon
<1>7. Max(S) \in Nat
  BY <1>6
<1> QED
  BY <1>6, <1>7

LEMMA MaxIs ==
  ASSUME NEW S \in SUBSET Nat, NEW u \in S, \A x \in S : x <= u
  PROVE  Max(S) = u
<1> DEFINE m == Max(S)
<1>1. m \in S /\ \A x \in S : x <= m
  BY GreatestIs
<1> HIDE DEF m
<1>2. m \in Nat /\ u \in Nat /\ u <= m /\ m <= u
  BY <1>1
<1>3. m = u
  BY <1>2
<1> QED
  BY <1>3 DEF m

LEMMA LeastIs ==
  ASSUME NEW S \in SUBSET Nat, S # {}
  PROVE  Min(S) \in S /\ \A x \in S : Min(S) <= x
<1>1. PICK x \in S : \A y \in S : x <= y
  BY Least
<1> QED
  BY <1>1 DEF Min

LEMMA LinesAreEntries ==
  ASSUME NEW F, NEW log \in Seq(Entries(F) \union {Torn}), Classified(log)
  PROVE  /\ log \in Seq(Entries(F))
         /\ \A i \in DOMAIN log : log[i] \in Entries(F) /\ log[i].group \in Nat \ {0}
         /\ Groups(log) \subseteq Nat \ {0}
<1>1. DOMAIN log = 1 .. Len(log) /\ Len(log) \in Nat
  BY LenProperties
<1>2. \A i \in DOMAIN log : log[i] \in Entries(F)
  BY <1>1 DEF Classified
<1>3. \A i \in DOMAIN log : log[i].group \in Nat \ {0}
  BY <1>2 DEF Entries
<1> QED
  BY <1>1, <1>2, <1>3 DEF Groups

LEMMA NextIsAbove ==
  ASSUME NEW F, NEW log \in Seq(Entries(F) \union {Torn}), Classified(log),
         NEW n, n = NextAnchorSeq(log)
  PROVE  n \in Nat \ {0} /\ \A g \in Seqs(log) : g < n
<1>1. Groups(log) \subseteq Nat \ {0} /\ \A i \in DOMAIN log : log[i].group \in Nat
  BY LinesAreEntries
<1>2. Seqs(log) \subseteq Groups(log)
  BY DEF Seqs
<1>3. CASE Seqs(log) = {}
  BY <1>3 DEF NextAnchorSeq
<1>4. CASE Seqs(log) # {}
  <2>1. log # <<>>
    BY <1>2, <1>4 DEF Groups
  <2>2. PICK u \in Nat : Highest(log, u)
    BY <1>1, <2>1, HighestGroup
  <2>3. Max(Seqs(log)) \in Seqs(log) /\ \A x \in Seqs(log) : x <= Max(Seqs(log))
    <3>1. Seqs(log) \in SUBSET Nat /\ \A x \in Seqs(log) : x <= u
      BY <1>1, <1>2, <2>2 DEF Highest
    <3> QED
      BY <1>4, <3>1, GreatestIs
  <2>4. n = Max(Seqs(log)) + 1
    BY <1>4 DEF NextAnchorSeq
  <2>5. Seqs(log) \subseteq Nat
    BY <1>1, <1>2
  <2> QED
    BY <2>3, <2>4, <2>5
<1> QED
  BY <1>3, <1>4

-----------------------------------------------------------------------------
(* What an append does to a sound log.                                     *)

\* r is log and the line x.
Longer(r, log, x) ==
  /\ DOMAIN log = 1 .. Len(log) /\ Len(log) \in Nat
  /\ DOMAIN r = 1 .. Len(log) + 1 /\ Len(r) = Len(log) + 1
  /\ r[Len(log) + 1] = x /\ \A i \in DOMAIN log : i \in DOMAIN r /\ r[i] = log[i]

LEMMA Lengthened ==
  ASSUME NEW L, NEW log \in Seq(L), NEW x \in L, NEW r, r = Appended(log, x)
  PROVE  r \in Seq(L) /\ Longer(r, log, x)
<1>1. DOMAIN log = 1 .. Len(log) /\ Len(log) \in Nat
  BY LenProperties
<1>2. r = Append(log, x)
  BY DEF Appended
<1> QED
  BY <1>1, <1>2, AppendProperties DEF Longer

LEMMA AppendSound ==
  ASSUME NEW F, NEW log \in Seq(Entries(F)), NEW x \in Entries(F), NEW W, W \in SUBSET [seq : Nat \ {0}, fact : F],
         SoundLog(log, W), Unused(log, W, x) \/ Open(log, x), NEW r, r = Appended(log, x)
  PROVE  /\ SoundLog(r, W)
         /\ \E i \in DOMAIN r : IsLast(r, i) /\ r[i] = x
         /\ \A e \in Entries(F) : Open(log, e) /\ e.group # x.group => Open(r, e)
<1> DEFINE n == Len(log)
<1>1. /\ r \in Seq(Entries(F)) /\ DOMAIN log = 1 .. n /\ n \in Nat /\ DOMAIN r = 1 .. n + 1
      /\ r[n + 1] = x /\ \A i \in DOMAIN log : i \in DOMAIN r /\ r[i] = log[i]
  <2>1. r \in Seq(Entries(F)) /\ Longer(r, log, x)
    BY Lengthened
  <2> QED
    BY <2>1 DEF Longer
<1> HIDE DEF n
<1>2. x.group \in Nat \ {0} /\ \A i \in DOMAIN log : log[i].group \in Nat \ {0}
  <2>1. \A i \in DOMAIN log : log[i] \in Entries(F)
    BY <1>1
  <2> QED
    BY <2>1 DEF Entries
<1>3. \A i \in DOMAIN r : i = n + 1 \/ i \in DOMAIN log
  BY <1>1
<1>4. \A i \in DOMAIN log : log[i].group = x.group => log[i].fact = x.fact
  <2>1. CASE Unused(log, W, x)
    BY <1>2, <2>1 DEF Unused
  <2>2. CASE Open(log, x)
    BY <2>2 DEF Open, SoundLog, OneFact
  <2> QED
    BY <2>1, <2>2
<1>5. OneFact(r)
  BY <1>1, <1>3, <1>4 DEF SoundLog, OneFact
<1>6. Upward(r)
  <2> SUFFICES ASSUME NEW j \in DOMAIN r
               PROVE  \/ \E i \in 1 .. j - 1 : r[i].group = r[j].group
                      \/ \A i \in 1 .. j - 1 : r[i].group < r[j].group
    BY DEF Upward
  <2>1. \A i \in 1 .. j - 1 : i \in DOMAIN log /\ r[i] = log[i]
    BY <1>1
  <2>2. CASE j \in DOMAIN log
    <3>1. r[j] = log[j]
      BY <1>1, <2>2
    <3> QED
      BY <2>1, <2>2, <3>1 DEF SoundLog, Upward
  <2>3. CASE j = n + 1
    <3>1. r[j] = x /\ j - 1 = n
      BY <1>1, <2>3
    <3>2. CASE Unused(log, W, x)
      BY <2>1, <3>1, <3>2 DEF Unused
    <3>3. CASE Open(log, x)
      BY <1>1, <2>1, <3>1, <3>3 DEF Open
    <3> QED
      BY <3>2, <3>3
  <2> QED
    BY <1>3, <2>2, <2>3
<1>7. ASSUME NEW w \in W PROVE OnRecord(r, w)
  <2>1. w.seq \in Nat /\ OnRecord(log, w)
    BY <1>7 DEF SoundLog
  <2>2. CASE \E i \in DOMAIN log : log[i].group = w.seq /\ log[i].fact = w.fact
    BY <1>1, <2>2 DEF OnRecord
  <2>3. CASE log # <<>> /\ \A i \in DOMAIN log : w.seq < log[i].group
    <3>1. 1 \in DOMAIN log
      BY <1>1, <2>3, EmptySeq DEF n
    <3>2. w.seq < x.group
      <4>1. CASE Unused(log, W, x)
        BY <1>2, <2>1, <2>3, <3>1, <4>1 DEF Unused
      <4>2. CASE Open(log, x)
        BY <2>3, <4>2 DEF Open
      <4> QED
        BY <4>1, <4>2
    <3>3. \A i \in DOMAIN r : w.seq < r[i].group
      BY <1>1, <1>3, <2>3, <3>2
    <3>4. r # <<>>
      BY <1>1, <3>1
    <3> QED
      BY <3>3, <3>4 DEF OnRecord
  <2> QED
    BY <2>1, <2>2, <2>3 DEF OnRecord
<1>8. n + 1 \in DOMAIN r /\ IsLast(r, n + 1)
  BY <1>1 DEF IsLast
<1>9. ASSUME NEW e \in Entries(F), Open(log, e), e.group # x.group
      PROVE  Open(r, e)
  <2>1. PICK i \in DOMAIN log : /\ IsLast(log, i) /\ log[i].group = e.group
                                /\ log[i].fact = e.fact /\ log[i].state = "pending"
    BY <1>9 DEF Open
  <2>2. IsLast(r, i)
    BY <1>1, <1>3, <1>9, <2>1 DEF IsLast
  <2> QED
    BY <1>1, <2>1, <2>2 DEF Open
<1> QED
  BY <1>1, <1>5, <1>6, <1>7, <1>8, <1>9 DEF SoundLog

-----------------------------------------------------------------------------
(* What a compaction does to a sound log.                                  *)

LEMMA CompactSound ==
  ASSUME NEW F, NEW log \in Seq(Entries(F)), NEW W, W \in SUBSET [seq : Nat \ {0}, fact : F],
         SoundLog(log, W), NEW D, D \subseteq Groups(log), DropsLowest(log, D),
         NEW r, r = WithoutGroups(log, D)
  PROVE  /\ r \in Seq(Entries(F))
         /\ SoundLog(r, W)
         /\ \A e \in Entries(F) : Open(log, e) /\ e.group \notin D => Open(r, e)
<1>1. r \in Seq(Entries(F)) /\ Filtered(r, log, D)
  BY KeptLines
<1>2. PICK p \in [1 .. Len(r) -> DOMAIN log] :
        /\ \A m, k \in 1 .. Len(r) : m < k => p[m] < p[k]
        /\ \A k \in 1 .. Len(r) : r[k] = log[p[k]] /\ log[p[k]].group \notin D
        /\ \A i \in DOMAIN log : log[i].group \notin D => \E k \in 1 .. Len(r) : p[k] = i
  BY <1>1 DEF Filtered
<1>3. /\ DOMAIN log = 1 .. Len(log) /\ Len(log) \in Nat /\ DOMAIN r = 1 .. Len(r) /\ Len(r) \in Nat
  BY <1>1, LenProperties
<1>4. \A k \in DOMAIN r : p[k] \in DOMAIN log /\ r[k] = log[p[k]]
  BY <1>2, <1>3
<1>5. OneFact(r)
  <2> SUFFICES ASSUME NEW i \in DOMAIN r, NEW j \in DOMAIN r, r[i].group = r[j].group
               PROVE  r[i].fact = r[j].fact
    BY DEF OneFact
  <2>1. /\ p[i] \in DOMAIN log /\ r[i] = log[p[i]]
        /\ p[j] \in DOMAIN log /\ r[j] = log[p[j]]
    BY <1>4
  <2> QED
    BY <2>1 DEF SoundLog, OneFact
<1>6. Upward(r)
  <2> SUFFICES ASSUME NEW j \in DOMAIN r
               PROVE  \/ \E i \in 1 .. j - 1 : r[i].group = r[j].group
                      \/ \A i \in 1 .. j - 1 : r[i].group < r[j].group
    BY DEF Upward
  <2>1. p[j] \in DOMAIN log /\ r[j] = log[p[j]] /\ log[p[j]].group \notin D
    BY <1>2, <1>3
  <2>2. \A i \in 1 .. j - 1 : i \in DOMAIN r /\ p[i] \in 1 .. p[j] - 1 /\ r[i] = log[p[i]]
    <3> TAKE i \in 1 .. j - 1
    <3>1. i \in DOMAIN r /\ i < j
      BY <1>3
    <3>2. p[i] < p[j] /\ p[i] \in DOMAIN log
      BY <1>2, <1>3, <3>1
    <3> QED
      BY <1>3, <1>4, <2>1, <3>1, <3>2
  <2>3. CASE \E i \in 1 .. p[j] - 1 : log[i].group = log[p[j]].group
    <3>1. PICK i \in 1 .. p[j] - 1 : log[i].group = log[p[j]].group
      BY <2>3
    <3>2. i \in DOMAIN log /\ i < p[j]
      BY <1>3, <2>1
    <3>3. PICK k \in 1 .. Len(r) : p[k] = i
      BY <1>2, <2>1, <3>1, <3>2
    <3>4. k < j
      <4>1. ~ (j < k) /\ j # k
        BY <1>2, <1>3, <2>1, <3>2, <3>3
      <4> QED
        BY <1>3, <4>1
    <3>5. k \in 1 .. j - 1 /\ r[k].group = r[j].group
      BY <1>3, <1>4, <2>1, <3>1, <3>3, <3>4
    <3> QED
      BY <3>5
  <2>4. CASE \A i \in 1 .. p[j] - 1 : log[i].group < log[p[j]].group
    BY <2>1, <2>2, <2>4
  <2> QED
    BY <2>1, <2>3, <2>4 DEF SoundLog, Upward
<1>7. \A i \in DOMAIN log : log[i].group \in Nat \ {0}
  <2>1. \A i \in DOMAIN log : log[i] \in Entries(F)
    BY <1>3
  <2> QED
    BY <2>1 DEF Entries
<1>8. log # <<>> => r # <<>>
  <2> SUFFICES ASSUME log # <<>> PROVE r # <<>>
    OBVIOUS
  <2>1. PICK h \in Groups(log) : h \notin D
    BY DEF DropsLowest
  <2>2. PICK i \in DOMAIN log : log[i].group = h
    BY DEF Groups
  <2>3. PICK k \in 1 .. Len(r) : p[k] = i
    BY <1>2, <2>1, <2>2
  <2> QED
    BY <1>3, <2>3
<1>9. ASSUME NEW w \in W PROVE OnRecord(r, w)
  <2>1. w.seq \in Nat /\ OnRecord(log, w)
    BY <1>9 DEF SoundLog
  <2>2. CASE \E i \in DOMAIN log : log[i].group = w.seq /\ log[i].fact = w.fact
    <3>1. PICK i \in DOMAIN log : log[i].group = w.seq /\ log[i].fact = w.fact
      BY <2>2
    <3>2. CASE w.seq \in D
      <4>1. log # <<>>
        BY <1>3, <3>1
      <4>2. ASSUME NEW k \in DOMAIN r PROVE w.seq < r[k].group
        <5>1. r[k].group \in Groups(log) \ D
          BY <1>2, <1>3, <1>4, <4>2 DEF Groups
        <5> QED
          BY <3>2, <5>1 DEF DropsLowest
      <4> QED
        BY <1>8, <4>1, <4>2 DEF OnRecord
    <3>3. CASE w.seq \notin D
      <4>1. PICK k \in 1 .. Len(r) : p[k] = i
        BY <1>2, <3>1, <3>3
      <4> QED
        BY <1>3, <1>4, <3>1, <4>1 DEF OnRecord
    <3> QED
      BY <3>2, <3>3
  <2>3. CASE log # <<>> /\ \A i \in DOMAIN log : w.seq < log[i].group
    BY <1>4, <1>8, <2>3 DEF OnRecord
  <2> QED
    BY <2>1, <2>2, <2>3 DEF OnRecord
<1>10. ASSUME NEW e \in Entries(F), Open(log, e), e.group \notin D
       PROVE  Open(r, e)
  <2>1. PICK i \in DOMAIN log : /\ IsLast(log, i) /\ log[i].group = e.group
                                /\ log[i].fact = e.fact /\ log[i].state = "pending"
    BY <1>10 DEF Open
  <2>2. PICK k \in 1 .. Len(r) : p[k] = i
    BY <1>2, <1>10, <2>1
  <2>3. k \in DOMAIN r /\ r[k] = log[i]
    BY <1>3, <1>4, <2>2
  <2>4. IsLast(r, k)
    <3> SUFFICES ASSUME NEW m \in DOMAIN r, m > k PROVE r[m].group # r[k].group
      BY DEF IsLast
    <3>1. p[m] \in DOMAIN log /\ p[m] > i /\ r[m] = log[p[m]]
      <4>1. p[k] < p[m]
        BY <1>2, <1>3
      <4> QED
        BY <1>3, <1>4, <2>2, <4>1
    <3> QED
      BY <2>1, <2>3, <3>1 DEF IsLast
  <2> QED
    BY <2>1, <2>3, <2>4 DEF Open
<1> QED
  BY <1>1, <1>5, <1>6, <1>9, <1>10 DEF SoundLog

-----------------------------------------------------------------------------
(* The steps of a thread.                                                  *)

LEMMA ContinueTyped ==
  ASSUME NEW F, NEW todo \in Seq(Entries(F))
  PROVE  Continue(todo) \in {Idle} \union Works(F)
<1>1. CASE todo = <<>>
  BY <1>1 DEF Continue
<1>2. CASE todo # <<>>
  <2> DEFINE e == Head(todo)
  <2>1. e \in Entries(F) /\ Tail(todo) \in Seq(Entries(F))
    BY <1>2, HeadTailProperties
  <2> HIDE DEF e
  <2>2. SweepStep(e) \in {"append", "deliver"}
    BY DEF SweepStep
  <2>3. SweepEntry(e) \in Entries(F)
    BY <2>1 DEF SweepEntry, Entries, States
  <2>4. Continue(todo) = [step |-> SweepStep(e), entry |-> SweepEntry(e), fresh |-> FALSE,
                          todo |-> Tail(todo)]
    BY <1>2 DEF Continue, e
  <2> QED
    BY <2>1, <2>2, <2>3, <2>4 DEF Works
<1> QED
  BY <1>1, <1>2

LEMMA ContinueWorks ==
  ASSUME NEW F, NEW todo \in Seq(Entries(F)), NEW log, NEW W, Todo(log, todo),
         NEW b, b = Continue(todo), b # Idle
  PROVE  Working(log, W, b)
<1>1. todo # <<>>
  BY DEF Continue
<1> DEFINE e == Head(todo)
           x == SweepEntry(e)
           rest == Tail(todo)
<1>2. /\ e \in Entries(F) /\ e = todo[1] /\ 1 \in DOMAIN todo /\ rest \in Seq(Entries(F))
      /\ \A i \in DOMAIN rest : i + 1 \in DOMAIN todo /\ rest[i] = todo[i + 1] /\ i \in Nat /\ i > 0
  <2>1. DOMAIN todo = 1 .. Len(todo) /\ Len(todo) \in Nat /\ Len(todo) # 0
    BY <1>1, LenProperties, EmptySeq
  <2>2. rest \in Seq(Entries(F)) /\ Len(rest) = Len(todo) - 1
    BY <1>1, HeadTailProperties
  <2>3. DOMAIN rest = 1 .. Len(rest)
    BY <2>2, LenProperties
  <2>4. \A i \in 1 .. Len(rest) : rest[i] = todo[i + 1]
    BY <1>1, <2>2, HeadTailProperties
  <2>5. e = todo[1] /\ e \in Entries(F)
    BY <1>1, HeadTailProperties
  <2> HIDE DEF rest, e
  <2> QED
    BY <2>1, <2>2, <2>3, <2>4, <2>5
<1>3. b = [step |-> SweepStep(e), entry |-> x, fresh |-> FALSE, todo |-> rest]
  BY <1>1 DEF Continue
<1>4. x.group = e.group /\ x.fact = e.fact
  <2> HIDE DEF e
  <2> QED
    BY <1>2 DEF SweepEntry, Entries
<1>5. Open(log, e)
  BY <1>2 DEF Todo
<1> HIDE DEF x, e, rest
<1>6. Open(log, x)
  BY <1>4, <1>5 DEF Open
<1>7. Todo(log, rest)
  <2>1. \A i \in DOMAIN rest : Open(log, rest[i])
    BY <1>2 DEF Todo
  <2>2. ASSUME NEW i \in DOMAIN rest, NEW j \in DOMAIN rest, i # j
        PROVE  rest[i].group # rest[j].group
    <3>1. i + 1 \in DOMAIN todo /\ j + 1 \in DOMAIN todo /\ i + 1 # j + 1
      BY <1>2, <2>2
    <3>2. rest[i] = todo[i + 1] /\ rest[j] = todo[j + 1]
      BY <1>2
    <3> QED
      BY <3>1, <3>2 DEF Todo
  <2> QED
    BY <2>1, <2>2 DEF Todo
<1>8. ASSUME NEW i \in DOMAIN rest PROVE rest[i].group # x.group
  <2>1. i + 1 \in DOMAIN todo /\ rest[i] = todo[i + 1] /\ i + 1 # 1
    BY <1>2
  <2> QED
    BY <1>2, <1>4, <2>1 DEF Todo
<1>9. b.step = SweepStep(e) /\ b.entry = x /\ b.fresh = FALSE /\ b.todo = rest
  BY <1>3
<1>10. b.step \in {"append", "deliver"}
  BY <1>9 DEF SweepStep
<1> QED
  BY <1>6, <1>7, <1>8, <1>9, <1>10 DEF Working

\* After a turn of t, only t may be at work.
Turned(F, t, next) ==
  /\ busy' \in [Threads -> {Idle} \union Works(F)]
  /\ dispatch' \in Threads \union {Nobody}
  /\ Exclusive'
  /\ \A u \in Threads : busy'[u] # Idle => u = t /\ busy'[u] = next

LEMMA TurnKeeps ==
  ASSUME NEW F, StreamTyped(F), Exclusive, NEW t \in Threads, busy[t] # Idle,
         NEW next \in {Idle} \union Works(F), busy' = [busy EXCEPT ![t] = next],
         dispatch' = dispatch \/ (next = Idle /\ dispatch' = Nobody)
  PROVE  Turned(F, t, next)
<1>1. dispatch = t
  BY DEF Exclusive
<1>2. \A u \in Threads : u # t => busy[u] = Idle
  BY <1>1 DEF Exclusive
<1>3. busy' \in [Threads -> {Idle} \union Works(F)] /\ busy'[t] = next
      /\ \A u \in Threads : u # t => busy'[u] = busy[u]
  BY DEF StreamTyped
<1>4. \A u \in Threads : busy'[u] # Idle => u = t /\ busy'[u] = next
  BY <1>2, <1>3
<1>5. Exclusive'
  BY <1>1, <1>4 DEF Exclusive
<1>6. dispatch' \in Threads \union {Nobody}
  BY DEF StreamTyped
<1> QED
  BY <1>3, <1>4, <1>5, <1>6 DEF Turned

LEMMA AfterTurn ==
  ASSUME NEW F, NEW t, NEW next, Turned(F, t, next),
         alog' \in Seq(Entries(F) \union {Torn}), witness' \in SUBSET [seq : Nat \ {0}, fact : F],
         faults' \in Nat, evicted' \in SUBSET Nat, ~ Ambiguous',
         Classified(alog') /\ evicted' = {} =>
           SoundLog(alog', witness') /\ (next # Idle => Working(alog', witness', next))
  PROVE  StreamInv(F)'
<1>1. StreamTyped(F)' /\ Exclusive'
  BY DEF Turned, StreamTyped
<1>2. StreamSound'
  <2> SUFFICES ASSUME Classified(alog'), evicted' = {}
               PROVE  SoundLog(alog', witness')
                      /\ \A u \in Threads : busy'[u] # Idle => Working(alog', witness', busy'[u])
    BY DEF StreamSound
  <2>1. \A u \in Threads : busy'[u] # Idle => busy'[u] = next
    BY DEF Turned
  <2> QED
    BY <2>1
<1> QED
  BY <1>1, <1>2 DEF StreamInv

\* A thread at work: what the invariant says of it.
LEMMA AtWork ==
  ASSUME NEW F, StreamInv(F), NEW t \in Threads, busy[t].step # "idle"
  PROVE  /\ busy[t] # Idle /\ busy[t] \in Works(F)
         /\ busy[t].entry \in Entries(F) /\ busy[t].todo \in Seq(Entries(F))
         /\ Classified(alog) /\ evicted = {} =>
              SoundLog(alog, witness) /\ Working(alog, witness, busy[t])
<1>1. busy[t] # Idle
  BY DEF Idle
<1>2. busy[t] \in Works(F)
  BY <1>1 DEF StreamInv, StreamTyped
<1>3. busy[t].entry \in Entries(F) /\ busy[t].todo \in Seq(Entries(F))
  BY <1>2 DEF Works
<1> QED
  BY <1>1, <1>2, <1>3 DEF StreamInv, StreamSound

LEMMA CheckAnchorKeeps ==
  ASSUME NEW F, StreamInv(F), NEW t \in Threads, CheckAnchor(t)
  PROVE  StreamInv(F)'
<1> DEFINE b == busy[t]
           next == IF AppendRefused(alog, b.entry) THEN Continue(b.todo)
                   ELSE [b EXCEPT !.step = "write"]
<1>1. b.step = "append" /\ UNCHANGED <<alog, witness, faults, evicted>>
  BY DEF CheckAnchor
<1>2. /\ b # Idle /\ b \in Works(F) /\ b.todo \in Seq(Entries(F))
      /\ Classified(alog) /\ evicted = {} => SoundLog(alog, witness) /\ Working(alog, witness, b)
  BY <1>1, AtWork
<1>3. busy' = [busy EXCEPT ![t] = next] /\ (dispatch' = dispatch \/ (next = Idle /\ dispatch' = Nobody))
  BY DEF CheckAnchor, Turn
<1>4. next \in {Idle} \union Works(F)
  <2>1. Continue(b.todo) \in {Idle} \union Works(F)
    BY <1>2, ContinueTyped
  <2>2. [b EXCEPT !.step = "write"] \in Works(F)
    BY <1>2 DEF Works
  <2> QED
    BY <2>1, <2>2
<1>5. Turned(F, t, next)
  <2> HIDE DEF next
  <2> QED
    BY <1>2, <1>3, <1>4, TurnKeeps DEF StreamInv
<1>6. ASSUME Classified(alog), evicted = {}, next # Idle PROVE Working(alog, witness, next)
  <2>1. Working(alog, witness, b)
    BY <1>2, <1>6
  <2>2. CASE next = Continue(b.todo)
    <3>1. Todo(alog, b.todo)
      BY <2>1 DEF Working
    <3> HIDE DEF next
    <3> QED
      BY <1>2, <1>6, <2>2, <3>1, ContinueWorks
  <2>3. CASE next = [b EXCEPT !.step = "write"]
    <3>1. /\ next.step = "write" /\ next.entry = b.entry /\ next.fresh = b.fresh
          /\ next.todo = b.todo
      BY <1>2, <2>3 DEF Works
    <3> HIDE DEF next
    <3> QED
      BY <1>1, <2>1, <3>1 DEF Working
  <2> QED
    BY <2>2, <2>3
<1>7. ~ Ambiguous'
  BY <1>1 DEF StreamInv, Ambiguous
<1> HIDE DEF next, b
<1> QED
  BY <1>1, <1>2, <1>5, <1>6, <1>7, AfterTurn DEF StreamInv, StreamTyped

\* An append to the log of a stream, whoever makes it.
LEMMA AppendTyped ==
  ASSUME NEW F, NEW log \in Seq(Entries(F) \union {Torn}), NEW x \in Entries(F) \union {Torn},
         NEW r, r = Append(log, x)
  PROVE  /\ r \in Seq(Entries(F) \union {Torn})
         /\ Classified(r) => Classified(log) /\ x # Torn
<1>1. r \in Seq(Entries(F) \union {Torn}) /\ Longer(r, log, x)
  BY Lengthened DEF Appended
<1>2. ASSUME Classified(r) PROVE Classified(log) /\ x # Torn
  <2>1. Len(log) + 1 \in DOMAIN r /\ r[Len(log) + 1] = x
    BY <1>1 DEF Longer
  <2>2. \A i \in DOMAIN log : i \in DOMAIN r /\ r[i] = log[i]
    BY <1>1 DEF Longer
  <2> QED
    BY <1>2, <2>1, <2>2 DEF Classified
<1> QED
  BY <1>1, <1>2

LEMMA AppendWorks ==
  ASSUME NEW F, StreamInv(F), NEW t \in Threads, busy[t].step = "write",
         alog' = Appended(alog, busy[t].entry), Classified(alog'), evicted = {}
  PROVE  /\ SoundLog(alog', witness)
         /\ \E i \in DOMAIN alog' : IsLast(alog', i) /\ alog'[i] = busy[t].entry
         /\ Todo(alog', busy[t].todo)
<1> DEFINE b == busy[t]
           e == b.entry
<1>1. /\ b # Idle /\ b \in Works(F) /\ e \in Entries(F) /\ b.todo \in Seq(Entries(F))
      /\ Classified(alog) /\ evicted = {} => SoundLog(alog, witness) /\ Working(alog, witness, b)
  BY AtWork
<1>2. alog \in Seq(Entries(F) \union {Torn}) /\ witness \in SUBSET [seq : Nat \ {0}, fact : F]
  BY DEF StreamInv, StreamTyped
<1>3. Classified(alog)
  <2>1. alog' = Append(alog, e)
    BY DEF Appended
  <2> HIDE DEF e
  <2> QED
    BY <1>1, <1>2, <2>1, AppendTyped
<1>4. SoundLog(alog, witness) /\ Working(alog, witness, b)
  BY <1>1, <1>3
<1>5. Unused(alog, witness, e) \/ Open(alog, e)
  BY <1>4 DEF Working
<1>6. alog \in Seq(Entries(F))
  BY <1>2, <1>3, LinesAreEntries
<1> HIDE DEF e, b
<1>7. /\ SoundLog(alog', witness)
      /\ \E i \in DOMAIN alog' : IsLast(alog', i) /\ alog'[i] = e
      /\ \A x \in Entries(F) : Open(alog, x) /\ x.group # e.group => Open(alog', x)
  <2>1. alog' = Appended(alog, e)
    BY DEF e, b
  <2> QED
    BY <1>1, <1>2, <1>4, <1>5, <1>6, <2>1, AppendSound
<1>8. Todo(alog', b.todo)
  <2>1. \A i \in DOMAIN b.todo : b.todo[i] \in Entries(F)
    BY <1>1
  <2>2. \A i \in DOMAIN b.todo : Open(alog, b.todo[i]) /\ b.todo[i].group # e.group
    BY <1>4 DEF Working, Todo, e
  <2>3. \A i \in DOMAIN b.todo : Open(alog', b.todo[i])
    BY <1>7, <2>1, <2>2
  <2> QED
    BY <1>4, <2>3 DEF Working, Todo
<1> QED
  BY <1>7, <1>8 DEF e, b

LEMMA AppendAnchorKeeps ==
  ASSUME NEW F, StreamInv(F), NEW t \in Threads, AppendAnchor(t)
  PROVE  StreamInv(F)'
<1> DEFINE b == busy[t]
           next == [b EXCEPT !.step = "compact"]
<1>1. /\ b.step = "write" /\ alog' = Appended(alog, b.entry)
      /\ UNCHANGED <<witness, dispatch, faults, evicted>>
  BY DEF AppendAnchor
<1>2. /\ b # Idle /\ b \in Works(F) /\ b.entry \in Entries(F) /\ b.todo \in Seq(Entries(F))
      /\ Classified(alog) /\ evicted = {} => SoundLog(alog, witness) /\ Working(alog, witness, b)
  BY <1>1, AtWork
<1>3. busy' = [busy EXCEPT ![t] = next]
  BY DEF AppendAnchor
<1>4. next \in Works(F)
  BY <1>2 DEF Works
<1>5. Turned(F, t, next)
  <2> HIDE DEF next
  <2> QED
    BY <1>1, <1>2, <1>3, <1>4, TurnKeeps DEF StreamInv
<1>6. alog' \in Seq(Entries(F) \union {Torn}) /\ (Classified(alog') => Classified(alog))
  <2>1. alog' = Append(alog, b.entry) /\ alog \in Seq(Entries(F) \union {Torn})
    BY <1>1 DEF Appended, StreamInv, StreamTyped
  <2> HIDE DEF b
  <2> QED
    BY <1>2, <2>1, AppendTyped
<1>7. ASSUME Classified(alog'), evicted = {}
      PROVE  SoundLog(alog', witness) /\ Working(alog', witness, next)
  <2>1. /\ SoundLog(alog', witness)
        /\ \E i \in DOMAIN alog' : IsLast(alog', i) /\ alog'[i] = b.entry
        /\ Todo(alog', b.todo)
    BY <1>1, <1>7, AppendWorks
  <2>2. /\ next.step = "compact" /\ next.entry = b.entry /\ next.fresh = b.fresh
        /\ next.todo = b.todo
    BY <1>2 DEF Works
  <2>3. Working(alog, witness, b)
    BY <1>2, <1>6, <1>7
  <2> HIDE DEF next
  <2> QED
    BY <2>1, <2>2, <2>3 DEF Working
<1>8. ~ Ambiguous'
  BY <1>1 DEF StreamInv, Ambiguous
<1> HIDE DEF next, b
<1> QED
  BY <1>1, <1>5, <1>6, <1>7, <1>8, AfterTurn DEF StreamInv, StreamTyped

LEMMA AppendAnchorFailsKeeps ==
  ASSUME NEW F, StreamInv(F), NEW t \in Threads, AppendAnchorFails(t)
  PROVE  StreamInv(F)'
<1> DEFINE b == busy[t]
           next == Continue(b.todo)
<1>1. /\ b.step = "write" /\ alog' \in {TornAppend(alog), Appended(alog, b.entry)}
      /\ faults' = faults + 1 /\ UNCHANGED <<witness, evicted>>
  BY DEF AppendAnchorFails
<1>2. /\ b # Idle /\ b.entry \in Entries(F) /\ b.todo \in Seq(Entries(F))
  BY <1>1, AtWork
<1>3. busy' = [busy EXCEPT ![t] = next] /\ (dispatch' = dispatch \/ (next = Idle /\ dispatch' = Nobody))
  BY DEF AppendAnchorFails, Turn
<1>4. next \in {Idle} \union Works(F)
  BY <1>2, ContinueTyped
<1>5. Turned(F, t, next)
  <2> HIDE DEF next
  <2> QED
    BY <1>2, <1>3, <1>4, TurnKeeps DEF StreamInv
<1>6. /\ alog' \in Seq(Entries(F) \union {Torn})
      /\ Classified(alog') => alog' = Appended(alog, b.entry)
  <2>1. alog \in Seq(Entries(F) \union {Torn})
    BY DEF StreamInv, StreamTyped
  <2> HIDE DEF b
  <2>2. CASE alog' = TornAppend(alog)
    BY <2>1, <2>2, AppendTyped DEF TornAppend
  <2>3. CASE alog' = Appended(alog, b.entry)
    BY <1>2, <2>1, <2>3, AppendTyped DEF Appended
  <2> QED
    BY <1>1, <2>2, <2>3
<1>7. ASSUME Classified(alog'), evicted = {}
      PROVE  SoundLog(alog', witness) /\ (next # Idle => Working(alog', witness, next))
  <2>1. SoundLog(alog', witness) /\ Todo(alog', b.todo)
    BY <1>1, <1>6, <1>7, AppendWorks
  <2> HIDE DEF b
  <2> QED
    BY <1>2, <2>1, ContinueWorks
<1>8. ~ Ambiguous'
  BY <1>1 DEF StreamInv, Ambiguous
<1>9. faults' \in Nat
  BY <1>1 DEF StreamInv, StreamTyped
<1> HIDE DEF next, b
<1> QED
  BY <1>1, <1>5, <1>6, <1>7, <1>8, <1>9, AfterTurn DEF StreamInv, StreamTyped

\* r is log without its oldest groups.
Shortened(r, log) ==
  \E D : D \subseteq Groups(log) /\ DropsLowest(log, D) /\ r = WithoutGroups(log, D)

\* A compaction that evicts only confirmed entries keeps what is pending.
LEMMA CompactOpen ==
  ASSUME NEW F, StreamInv(F), NEW t \in Threads, CompactAnchors(t), Classified(alog'), evicted' = {}
  PROVE  /\ Classified(alog) /\ evicted = {}
         /\ SoundLog(alog, witness) /\ Working(alog, witness, busy[t])
         /\ SoundLog(alog', witness)
         /\ \A e \in Entries(F) : Open(alog, e) => Open(alog', e)
         /\ alog' = alog \/ Shortened(alog', alog)
<1> USE StreamAssumption
<1> DEFINE b == busy[t]
           D == Evicted(alog)
<1>1. \/ alog' = alog /\ evicted' = evicted
      \/ /\ Classified(alog) /\ alog' = WithoutGroups(alog, D)
         /\ evicted' = evicted \union {s \in D : Latest(alog, s).state # "anchored"}
  <2>1. ~ CompactRefused(alog) => Classified(alog)
    BY DEF CompactRefused
  <2> QED
    BY <2>1 DEF CompactAnchors
<1>2. Classified(alog) /\ evicted = {}
  BY <1>1
<1>3. SoundLog(alog, witness) /\ Working(alog, witness, b)
  <2>1. b.step = "compact"
    BY DEF CompactAnchors
  <2> QED
    BY <1>2, <2>1, AtWork
<1>4. CASE alog' = alog
  BY <1>2, <1>3, <1>4
<1>5. CASE /\ alog' = WithoutGroups(alog, D)
           /\ evicted' = evicted \union {s \in D : Latest(alog, s).state # "anchored"}
  <2>1. \A s \in D : Latest(alog, s).state = "anchored"
    BY <1>5
  <2>2. /\ alog \in Seq(Entries(F)) /\ witness \in SUBSET [seq : Nat \ {0}, fact : F]
        /\ \A i \in DOMAIN alog : alog[i].group \in Nat
    BY <1>2, LinesAreEntries DEF StreamInv, StreamTyped
  <2>3. D \subseteq Groups(alog) /\ DropsLowest(alog, D)
    <3>1. Upward(alog)
      BY <1>3 DEF SoundLog
    <3>2. AnchorCapacity \in Int
      OBVIOUS
    <3>3. D = DroppedGroups(alog, AnchorCapacity)
      BY DEF Evicted
    <3> HIDE DEF D
    <3> QED
      BY <2>2, <3>1, <3>2, <3>3, DropsOldest
  <2>4. ASSUME NEW e \in Entries(F), Open(alog, e) PROVE e.group \notin D
    <3>1. PICK i \in DOMAIN alog : /\ IsLast(alog, i) /\ alog[i].group = e.group
                                   /\ alog[i].state = "pending"
      BY <2>4 DEF Open
    <3>2. Latest(alog, e.group).state = "pending"
      BY <2>2, <3>1, LatestIsLast
    <3> QED
      BY <2>1, <3>2
  <2> HIDE DEF D
  <2>5. SoundLog(alog', witness) /\ \A e \in Entries(F) : Open(alog, e) /\ e.group \notin D => Open(alog', e)
    BY <1>3, <1>5, <2>2, <2>3, CompactSound
  <2>6. Shortened(alog', alog)
    BY <1>5, <2>3 DEF Shortened
  <2> QED
    BY <1>2, <1>3, <2>4, <2>5, <2>6
<1> QED
  BY <1>1, <1>4, <1>5

LEMMA CompactAnchorsKeeps ==
  ASSUME NEW F, StreamInv(F), NEW t \in Threads, CompactAnchors(t)
  PROVE  StreamInv(F)'
<1> USE StreamAssumption
<1> DEFINE b == busy[t]
           D == Evicted(alog)
           go == b.fresh /\ ~ CompactRefused(alog)
           deliver == [b EXCEPT !.step = "deliver"]
           next == IF go THEN deliver ELSE Continue(b.todo)
<1>1. b.step = "compact" /\ UNCHANGED <<witness, faults>>
  BY DEF CompactAnchors
<1>2. /\ b # Idle /\ b \in Works(F) /\ b.entry \in Entries(F) /\ b.todo \in Seq(Entries(F))
      /\ Classified(alog) /\ evicted = {} => SoundLog(alog, witness) /\ Working(alog, witness, b)
  BY <1>1, AtWork
<1>3. busy' = [busy EXCEPT ![t] = next] /\ (dispatch' = dispatch \/ (next = Idle /\ dispatch' = Nobody))
  BY DEF CompactAnchors, Turn
<1>4. next \in {Idle} \union Works(F)
  <2>1. Continue(b.todo) \in {Idle} \union Works(F)
    BY <1>2, ContinueTyped
  <2>2. deliver \in Works(F)
    BY <1>2 DEF Works
  <2> QED
    BY <2>1, <2>2
<1>5. Turned(F, t, next)
  <2> HIDE DEF next
  <2> QED
    BY <1>2, <1>3, <1>4, TurnKeeps DEF StreamInv
<1>6. \/ alog' = alog /\ evicted' = evicted
      \/ /\ Classified(alog) /\ alog' = WithoutGroups(alog, D)
         /\ evicted' = evicted \union {s \in D : Latest(alog, s).state # "anchored"}
  <2>1. ~ CompactRefused(alog) => Classified(alog)
    BY DEF CompactRefused
  <2> QED
    BY <2>1 DEF CompactAnchors
<1>7. alog \in Seq(Entries(F) \union {Torn}) /\ witness \in SUBSET [seq : Nat \ {0}, fact : F]
      /\ evicted \in SUBSET Nat
  BY DEF StreamInv, StreamTyped
<1>8. ASSUME Classified(alog), alog' = WithoutGroups(alog, D)
      PROVE  alog' \in Seq(Entries(F)) /\ Classified(alog')
  <2>1. alog \in Seq(Entries(F))
    BY <1>7, <1>8, LinesAreEntries
  <2>2. alog' \in Seq(Entries(F))
    <3> HIDE DEF D
    <3> QED
      BY <1>8, <2>1, KeptLines
  <2>3. \A i \in DOMAIN alog' : alog'[i] \in Entries(F)
    BY <2>2, LenProperties
  <2>4. \A i \in DOMAIN alog' : alog'[i] # Torn
    BY <2>3, NotTorn
  <2> QED
    BY <2>2, <2>4 DEF Classified
<1>9. alog' \in Seq(Entries(F) \union {Torn}) /\ (Classified(alog') => Classified(alog))
  <2>1. Seq(Entries(F)) \subseteq Seq(Entries(F) \union {Torn})
    BY SeqMonotonic
  <2> QED
    BY <1>6, <1>7, <1>8, <2>1
<1>10. evicted' \in SUBSET Nat
  <2>1. CASE evicted' = evicted
    BY <1>7, <2>1
  <2>2. CASE Classified(alog) /\ evicted' = evicted \union {s \in D : Latest(alog, s).state # "anchored"}
    <3>1. D \subseteq Groups(alog)
      BY DEF Evicted, DroppedGroups
    <3>2. Groups(alog) \subseteq Nat
      BY <1>7, <2>2, LinesAreEntries
    <3> QED
      BY <1>7, <2>2, <3>1, <3>2
  <2> QED
    BY <1>6, <2>1, <2>2
<1>11. ASSUME Classified(alog'), evicted' = {}
       PROVE  /\ SoundLog(alog', witness)
              /\ \A e \in Entries(F) : Open(alog, e) => Open(alog', e)
              /\ SoundLog(alog, witness) /\ Working(alog, witness, b)
  BY <1>11, CompactOpen
<1>12. ASSUME Classified(alog'), evicted' = {}, next # Idle
       PROVE  Working(alog', witness, next)
  <2>1. /\ Working(alog, witness, b) /\ \A e \in Entries(F) : Open(alog, e) => Open(alog', e)
    BY <1>11, <1>12
  <2>2. Todo(alog', b.todo)
    <3>1. \A i \in DOMAIN b.todo : b.todo[i] \in Entries(F)
      BY <1>2, LenProperties
    <3>2. Todo(alog, b.todo)
      BY <2>1 DEF Working
    <3> QED
      BY <2>1, <3>1, <3>2 DEF Todo
  <2>3. CASE ~ go
    <3>1. next = Continue(b.todo)
      BY <2>3
    <3> HIDE DEF next, b
    <3> QED
      BY <1>2, <1>12, <2>2, <3>1, ContinueWorks
  <2>4. CASE go
    <3>1. /\ next.step = "deliver" /\ next.entry = b.entry /\ next.fresh = b.fresh
          /\ next.todo = b.todo
      BY <1>2, <2>4 DEF Works
    <3>2. b.entry.state = "pending"
      BY <2>1, <2>4 DEF Working
    <3>3. Open(alog, b.entry)
      BY <1>1, <2>1, <3>2 DEF Working, Open
    <3>4. Open(alog', b.entry)
      BY <1>2, <2>1, <3>3
    <3> HIDE DEF next, b
    <3> QED
      BY <2>1, <2>2, <3>1, <3>2, <3>4 DEF Working
  <2> QED
    BY <2>3, <2>4
<1>13. ~ Ambiguous'
  BY <1>1 DEF StreamInv, Ambiguous
<1> HIDE DEF next, b
<1> QED
  BY <1>1, <1>5, <1>7, <1>9, <1>10, <1>11, <1>12, <1>13, AfterTurn DEF StreamInv, StreamTyped

LEMMA DeliverKeeps ==
  ASSUME NEW F, StreamInv(F), NEW t \in Threads, Deliver(t)
  PROVE  StreamInv(F)'
<1> DEFINE b == busy[t]
           e == b.entry
<1>1. b.step = "deliver" /\ UNCHANGED <<alog, dispatch, faults, evicted>>
  BY DEF Deliver
<1>2. PICK answer \in {"ack", "refused", "lost"}, arrives \in BOOLEAN :
        /\ arrives => ~ Contradicted(e)
        /\ witness' = IF arrives THEN witness \union {Holds(e)} ELSE witness
        /\ busy' = [busy EXCEPT ![t].step = "append", ![t].fresh = FALSE,
                                ![t].entry = Settled(@, answer)]
  BY DEF Deliver
<1> DEFINE x == Settled(e, answer)
           next == [b EXCEPT !.step = "append", !.fresh = FALSE, !.entry = x]
<1>3. /\ b # Idle /\ b \in Works(F) /\ e \in Entries(F) /\ b.todo \in Seq(Entries(F))
      /\ Classified(alog) /\ evicted = {} => SoundLog(alog, witness) /\ Working(alog, witness, b)
  BY <1>1, AtWork
<1>4. busy' = [busy EXCEPT ![t] = next]
  <2>1. busy \in [Threads -> {Idle} \union Works(F)]
    BY DEF StreamInv, StreamTyped
  <2> QED
    BY <1>2, <1>3, <2>1 DEF Works
<1>5. x \in Entries(F) /\ x.group = e.group /\ x.fact = e.fact
  <2>1. Classify(answer) \in States
    BY DEF Classify, States
  <2> DEFINE st == Classify(answer)
             z == IF st = "pending" /\ e.attempts + 1 >= MaxAttempts THEN "unanchored" ELSE st
             a == e.attempts + 1
  <2>2. x = [e EXCEPT !.attempts = a, !.state = z]
    BY DEF Settled
  <2>3. z \in States
    BY <2>1 DEF States
  <2>4. a \in Nat
    BY <1>3 DEF Entries
  <2> HIDE DEF e, z, a, x
  <2> QED
    BY <1>3, <2>2, <2>3, <2>4 DEF Entries
<1>6. next \in Works(F) /\ next.step = "append" /\ next.fresh = FALSE /\ next.entry = x
      /\ next.todo = b.todo
  <2> HIDE DEF x
  <2> QED
    BY <1>3, <1>5 DEF Works
<1>7. Turned(F, t, next)
  <2> HIDE DEF next
  <2> QED
    BY <1>1, <1>3, <1>4, <1>6, TurnKeeps DEF StreamInv
<1>8. witness \in SUBSET [seq : Nat \ {0}, fact : F] /\ Holds(e) \in [seq : Nat \ {0}, fact : F]
      /\ Holds(e).seq = e.group /\ Holds(e).fact = e.fact
  <2> HIDE DEF e
  <2> QED
    BY <1>3 DEF StreamInv, StreamTyped, Holds, Entries
<1>9. witness' \in SUBSET [seq : Nat \ {0}, fact : F]
  BY <1>2, <1>8
<1>10. ~ Ambiguous'
  <2>1. ~ Ambiguous
    BY DEF StreamInv
  <2>2. CASE ~ arrives
    BY <1>2, <2>1, <2>2 DEF Ambiguous
  <2>3. CASE arrives
    <3> SUFFICES ASSUME NEW v \in witness', NEW w \in witness', v.seq = w.seq PROVE v = w
      BY DEF Ambiguous
    <3>1. \A u \in witness : u.seq = e.group => u.fact = e.fact
      BY <1>2, <2>3 DEF Contradicted
    <3>2. \A u \in witness' : u \in witness \/ u = Holds(e)
      BY <1>2
    <3> HIDE DEF e
    <3>3. \A u \in witness : u.seq = e.group => u = Holds(e)
      BY <1>8, <3>1
    <3>4. \A u1, u2 \in witness : u1.seq = u2.seq => u1 = u2
      BY <2>1 DEF Ambiguous
    <3> QED
      BY <1>8, <3>2, <3>3, <3>4
  <2> QED
    BY <2>2, <2>3
<1>11. ASSUME Classified(alog), evicted = {}
       PROVE  SoundLog(alog, witness') /\ Working(alog, witness', next)
  <2>1. SoundLog(alog, witness) /\ Working(alog, witness, b)
    BY <1>3, <1>11
  <2>2. Open(alog, e)
    BY <1>1, <2>1 DEF Working
  <2>3. OnRecord(alog, Holds(e))
    BY <1>8, <2>2 DEF Open, OnRecord
  <2>4. SoundLog(alog, witness')
    BY <1>2, <2>1, <2>3 DEF SoundLog
  <2>5. Open(alog, x)
    <3> HIDE DEF x, e
    <3> QED
      BY <1>5, <2>2 DEF Open
  <2> HIDE DEF x, next
  <2> QED
    BY <1>5, <1>6, <2>1, <2>4, <2>5 DEF Working
<1> HIDE DEF next, x, e, b
<1> QED
  BY <1>1, <1>7, <1>9, <1>10, <1>11, AfterTurn DEF StreamInv, StreamTyped

LEMMA DeliverConflictKeeps ==
  ASSUME NEW F, StreamInv(F), NEW t \in Threads, DeliverConflict(t)
  PROVE  StreamInv(F)'
<1> DEFINE b == busy[t]
           next == Continue(b.todo)
<1>1. b.step = "deliver" /\ UNCHANGED <<alog, witness, faults, evicted>>
  BY DEF DeliverConflict
<1>2. /\ b # Idle /\ b \in Works(F) /\ b.todo \in Seq(Entries(F))
      /\ Classified(alog) /\ evicted = {} => SoundLog(alog, witness) /\ Working(alog, witness, b)
  BY <1>1, AtWork
<1>3. busy' = [busy EXCEPT ![t] = next] /\ (dispatch' = dispatch \/ (next = Idle /\ dispatch' = Nobody))
  BY DEF DeliverConflict, Turn
<1>4. next \in {Idle} \union Works(F)
  BY <1>2, ContinueTyped
<1>5. Turned(F, t, next)
  <2> HIDE DEF next
  <2> QED
    BY <1>2, <1>3, <1>4, TurnKeeps DEF StreamInv
<1>6. ASSUME Classified(alog), evicted = {}, next # Idle PROVE Working(alog, witness, next)
  <2>1. Todo(alog, b.todo)
    BY <1>2, <1>6 DEF Working
  <2> HIDE DEF b
  <2> QED
    BY <1>2, <1>6, <2>1, ContinueWorks
<1>7. ~ Ambiguous'
  BY <1>1 DEF StreamInv, Ambiguous
<1> HIDE DEF next, b
<1> QED
  BY <1>1, <1>2, <1>5, <1>6, <1>7, AfterTurn DEF StreamInv, StreamTyped

LEMMA AnchorStepKeeps ==
  ASSUME NEW F, StreamInv(F), NEW t \in Threads, AnchorStep(t)
  PROVE  StreamInv(F)'
BY CheckAnchorKeeps, AppendAnchorKeeps, AppendAnchorFailsKeeps, CompactAnchorsKeeps, DeliverKeeps,
   DeliverConflictKeeps DEF AnchorStep

-----------------------------------------------------------------------------
(* A thread takes the mutex.                                               *)

\* t has taken the free mutex for next, or has found nothing to do.
LEMMA Taken ==
  ASSUME NEW F, StreamTyped(F), Exclusive, NEW t \in Threads, MutexFree,
         NEW next \in {Idle} \union Works(F), busy' = [busy EXCEPT ![t] = next],
         dispatch' = t \/ (next = Idle /\ dispatch' = Nobody)
  PROVE  Turned(F, t, next)
<1> USE StreamAssumption
<1>1. \A u \in Threads : busy[u] = Idle
  BY DEF Exclusive, MutexFree
<1>2. busy' \in [Threads -> {Idle} \union Works(F)] /\ busy'[t] = next
      /\ \A u \in Threads : u # t => busy'[u] = busy[u]
  BY DEF StreamTyped
<1>3. \A u \in Threads : busy'[u] # Idle => u = t /\ busy'[u] = next
  BY <1>1, <1>2
<1>4. Exclusive'
  BY <1>3 DEF Exclusive
<1> QED
  BY <1>2, <1>3, <1>4 DEF Turned

LEMMA NumberUnused ==
  ASSUME NEW F, NEW log \in Seq(Entries(F) \union {Torn}), Classified(log), NEW W,
         W \in SUBSET [seq : Nat \ {0}, fact : F], SoundLog(log, W), NEW f \in F,
         NEW e, e = PendingEntry(NextAnchorSeq(log), f)
  PROVE  Unused(log, W, e)
<1> DEFINE n == NextAnchorSeq(log)
<1>1. n \in Nat \ {0} /\ \A g \in Seqs(log) : g < n
  BY NextIsAbove
<1>2. Seqs(log) = Groups(log)
  BY NoConflict DEF SoundLog
<1>3. \A i \in DOMAIN log : log[i].group < n /\ log[i].group \in Nat
  <2>1. \A i \in DOMAIN log : log[i].group \in Nat \ {0}
    BY LinesAreEntries
  <2> QED
    BY <1>1, <1>2, <2>1 DEF Groups
<1>4. e.group = n
  BY DEF PendingEntry
<1>5. ASSUME NEW w \in W PROVE w.seq < n
  <2>1. w.seq \in Nat /\ OnRecord(log, w)
    BY <1>5 DEF SoundLog
  <2> HIDE DEF n
  <2>2. CASE \E i \in DOMAIN log : log[i].group = w.seq /\ log[i].fact = w.fact
    BY <1>3, <2>2
  <2>3. CASE log # <<>> /\ \A i \in DOMAIN log : w.seq < log[i].group
    <3>1. 1 \in DOMAIN log
      BY <2>3, EmptySeq, LenProperties
    <3>2. w.seq < log[1].group /\ log[1].group < n /\ log[1].group \in Nat
      BY <1>3, <2>3, <3>1
    <3> QED
      BY <1>1, <2>1, <3>2
  <2> QED
    BY <2>1, <2>2, <2>3 DEF OnRecord
<1> QED
  BY <1>3, <1>4, <1>5 DEF Unused

LEMMA OpenAnchorKeeps ==
  ASSUME NEW F, StreamInv(F), NEW t \in Threads, NEW f \in F, OpenAnchor(t, f)
  PROVE  StreamInv(F)'
<1> DEFINE e == PendingEntry(NextAnchorSeq(alog), f)
           next == [step |-> FirstStep, fresh |-> TRUE, todo |-> <<>>, entry |-> e]
<1>1. /\ MutexFree /\ Classified(alog) /\ dispatch' = t /\ busy' = [busy EXCEPT ![t] = next]
      /\ UNCHANGED <<alog, witness, faults, evicted>>
  BY DEF OpenAnchor
<1>2. alog \in Seq(Entries(F) \union {Torn}) /\ witness \in SUBSET [seq : Nat \ {0}, fact : F]
  BY DEF StreamInv, StreamTyped
<1>3. e \in Entries(F) /\ e.state = "pending"
  <2>1. NextAnchorSeq(alog) \in Nat \ {0}
    BY <1>1, <1>2, NextIsAbove
  <2> QED
    BY <2>1 DEF PendingEntry, Entries, States
<1>4. next \in Works(F) /\ next.step = "append" /\ next.entry = e /\ next.todo = <<>>
  <2>1. <<>> \in Seq(Entries(F))
    BY EmptySeq
  <2> HIDE DEF e
  <2> QED
    BY <1>3, <2>1 DEF Works, FirstStep
<1>5. Turned(F, t, next)
  <2> HIDE DEF next
  <2> QED
    BY <1>1, <1>4, Taken DEF StreamInv
<1>6. ASSUME evicted = {} PROVE SoundLog(alog, witness) /\ Working(alog, witness, next)
  <2>1. SoundLog(alog, witness)
    BY <1>1, <1>6 DEF StreamInv, StreamSound
  <2>2. Unused(alog, witness, e)
    BY <1>1, <1>2, <2>1, NumberUnused
  <2>3. Todo(alog, <<>>)
    BY DEF Todo
  <2> HIDE DEF e, next
  <2> QED
    BY <1>3, <1>4, <2>1, <2>2, <2>3 DEF Working
<1>7. ~ Ambiguous'
  BY <1>1 DEF StreamInv, Ambiguous
<1> HIDE DEF next, e
<1> QED
  BY <1>1, <1>5, <1>6, <1>7, AfterTurn DEF StreamInv, StreamTyped

\* The entries are lines of the log.
FromLog(todo, log) == \A n \in DOMAIN todo : \E i \in DOMAIN log : todo[n] = log[i]

LEMMA PendingInOrder ==
  ASSUME NEW F, NEW log \in Seq(Entries(F) \union {Torn}), Classified(log),
         NEW todo, todo = InOrder({Latest(log, s) : s \in Undelivered(log)})
  PROVE  todo \in Seq(Entries(F)) /\ Todo(log, todo) /\ FromLog(todo, log)
<1> DEFINE E == {Latest(log, s) : s \in Undelivered(log)}
           S == {e.group : e \in E}
           c == Cardinality(S)
<1>1. log \in Seq(Entries(F)) /\ Groups(log) \subseteq Nat \ {0}
      /\ \A i \in DOMAIN log : log[i] \in Entries(F)
  BY LinesAreEntries
<1>2. Undelivered(log) \subseteq Groups(log)
      /\ \A s \in Undelivered(log) : Latest(log, s).state = "pending"
  BY DEF Undelivered, InState, Seqs
<1>3. ASSUME NEW e \in E
      PROVE  /\ e \in Entries(F) /\ e.group \in Groups(log) /\ Open(log, e)
             /\ \E i \in DOMAIN log : e = log[i]
  <2>1. PICK s \in Undelivered(log) : e = Latest(log, s)
    BY <1>3
  <2>2. PICK i \in DOMAIN log : log[i].group = s /\ IsLast(log, i) /\ Latest(log, s) = log[i]
    BY <1>1, <1>2, LatestExists
  <2>3. e = log[i] /\ e.state = "pending"
    BY <1>2, <2>1, <2>2
  <2> QED
    BY <1>1, <2>2, <2>3 DEF Open, Groups
<1>4. S \in SUBSET Nat /\ IsFiniteSet(S) /\ c \in Nat
  <2>1. S \subseteq Groups(log)
    BY <1>3
  <2>2. IsFiniteSet(Groups(log))
    BY <1>1, GroupsFinite
  <2> HIDE DEF S
  <2>3. IsFiniteSet(S)
    BY <2>1, <2>2, FS_Subset
  <2> QED
    BY <1>1, <2>1, <2>3, FS_CardinalityType
<1>5. Enumerated(S)
  <2> HIDE DEF S
  <2> QED
    BY <1>4, PlaceNumbers
<1>6. todo = [n \in 1 .. c |-> CHOOSE e \in E : e.group = Place(S, n)]
  BY DEF InOrder
<1>7. ASSUME NEW n \in 1 .. c PROVE todo[n] \in E /\ todo[n].group = Place(S, n)
  <2>1. Place(S, n) \in S
    BY <1>5 DEF Enumerated
  <2>2. PICK e \in E : e.group = Place(S, n)
    BY <2>1
  <2>3. todo[n] = CHOOSE x \in E : x.group = Place(S, n)
    BY <1>6
  <2> HIDE DEF E, S
  <2> QED
    BY <2>2, <2>3, Zenon
<1> HIDE DEF E, S, c
<1>8. todo \in Seq(Entries(F)) /\ DOMAIN todo = 1 .. c
  <2>1. \A n \in 1 .. c : todo[n] \in Entries(F)
    BY <1>3, <1>7
  <2>2. todo = [n \in 1 .. c |-> todo[n]]
    BY <1>6
  <2> QED
    BY <1>4, <2>1, <2>2
<1>9. \A n \in DOMAIN todo : Open(log, todo[n])
  BY <1>3, <1>7, <1>8
<1>10. ASSUME NEW m \in DOMAIN todo, NEW n \in DOMAIN todo, m # n
       PROVE  todo[m].group # todo[n].group
  <2>1. m \in 1 .. c /\ n \in 1 .. c
    BY <1>8
  <2>2. todo[m].group = Place(S, m) /\ todo[n].group = Place(S, n)
    BY <1>7, <2>1
  <2>3. Place(S, m) \in Nat /\ Place(S, n) \in Nat
    BY <1>4, <1>5, <2>1 DEF Enumerated, c
  <2>4. m < n => Place(S, m) < Place(S, n)
    BY <1>5, <2>1 DEF Enumerated, c
  <2>5. n < m => Place(S, n) < Place(S, m)
    BY <1>5, <2>1 DEF Enumerated, c
  <2>6. m < n \/ n < m
    BY <1>4, <1>10, <2>1
  <2> QED
    BY <2>2, <2>3, <2>4, <2>5, <2>6
<1>11. \A n \in DOMAIN todo : \E i \in DOMAIN log : todo[n] = log[i]
  BY <1>3, <1>7, <1>8
<1> QED
  BY <1>8, <1>9, <1>10, <1>11 DEF Todo, FromLog

LEMMA WorkOffKeeps ==
  ASSUME NEW F, StreamInv(F), NEW t \in Threads, Classified(alog), WorkOff(t)
  PROVE  StreamInv(F)'
<1> DEFINE todo == InOrder({Latest(alog, s) : s \in Undelivered(alog)})
           next == Continue(todo)
<1>1. /\ MutexFree /\ UNCHANGED <<alog, witness, faults, evicted>>
      /\ busy' = [busy EXCEPT ![t] = next] /\ dispatch' = IF next = Idle THEN Nobody ELSE t
  BY DEF WorkOff
<1>2. todo \in Seq(Entries(F)) /\ Todo(alog, todo)
  BY PendingInOrder DEF StreamInv, StreamTyped
<1> HIDE DEF todo
<1>3. next \in {Idle} \union Works(F)
  BY <1>2, ContinueTyped
<1>4. Turned(F, t, next)
  <2> HIDE DEF next
  <2> QED
    BY <1>1, <1>3, Taken DEF StreamInv
<1>5. ASSUME evicted = {} PROVE SoundLog(alog, witness) /\ (next # Idle => Working(alog, witness, next))
  BY <1>2, <1>5, ContinueWorks DEF StreamInv, StreamSound
<1>6. ~ Ambiguous'
  BY <1>1 DEF StreamInv, Ambiguous
<1> HIDE DEF next
<1> QED
  BY <1>1, <1>4, <1>5, <1>6, AfterTurn DEF StreamInv, StreamTyped

LEMMA ACrashKeeps ==
  ASSUME NEW F, StreamInv(F), ACrash, faults' \in Nat
  PROVE  StreamInv(F)'
<1>1. /\ UNCHANGED <<alog, witness, evicted>> /\ dispatch' = Nobody
      /\ busy' = [t \in Threads |-> Idle]
  BY DEF ACrash
<1>2. StreamTyped(F)' /\ Exclusive'
  BY <1>1 DEF StreamInv, StreamTyped, Exclusive
<1>3. ~ Ambiguous'
  BY <1>1 DEF StreamInv, Ambiguous
<1>4. StreamSound'
  BY <1>1 DEF StreamInv, StreamSound
<1> QED
  BY <1>2, <1>3, <1>4 DEF StreamInv

LEMMA SameStream ==
  ASSUME NEW F, StreamInv(F), UNCHANGED <<alog, witness, dispatch, busy, evicted>>, faults' \in Nat
  PROVE  StreamInv(F)'
BY DEF StreamInv, StreamTyped, Exclusive, Ambiguous, StreamSound

LEMMA AInitSound ==
  ASSUME NEW F, AInit
  PROVE  StreamInv(F)
<1>1. alog = <<>> /\ witness = {} /\ busy = [t \in Threads |-> Idle]
  BY DEF AInit
<1>2. SoundLog(alog, witness)
  BY <1>1 DEF SoundLog, OneFact, Upward
<1> QED
  BY <1>1, <1>2 DEF AInit, StreamInv, StreamTyped, Exclusive, Ambiguous, StreamSound

\* What the invariant says of a stream: OneFactPerSeq.
LEMMA StreamOneFact ==
  ASSUME NEW F, StreamInv(F)
  PROVE  OneFactPerSeq
BY NoConflict DEF StreamInv, StreamSound, SoundLog, OneFactPerSeq

-----------------------------------------------------------------------------
(* What the delivery face reads off a stream.                              *)

\* An entry that says it is anchored is at the witness, and one that says it is
\* pending has deliveries left.
Honest(e, W) ==
  /\ e.state = "anchored" => Holds(e) \in W
  /\ e.state = "pending" => e.attempts < MaxAttempts

HonestLog(log, W) ==
  /\ \A i \in DOMAIN log : log[i] # Torn => Honest(log[i], W)
  /\ Classified(log) => OneFact(log)

HonestWork(log, W, b) ==
  /\ Honest(b.entry, W) /\ \A i \in DOMAIN b.todo : Honest(b.todo[i], W)
  /\ b.step = "write" => ~ AppendRefused(log, b.entry)

FaceInv ==
  /\ IsFiniteSet(witness)
  /\ HonestLog(alog, witness)
  /\ \A t \in Threads : busy[t] # Idle => HonestWork(alog, witness, busy[t])

\* Only next is being worked on.
Only(next) == \A u \in Threads : busy'[u] # Idle => busy'[u] = next

LEMMA OnlyTurn ==
  ASSUME NEW F, StreamInv(F), NEW t \in Threads, busy[t].step # "idle" \/ MutexFree,
         NEW next, busy' = [busy EXCEPT ![t] = next]
  PROVE  Only(next)
<1>1. \A u \in Threads : u # t => busy[u] = Idle
  <2>1. CASE busy[t].step # "idle"
    BY <2>1, AtWork DEF StreamInv, Exclusive
  <2>2. CASE MutexFree
    BY <2>2, StreamAssumption DEF StreamInv, Exclusive, MutexFree
  <2> QED
    BY <2>1, <2>2
<1>2. \A u \in Threads : busy'[u] = IF u = t THEN next ELSE busy[u]
  BY DEF StreamInv, StreamTyped
<1> QED
  BY <1>1, <1>2 DEF Only

LEMMA FaceAfter ==
  ASSUME NEW next, Only(next), IsFiniteSet(witness'), HonestLog(alog', witness'),
         next # Idle => HonestWork(alog', witness', next)
  PROVE  FaceInv'
BY DEF FaceInv, Only

LEMMA ContinueHonest ==
  ASSUME NEW F, NEW todo \in Seq(Entries(F)), NEW log, NEW W, \A i \in DOMAIN todo : Honest(todo[i], W),
         NEW b, b = Continue(todo), b # Idle
  PROVE  HonestWork(log, W, b)
<1> DEFINE e == Head(todo)
           x == SweepEntry(e)
           rest == Tail(todo)
<1>1. todo # <<>>
  BY DEF Continue
<1>2. /\ e \in Entries(F) /\ Honest(e, W)
      /\ \A i \in DOMAIN rest : Honest(rest[i], W)
  <2>1. DOMAIN todo = 1 .. Len(todo) /\ Len(todo) \in Nat /\ Len(todo) # 0
    BY <1>1, LenProperties, EmptySeq
  <2>2. e = todo[1] /\ e \in Entries(F) /\ rest \in Seq(Entries(F)) /\ Len(rest) = Len(todo) - 1
        /\ \A i \in 1 .. Len(rest) : rest[i] = todo[i + 1]
    BY <1>1, HeadTailProperties
  <2>3. DOMAIN rest = 1 .. Len(rest)
    BY <2>2, LenProperties
  <2> HIDE DEF e, rest
  <2>4. 1 \in DOMAIN todo /\ \A i \in DOMAIN rest : i + 1 \in DOMAIN todo
    BY <2>1, <2>2, <2>3
  <2> QED
    BY <2>2, <2>3, <2>4
<1>3. b = [step |-> SweepStep(e), entry |-> x, fresh |-> FALSE, todo |-> rest]
  BY <1>1 DEF Continue
<1> HIDE DEF e, rest
<1>4. Honest(x, W)
  <2>1. CASE e.attempts >= MaxAttempts
    <3>1. x = [e EXCEPT !.state = "unanchored"]
      BY <2>1 DEF SweepEntry
    <3> HIDE DEF x
    <3>2. x.state = "unanchored"
      BY <1>2, <3>1 DEF Entries
    <3> QED
      BY <3>2 DEF Honest
  <2>2. CASE ~ (e.attempts >= MaxAttempts)
    BY <1>2, <2>2 DEF SweepEntry
  <2> QED
    BY <2>1, <2>2
<1> HIDE DEF x
<1>5. b.entry = x /\ b.todo = rest /\ b.step \in {"append", "deliver"}
  BY <1>3 DEF SweepStep
<1> QED
  BY <1>2, <1>4, <1>5 DEF HonestWork

\* What the invariants say of a thread at work.
LEMMA HonestAtWork ==
  ASSUME NEW F, StreamInv(F), FaceInv, NEW t \in Threads, busy[t].step # "idle"
  PROVE  /\ busy[t] # Idle /\ busy[t] \in Works(F)
         /\ busy[t].entry \in Entries(F) /\ busy[t].todo \in Seq(Entries(F))
         /\ HonestWork(alog, witness, busy[t])
BY AtWork DEF FaceInv

LEMMA CheckAnchorHonest ==
  ASSUME NEW F, StreamInv(F), FaceInv, NEW t \in Threads, CheckAnchor(t)
  PROVE  FaceInv'
<1> DEFINE b == busy[t]
           refused == AppendRefused(alog, b.entry)
           write == [b EXCEPT !.step = "write"]
           next == IF refused THEN Continue(b.todo) ELSE write
<1>1. /\ b.step = "append" /\ UNCHANGED <<alog, witness>> /\ busy' = [busy EXCEPT ![t] = next]
  BY DEF CheckAnchor, Turn
<1>2. /\ b # Idle /\ b \in Works(F) /\ b.todo \in Seq(Entries(F)) /\ HonestWork(alog, witness, b)
  BY <1>1, HonestAtWork
<1>3. Only(next)
  <2> HIDE DEF next
  <2> QED
    BY <1>1, OnlyTurn
<1>4. ASSUME next # Idle PROVE HonestWork(alog, witness, next)
  <2>1. CASE refused
    <3>1. next = Continue(b.todo) /\ \A i \in DOMAIN b.todo : Honest(b.todo[i], witness)
      BY <1>2, <2>1 DEF HonestWork
    <3> HIDE DEF next, b
    <3> QED
      BY <1>2, <1>4, <3>1, ContinueHonest
  <2>2. CASE ~ refused
    <3>1. next.entry = b.entry /\ next.todo = b.todo
      BY <1>2, <2>2 DEF Works
    <3>2. ~ AppendRefused(alog, next.entry)
      BY <2>2, <3>1
    <3> HIDE DEF next, b
    <3> QED
      BY <1>2, <3>1, <3>2 DEF HonestWork
  <2> QED
    BY <2>1, <2>2
<1> HIDE DEF next, b
<1> QED
  BY <1>1, <1>3, <1>4, FaceAfter DEF FaceInv

\* A line the log accepts leaves it honest.
LEMMA AppendHonest ==
  ASSUME NEW F, NEW log \in Seq(Entries(F) \union {Torn}), NEW e \in Entries(F), NEW W, HonestLog(log, W),
         Honest(e, W), ~ AppendRefused(log, e), NEW r, r = Appended(log, e)
  PROVE  HonestLog(r, W)
<1>1. Classified(log) /\ (e.group \in Groups(log) => Latest(log, e.group).fact = e.fact)
  BY DEF AppendRefused
<1>2. log \in Seq(Entries(F)) /\ OneFact(log)
  BY <1>1, LinesAreEntries DEF HonestLog
<1>3. Longer(r, log, e)
  BY <1>2, Lengthened
<1>4. \A i \in DOMAIN r : (i \in DOMAIN log /\ r[i] = log[i]) \/ r[i] = e
  BY <1>3 DEF Longer
<1>5. \A i \in DOMAIN log : log[i].group = e.group => log[i].fact = e.fact
  <2> SUFFICES ASSUME NEW i \in DOMAIN log, log[i].group = e.group PROVE log[i].fact = e.fact
    OBVIOUS
  <2>1. e.group \in Groups(log)
    BY DEF Groups
  <2>2. PICK j \in DOMAIN log : log[j].group = e.group /\ Latest(log, e.group) = log[j]
    BY <1>2, <2>1, LatestExists
  <2> QED
    BY <1>1, <1>2, <2>1, <2>2 DEF OneFact
<1>6. OneFact(r)
  BY <1>2, <1>4, <1>5 DEF OneFact
<1>7. \A i \in DOMAIN r : r[i] # Torn => Honest(r[i], W)
  BY <1>4 DEF HonestLog
<1> QED
  BY <1>6, <1>7 DEF HonestLog

LEMMA AppendAnchorHonest ==
  ASSUME NEW F, StreamInv(F), FaceInv, NEW t \in Threads, AppendAnchor(t)
  PROVE  FaceInv'
<1> DEFINE b == busy[t]
           next == [b EXCEPT !.step = "compact"]
<1>1. /\ b.step = "write" /\ alog' = Appended(alog, b.entry) /\ UNCHANGED witness
      /\ busy' = [busy EXCEPT ![t] = next]
  BY DEF AppendAnchor
<1>2. /\ b # Idle /\ b \in Works(F) /\ b.entry \in Entries(F) /\ HonestWork(alog, witness, b)
  BY <1>1, HonestAtWork
<1>3. Only(next)
  <2> HIDE DEF next
  <2> QED
    BY <1>1, OnlyTurn
<1>4. next.entry = b.entry /\ next.todo = b.todo /\ next.step = "compact"
  BY <1>2 DEF Works
<1>5. HonestLog(alog', witness)
  <2> HIDE DEF b
  <2> QED
    BY <1>1, <1>2, AppendHonest DEF HonestWork, FaceInv, StreamInv, StreamTyped
<1> HIDE DEF next, b
<1>6. HonestWork(alog', witness, next)
  BY <1>2, <1>4 DEF HonestWork
<1> QED
  BY <1>1, <1>3, <1>5, <1>6, FaceAfter DEF FaceInv

\* The thread goes on with its next entry, the log being honest.
LEMMA ContinueFace ==
  ASSUME NEW F, StreamInv(F), FaceInv, NEW t \in Threads, busy[t].step # "idle",
         busy' = [busy EXCEPT ![t] = Continue(busy[t].todo)], witness' = witness,
         HonestLog(alog', witness)
  PROVE  FaceInv'
<1> DEFINE todo == busy[t].todo
           next == Continue(todo)
<1>1. todo \in Seq(Entries(F)) /\ \A i \in DOMAIN todo : Honest(todo[i], witness)
  BY HonestAtWork DEF HonestWork
<1>2. Only(next)
  <2>1. busy' = [busy EXCEPT ![t] = next]
    OBVIOUS
  <2> HIDE DEF next
  <2> QED
    BY <2>1, OnlyTurn
<1> HIDE DEF todo
<1>3. next # Idle => HonestWork(alog', witness, next)
  BY <1>1, ContinueHonest
<1> HIDE DEF next
<1> QED
  BY <1>2, <1>3, FaceAfter DEF FaceInv

LEMMA AppendAnchorFailsHonest ==
  ASSUME NEW F, StreamInv(F), FaceInv, NEW t \in Threads, AppendAnchorFails(t)
  PROVE  FaceInv'
<1> DEFINE b == busy[t]
<1>1. /\ b.step = "write" /\ alog' \in {TornAppend(alog), Appended(alog, b.entry)}
      /\ witness' = witness /\ busy' = [busy EXCEPT ![t] = Continue(busy[t].todo)]
  BY DEF AppendAnchorFails, Turn
<1>2. b.entry \in Entries(F) /\ HonestWork(alog, witness, b)
  BY <1>1, HonestAtWork
<1>3. alog \in Seq(Entries(F) \union {Torn}) /\ HonestLog(alog, witness)
  BY DEF FaceInv, StreamInv, StreamTyped
<1>4. HonestLog(alog', witness)
  <2> HIDE DEF b
  <2>1. CASE alog' = Appended(alog, b.entry)
    BY <1>1, <1>2, <1>3, <2>1, AppendHonest DEF HonestWork
  <2>2. CASE alog' = TornAppend(alog)
    <3>1. alog' = Appended(alog, Torn) /\ Torn \in Entries(F) \union {Torn}
      BY <2>2 DEF TornAppend, Appended
    <3>2. Longer(alog', alog, Torn)
      BY <1>3, <3>1, Lengthened
    <3>3. \A i \in DOMAIN alog' : (i \in DOMAIN alog /\ alog'[i] = alog[i]) \/ alog'[i] = Torn
      BY <3>2 DEF Longer
    <3>4. ~ Classified(alog')
      BY <3>2 DEF Longer, Classified
    <3> QED
      BY <1>3, <3>3, <3>4 DEF HonestLog
  <2> QED
    BY <1>1, <2>1, <2>2
<1> QED
  BY <1>1, <1>4, ContinueFace

LEMMA CompactAnchorsHonest ==
  ASSUME NEW F, StreamInv(F), FaceInv, NEW t \in Threads, CompactAnchors(t)
  PROVE  FaceInv'
<1> DEFINE b == busy[t]
           go == b.fresh /\ ~ CompactRefused(alog)
           deliver == [b EXCEPT !.step = "deliver"]
           next == IF go THEN deliver ELSE Continue(b.todo)
<1>1. /\ b.step = "compact" /\ witness' = witness /\ busy' = [busy EXCEPT ![t] = next]
      /\ alog' = alog \/ (alog' = WithoutGroups(alog, Evicted(alog)) /\ Classified(alog))
  <2>1. ~ CompactRefused(alog) => Classified(alog)
    BY DEF CompactRefused
  <2>2. alog' = alog \/ (alog' = WithoutGroups(alog, Evicted(alog)) /\ Classified(alog))
    BY <2>1 DEF CompactAnchors
  <2>3. b.step = "compact" /\ witness' = witness /\ busy' = [busy EXCEPT ![t] = next]
    BY DEF CompactAnchors, Turn
  <2> QED
    BY <2>2, <2>3
<1>2. /\ b # Idle /\ b \in Works(F) /\ HonestWork(alog, witness, b)
  BY <1>1, HonestAtWork
<1>3. HonestLog(alog', witness)
  <2>1. CASE alog' = alog
    BY <2>1 DEF FaceInv
  <2>2. CASE alog' = WithoutGroups(alog, Evicted(alog)) /\ Classified(alog)
    <3>1. alog \in Seq(Entries(F) \union {Torn}) /\ HonestLog(alog, witness)
      BY DEF StreamInv, StreamTyped, FaceInv
    <3>2. alog' \in Seq(Entries(F) \union {Torn}) /\ Filtered(alog', alog, Evicted(alog))
      BY <2>2, <3>1, KeptLines
    <3>3. \A i \in DOMAIN alog' : \E j \in DOMAIN alog : alog'[i] = alog[j]
      <4>1. DOMAIN alog' = 1 .. Len(alog')
        BY <3>2, LenProperties
      <4> QED
        BY <3>2, <4>1 DEF Filtered
    <3> QED
      BY <2>2, <3>1, <3>3 DEF HonestLog, OneFact
  <2> QED
    BY <1>1, <2>1, <2>2
<1>4. CASE go
  <2>1. next.entry = b.entry /\ next.todo = b.todo /\ next.step = "deliver"
    BY <1>2, <1>4 DEF Works
  <2>2. Only(next)
    <3> HIDE DEF next
    <3> QED
      BY <1>1, OnlyTurn
  <2> HIDE DEF next, b
  <2>3. HonestWork(alog', witness, next)
    BY <1>2, <2>1 DEF HonestWork
  <2> QED
    BY <1>1, <1>3, <2>2, <2>3, FaceAfter DEF FaceInv
<1>5. CASE ~ go
  <2>1. busy' = [busy EXCEPT ![t] = Continue(busy[t].todo)]
    BY <1>1, <1>5
  <2> QED
    BY <1>1, <1>3, <2>1, ContinueFace
<1> QED
  BY <1>4, <1>5

\* An answer of the witness, recorded with what the witness then holds.
LEMMA SettledHonest ==
  ASSUME NEW F, NEW e \in Entries(F), NEW answer \in {"ack", "refused", "lost"},
         NEW W, answer = "ack" => Holds(e) \in W, NEW x, x = Settled(e, answer)
  PROVE  Honest(x, W)
<1> USE StreamAssumption
<1> DEFINE st == Classify(answer)
           z == IF st = "pending" /\ e.attempts + 1 >= MaxAttempts THEN "unanchored" ELSE st
           a == e.attempts + 1
<1>1. x = [e EXCEPT !.attempts = a, !.state = z]
  BY DEF Settled
<1>2. z = "anchored" => answer = "ack"
  BY DEF Classify
<1>3. z = "pending" => a < MaxAttempts
  <2>1. z = "pending" => ~ (a >= MaxAttempts)
    OBVIOUS
  <2>2. a \in Nat
    BY DEF Entries
  <2> HIDE DEF a, z
  <2> QED
    BY <2>1, <2>2
<1> HIDE DEF a, z
<1>4. x.state = z /\ x.attempts = a /\ x.group = e.group /\ x.fact = e.fact
  BY <1>1 DEF Entries
<1>5. Holds(x) = Holds(e)
  BY <1>4 DEF Holds
<1> QED
  BY <1>2, <1>3, <1>4, <1>5 DEF Honest

LEMMA DeliverHonest ==
  ASSUME NEW F, StreamInv(F), FaceInv, NEW t \in Threads, Deliver(t)
  PROVE  FaceInv'
<1> DEFINE b == busy[t]
           e == b.entry
<1>1. b.step = "deliver" /\ UNCHANGED <<alog, dispatch, faults, evicted>>
  BY DEF Deliver
<1>2. PICK answer \in {"ack", "refused", "lost"}, arrives \in BOOLEAN :
        /\ answer = "ack" => arrives
        /\ witness' = IF arrives THEN witness \union {Holds(e)} ELSE witness
        /\ busy' = [busy EXCEPT ![t].step = "append", ![t].fresh = FALSE,
                                ![t].entry = Settled(@, answer)]
  BY DEF Deliver
<1> DEFINE x == Settled(e, answer)
           next == [b EXCEPT !.step = "append", !.fresh = FALSE, !.entry = x]
<1>3. /\ b # Idle /\ b \in Works(F) /\ e \in Entries(F) /\ HonestWork(alog, witness, b)
  BY <1>1, HonestAtWork
<1>4. busy' = [busy EXCEPT ![t] = next]
  <2>1. busy \in [Threads -> {Idle} \union Works(F)]
    BY DEF StreamInv, StreamTyped
  <2> QED
    BY <1>2, <1>3, <2>1 DEF Works
<1>5. Only(next)
  <2> HIDE DEF next
  <2> QED
    BY <1>1, <1>4, OnlyTurn
<1>6. witness \subseteq witness' /\ (answer = "ack" => Holds(e) \in witness')
  BY <1>2
<1>7. IsFiniteSet(witness')
  <2>1. IsFiniteSet(witness)
    BY DEF FaceInv
  <2>2. IsFiniteSet(witness \union {Holds(e)})
    BY <2>1, FS_AddElement
  <2> QED
    BY <1>2, <2>1, <2>2
<1>8. Honest(x, witness')
  <2> HIDE DEF e
  <2> QED
    BY <1>3, <1>6, SettledHonest
<1>9. next.entry = x /\ next.todo = b.todo /\ next.step = "append"
  <2> HIDE DEF x
  <2> QED
    BY <1>3 DEF Works
<1>10. HonestLog(alog', witness')
  BY <1>1, <1>6 DEF FaceInv, HonestLog, Honest
<1> HIDE DEF x, e, next, b
<1>11. HonestWork(alog', witness', next)
  <2>1. \A i \in DOMAIN b.todo : Honest(b.todo[i], witness')
    BY <1>3, <1>6 DEF HonestWork, Honest
  <2> QED
    BY <1>8, <1>9, <2>1 DEF HonestWork
<1> QED
  BY <1>5, <1>7, <1>10, <1>11, FaceAfter

LEMMA DeliverConflictHonest ==
  ASSUME NEW F, StreamInv(F), FaceInv, NEW t \in Threads, DeliverConflict(t)
  PROVE  FaceInv'
<1>1. /\ busy[t].step = "deliver" /\ witness' = witness /\ alog' = alog
      /\ busy' = [busy EXCEPT ![t] = Continue(busy[t].todo)]
  BY DEF DeliverConflict, Turn
<1> QED
  BY <1>1, ContinueFace DEF FaceInv

LEMMA AnchorStepHonest ==
  ASSUME NEW F, StreamInv(F), FaceInv, NEW t \in Threads, AnchorStep(t)
  PROVE  FaceInv'
BY CheckAnchorHonest, AppendAnchorHonest, AppendAnchorFailsHonest, CompactAnchorsHonest, DeliverHonest,
   DeliverConflictHonest DEF AnchorStep

LEMMA OpenAnchorHonest ==
  ASSUME NEW F, StreamInv(F), FaceInv, NEW t \in Threads, NEW f \in F, OpenAnchor(t, f)
  PROVE  FaceInv'
<1> DEFINE e == PendingEntry(NextAnchorSeq(alog), f)
           next == [step |-> FirstStep, fresh |-> TRUE, todo |-> <<>>, entry |-> e]
<1>1. /\ MutexFree /\ busy' = [busy EXCEPT ![t] = next] /\ UNCHANGED <<alog, witness, faults, evicted>>
  BY DEF OpenAnchor
<1>2. Honest(e, witness)
  <2>1. e.state = "pending" /\ e.attempts = 0
    BY DEF PendingEntry
  <2> HIDE DEF e
  <2> QED
    BY <2>1, StreamAssumption DEF Honest
<1> HIDE DEF e
<1>3. next.entry = e /\ next.todo = <<>> /\ next.step = "append"
  BY DEF FirstStep
<1> HIDE DEF next
<1>4. Only(next)
  BY <1>1, OnlyTurn
<1>5. HonestWork(alog, witness, next)
  BY <1>2, <1>3 DEF HonestWork
<1> QED
  BY <1>1, <1>4, <1>5, FaceAfter DEF FaceInv

LEMMA WorkOffHonest ==
  ASSUME NEW F, StreamInv(F), FaceInv, NEW t \in Threads, Classified(alog), WorkOff(t)
  PROVE  FaceInv'
<1> DEFINE todo == InOrder({Latest(alog, s) : s \in Undelivered(alog)})
           next == Continue(todo)
<1>1. /\ MutexFree /\ UNCHANGED <<alog, witness, faults, evicted>> /\ busy' = [busy EXCEPT ![t] = next]
  BY DEF WorkOff
<1>2. todo \in Seq(Entries(F)) /\ FromLog(todo, alog)
  BY PendingInOrder DEF StreamInv, StreamTyped
<1> HIDE DEF todo
<1>3. \A n \in DOMAIN todo : Honest(todo[n], witness)
  BY <1>2 DEF FaceInv, HonestLog, Classified, FromLog
<1>4. next # Idle => HonestWork(alog, witness, next)
  BY <1>2, <1>3, ContinueHonest
<1> HIDE DEF next
<1>5. Only(next)
  BY <1>1, OnlyTurn
<1> QED
  BY <1>1, <1>4, <1>5, FaceAfter DEF FaceInv

LEMMA ACrashHonest ==
  ASSUME FaceInv, ACrash
  PROVE  FaceInv'
BY DEF ACrash, FaceInv

LEMMA SameFace ==
  ASSUME FaceInv, UNCHANGED <<alog, witness, busy>>
  PROVE  FaceInv'
BY DEF FaceInv

LEMMA AInitHonest ==
  ASSUME AInit
  PROVE  FaceInv
<1>1. alog = <<>> /\ witness = {} /\ busy = [t \in Threads |-> Idle]
  BY DEF AInit
<1>2. IsFiniteSet(witness)
  BY <1>1, FS_EmptySet
<1> QED
  BY <1>1, <1>2 DEF FaceInv, HonestLog, OneFact

LEMMA GroupsOf ==
  ASSUME NEW F, NEW log \in Seq(Entries(F) \union {Torn}), Classified(log), log # <<>>,
         NEW lo, lo = Min(Groups(log)), NEW hi, hi = Max(Groups(log))
  PROVE  /\ lo \in Nat /\ hi \in Nat /\ lo \in Groups(log)
         /\ \A i \in DOMAIN log : log[i].group \in Nat /\ lo <= log[i].group /\ log[i].group <= hi
<1>1. log \in Seq(Entries(F)) /\ Groups(log) \in SUBSET Nat /\ \A i \in DOMAIN log : log[i].group \in Nat
  BY LinesAreEntries
<1>2. 1 \in DOMAIN log
  BY <1>1, EmptySeq, LenProperties
<1>3. Groups(log) # {} /\ \A i \in DOMAIN log : log[i].group \in Groups(log)
  BY <1>2 DEF Groups
<1>4. lo \in Groups(log) /\ \A g \in Groups(log) : lo <= g
  BY <1>1, <1>3, LeastIs
<1>5. PICK u \in Nat : Highest(log, u)
  BY <1>1, HighestGroup
<1>6. hi \in Groups(log) /\ \A g \in Groups(log) : g <= hi
  BY <1>1, <1>3, <1>5, GreatestIs DEF Highest
<1> QED
  BY <1>1, <1>3, <1>4, <1>6

\* What the witness holds never speaks against the log.
LEMMA FamilyHonest ==
  ASSUME NEW F, StreamInv(F), evicted = {}, NEW present
  PROVE  FamilyVerdict(alog, present) \notin {"truncated", "divergent", "deleted"}
<1>1. alog \in Seq(Entries(F) \union {Torn}) /\ witness \in SUBSET [seq : Nat \ {0}, fact : F]
  BY DEF StreamInv, StreamTyped
<1>2. ASSUME Classified(alog) PROVE OneFact(alog) /\ \A w \in witness : OnRecord(alog, w)
  BY <1>2 DEF StreamInv, StreamSound, SoundLog
<1>3. CASE alog = <<>>
  <2>1. Classified(alog)
    BY <1>3 DEF Classified
  <2>2. witness = {}
    BY <1>2, <1>3, <2>1 DEF OnRecord
  <2> QED
    BY <2>2 DEF FamilyVerdict
<1>4. CASE alog # <<>> /\ Classified(alog)
  <2> DEFINE S == Groups(alog)
             lo == Min(S)
             hi == Max(S)
             inside == {w \in witness : w.seq \in lo .. hi}
  <2>1. /\ lo \in Nat /\ hi \in Nat /\ lo \in S
        /\ \A i \in DOMAIN alog : alog[i].group \in Nat /\ lo <= alog[i].group /\ alog[i].group <= hi
    BY <1>1, <1>4, GroupsOf
  <2>2. alog \in Seq(Entries(F))
    BY <1>1, <1>4, LinesAreEntries
  <2>3. PICK j \in DOMAIN alog : alog[j].group = lo
    BY <2>1 DEF Groups
  <2> HIDE DEF lo, hi
  <2>4. ASSUME NEW w \in witness PROVE ~ (w.seq > hi)
    <3>1. w.seq \in Nat
      BY <1>1
    <3>2. OnRecord(alog, w)
      BY <1>2, <1>4
    <3>3. CASE \E i \in DOMAIN alog : alog[i].group = w.seq
      BY <2>1, <3>1, <3>3
    <3>4. CASE \A i \in DOMAIN alog : w.seq < alog[i].group
      <4>1. w.seq < alog[j].group /\ alog[j].group <= hi /\ alog[j].group \in Nat
        BY <2>1, <3>4
      <4> QED
        BY <2>1, <3>1, <4>1
    <3> QED
      BY <3>2, <3>3, <3>4 DEF OnRecord
  <2>5. ASSUME NEW w \in witness, w.seq \in lo .. hi PROVE Latest(alog, w.seq).fact = w.fact
    <3>1. ~ \A i \in DOMAIN alog : w.seq < alog[i].group
      BY <2>1, <2>3, <2>5
    <3>2. PICK i \in DOMAIN alog : alog[i].group = w.seq /\ alog[i].fact = w.fact
      BY <1>2, <1>4, <3>1 DEF OnRecord
    <3>3. w.seq \in Groups(alog)
      BY <3>2 DEF Groups
    <3>4. PICK k \in DOMAIN alog : alog[k].group = w.seq /\ Latest(alog, w.seq) = alog[k]
      BY <2>2, <3>3, LatestExists
    <3> QED
      BY <1>2, <1>4, <3>2, <3>4 DEF OneFact
  <2>6. ~ (\E w \in witness : w.seq > hi) /\ ~ \E w \in inside : Latest(alog, w.seq).fact # w.fact
    BY <2>4, <2>5
  <2>7. WindowVerdict(alog, S) \notin {"truncated", "divergent", "deleted"}
    BY <2>6 DEF WindowVerdict, lo, hi
  <2> QED
    BY <1>4, <2>7 DEF FamilyVerdict
<1>5. CASE alog # <<>> /\ ~ Classified(alog)
  BY <1>5 DEF FamilyVerdict
<1> QED
  BY <1>3, <1>4, <1>5

\* The delivery face of an honest stream.
LEMMA FaceIsTrue ==
  ASSUME NEW F, StreamInv(F), FaceInv
  PROVE  DeliveryFaceTrue
<1> DEFINE A == InState(alog, "anchored")
           T == {w.seq : w \in witness}
<1>1. alog \in Seq(Entries(F) \union {Torn}) /\ IsFiniteSet(witness) /\ HonestLog(alog, witness)
  BY DEF StreamInv, StreamTyped, FaceInv
<1>2. \A i \in DOMAIN alog : alog[i] # Torn /\ alog[i].state = "anchored" => Holds(alog[i]) \in witness
  BY <1>1 DEF HonestLog, Honest
<1>3. Cardinality(witness) \in Nat
  BY <1>1, FS_CardinalityType
<1>4. CASE ~ Classified(alog)
  <2>1. DeliveryRow(alog) = Unreadable
    BY <1>4 DEF DeliveryRow
  <2>2. DeliveryRow(alog).anchored = 0 /\ DeliveryRow(alog).exhausted = 0
    BY <2>1 DEF Unreadable
  <2> QED
    BY <1>2, <1>3, <2>2 DEF DeliveryFaceTrue
<1>5. CASE Classified(alog)
  <2> DEFINE a == CountIn(alog, "anchored")
             x == Cardinality(Exhausted(alog))
  <2>1. alog \in Seq(Entries(F)) /\ \A i \in DOMAIN alog : alog[i] \in Entries(F) /\ alog[i] # Torn
    BY <1>1, <1>5, LinesAreEntries DEF Classified
  <2>2. ASSUME NEW s \in Seqs(alog)
        PROVE  \E i \in DOMAIN alog : Latest(alog, s) = alog[i] /\ alog[i].group = s
    <3>1. s \in Groups(alog)
      BY DEF Seqs
    <3> QED
      BY <2>1, <3>1, LatestExists
  <2>3. A \subseteq T
    <3> SUFFICES ASSUME NEW s \in A PROVE s \in T
      OBVIOUS
    <3>1. s \in Seqs(alog) /\ Latest(alog, s).state = "anchored"
      BY DEF InState
    <3>2. PICK i \in DOMAIN alog : Latest(alog, s) = alog[i] /\ alog[i].group = s
      BY <2>2, <3>1
    <3>3. Holds(alog[i]) \in witness /\ Holds(alog[i]).seq = s
      BY <1>2, <2>1, <3>1, <3>2 DEF Holds
    <3> QED
      BY <3>3
  <2>4. a <= Cardinality(witness)
    <3>1. IsFiniteSet(T) /\ Cardinality(T) <= Cardinality(witness)
      <4> DEFINE f == [w \in witness |-> w.seq]
      <4>1. f \in Surjection(witness, T)
        BY DEF Surjection
      <4> HIDE DEF f, T
      <4> QED
        BY <1>1, <4>1, FS_Surjection
    <3> HIDE DEF A, T
    <3>2. Cardinality(A) <= Cardinality(T) /\ IsFiniteSet(A)
      BY <2>3, <3>1, FS_Subset
    <3>3. Cardinality(A) \in Nat /\ Cardinality(T) \in Nat
      BY <3>1, <3>2, FS_CardinalityType
    <3>4. Cardinality(A) <= Cardinality(witness)
      BY <1>3, <3>1, <3>2, <3>3
    <3> QED
      BY <3>4 DEF CountIn, A
  <2>5. Exhausted(alog) = {}
    <3> SUFFICES ASSUME NEW s \in Exhausted(alog) PROVE FALSE
      OBVIOUS
    <3>1. s \in Seqs(alog) /\ Latest(alog, s).state = "pending" /\ Latest(alog, s).attempts >= MaxAttempts
      BY DEF Exhausted, InState
    <3>2. PICK i \in DOMAIN alog : Latest(alog, s) = alog[i] /\ alog[i].group = s
      BY <2>2, <3>1
    <3>3. alog[i].attempts < MaxAttempts
      BY <1>1, <2>1, <3>1, <3>2 DEF HonestLog, Honest
    <3>4. alog[i].attempts \in Nat
      BY <2>1 DEF Entries
    <3> QED
      BY <3>1, <3>2, <3>3, <3>4, StreamAssumption
  <2>6. x = 0
    BY <2>5, FS_EmptySet
  <2> HIDE DEF a, x
  <2>7. DeliveryRow(alog).anchored = a /\ DeliveryRow(alog).exhausted = x
    BY <1>5 DEF DeliveryRow, a, x
  <2> QED
    BY <1>2, <2>4, <2>6, <2>7 DEF DeliveryFaceTrue
<1> QED
  BY <1>4, <1>5

-----------------------------------------------------------------------------
(* The key life-cycle ledger.                                              *)

EventTypes == {"activated"} \union Terminal
KeyDigests == [group : Nat \ {0}, type : EventTypes, key : Keys, at : Starts \union Ends,
               role : Domains \union {NoRole}]
KeyEvents == [group : Nat \ {0}, type : EventTypes, key : Keys, at : Starts \union Ends,
              role : Domains \union {NoRole}, prev : KeyDigests \union {NoDigest}]
KeyLines == KeyEvents \union {Torn}
Ops == {NoOp} \union [step : {"append", "compact", "anchor"}, event : KeyEvents]
       \union [step : {"rewrite"}, event : KeyEvents, read : Seq(KeyLines)]
       \union [step : {"anchoring"}]

KeyTyped ==
  /\ klog \in Seq(KeyLines)
  /\ op \in [Writers -> Ops]
  /\ anchor \in [Keys -> Domains \union {"none"}]
  /\ reader \in {NotReading} \union [first : {"anchors"}, held : SUBSET (KeyDigests \union {Torn})]
  /\ recorded \in SUBSET KeyEvents
  /\ overlapped \in BOOLEAN /\ accused \in BOOLEAN

\* The numbers run without a gap and every line links to the one before.
Chained(log) ==
  \A i \in DOMAIN log : /\ log[i].group = log[1].group + i - 1
                        /\ i > 1 => log[i].prev = Digest(log[i - 1])

\* The event is the next of the chain.
Continues(log, e) ==
  log # <<>> => e.group = log[1].group + Len(log) /\ e.prev = Digest(log[Len(log)])

\* The events of a key that declare a domain declare the same.
OneRole(log) ==
  \A i, j \in DOMAIN log :
    log[i].key = log[j].key /\ log[i].role # NoRole /\ log[j].role # NoRole => log[i].role = log[j].role

\* The event may follow the ones of its key.
Fits(log, e) ==
  /\ \A i \in DOMAIN log : log[i].key = e.key => log[i].role \in {NoRole, e.role}
  /\ e.type \in Terminal => \E i \in DOMAIN log : log[i].key = e.key /\ log[i].type = "activated"

\* What was recorded is in the ledger, or older than all of it.
Kept(log, e) ==
  \/ \E i \in DOMAIN log : log[i] = e
  \/ log # <<>> /\ \A i \in DOMAIN log : e.group < log[i].group

SoundLedger(log, R) == Chained(log) /\ OneRole(log) /\ \A e \in R : Kept(log, e)

\* Every end has a beginning.
Begun(R) == \A e \in R : e.type \in Terminal => \E a \in R : a.type = "activated" /\ a.key = e.key

OpSound(w) ==
  /\ op[w].step = "append" =>
       Classified(klog) /\ Continues(klog, op[w].event) /\ Fits(klog, op[w].event)
  /\ op[w].step = "rewrite" => Classified(klog) /\ op[w].read = klog

KeySound ==
  ~ overlapped =>
    /\ \A v, w \in Writers : InSection(v) /\ InSection(w) => v = w
    /\ \A w \in Writers : OpSound(w)
    /\ \A i \in DOMAIN klog : klog[i] # Torn => klog[i] \in recorded
    /\ Begun(recorded)
    /\ Classified(klog) => SoundLedger(klog, recorded)
    /\ ~ accused

OnFile == {Digest(e) : e \in recorded}

KeyFacts ==
  /\ \A w \in Writers : op[w].step \in {"compact", "rewrite", "anchor"} => op[w].event \in recorded
  /\ reader # NotReading => Torn \in reader.held \/ reader.held \subseteq OnFile

\* What the stream witnesses is on file.
KeyStream == \E F : F \subseteq OnFile /\ StreamInv(F)

KeyInv == KeyTyped /\ KeySound /\ KeyFacts /\ KeyStream

-----------------------------------------------------------------------------
(* What the operations do to a sound ledger.                               *)

LEMMA KeyLinesAreEvents ==
  ASSUME NEW log \in Seq(KeyLines), Classified(log)
  PROVE  log \in Seq(KeyEvents) /\ \A i \in DOMAIN log : log[i] \in KeyEvents /\ log[i].group \in Nat \ {0}
<1>1. DOMAIN log = 1 .. Len(log) /\ Len(log) \in Nat
  BY LenProperties
<1>2. \A i \in DOMAIN log : log[i] \in KeyEvents
  BY <1>1 DEF Classified, KeyLines
<1>3. \A i \in DOMAIN log : log[i].group \in Nat \ {0}
  BY <1>2 DEF KeyEvents
<1> QED
  BY <1>1, <1>2, <1>3

LEMMA EventsAreClassified ==
  ASSUME NEW log \in Seq(KeyEvents)
  PROVE  Classified(log) /\ log \in Seq(KeyLines)
<1>1. \A i \in DOMAIN log : log[i] \in KeyEvents
  BY LenProperties
<1>2. \A i \in DOMAIN log : log[i] # Torn
  BY <1>1 DEF KeyEvents, Torn
<1>3. Seq(KeyEvents) \subseteq Seq(KeyLines)
  BY SeqMonotonic DEF KeyLines
<1> QED
  BY <1>2, <1>3 DEF Classified

LEMMA ChainedIsVerifiable ==
  ASSUME NEW log \in Seq(KeyEvents), Chained(log)
  PROVE  /\ Ascending(log) /\ Verifiable(log)
         /\ \A i, j \in DOMAIN log : log[i].group = log[j].group => i = j
<1>1. DOMAIN log = 1 .. Len(log) /\ Len(log) \in Nat
  BY LenProperties
<1>2. \A i \in DOMAIN log : log[i].group \in Nat
  <2>1. \A i \in DOMAIN log : log[i] \in KeyEvents
    BY <1>1
  <2> QED
    BY <2>1 DEF KeyEvents
<1>3. \A i \in DOMAIN log : log[i].group = log[1].group + i - 1 /\ 1 \in DOMAIN log
  BY <1>1 DEF Chained
<1>4. Ascending(log)
  BY <1>1, <1>2, <1>3 DEF Ascending
<1>5. \A i, j \in DOMAIN log : log[i].group = log[j].group => i = j
  BY <1>1, <1>2, <1>3
<1>6. ASSUME NEW i \in 2 .. Len(log)
      PROVE  log[i].prev = Digest(log[i - 1]) /\ log[i].group = log[i - 1].group + 1
  <2>1. i \in DOMAIN log /\ i - 1 \in DOMAIN log /\ i > 1 /\ i \in Nat
    BY <1>1
  <2>2. log[i].prev = Digest(log[i - 1])
    BY <2>1 DEF Chained
  <2>3. log[i].group = log[1].group + i - 1 /\ log[i - 1].group = log[1].group + (i - 1) - 1
        /\ log[1].group \in Nat
    BY <1>2, <1>3, <2>1
  <2> DEFINE a == log[1].group
             b == log[i].group
             c == log[i - 1].group
  <2>4. b = a + i - 1 /\ c = a + (i - 1) - 1 /\ a \in Nat /\ i \in Nat
    BY <2>1, <2>3
  <2> HIDE DEF a, b, c
  <2>5. b = c + 1
    BY <2>4
  <2> QED
    BY <2>2, <2>5 DEF b, c
<1> QED
  BY <1>4, <1>5, <1>6 DEF Verifiable

LEMMA AppendLedger ==
  ASSUME NEW log \in Seq(KeyEvents), NEW e \in KeyEvents, NEW R, SoundLedger(log, R),
         R \in SUBSET KeyEvents, Continues(log, e), Fits(log, e), NEW r, r = Appended(log, e)
  PROVE  SoundLedger(r, R \union {e})
<1> DEFINE n == Len(log)
<1>1. /\ r \in Seq(KeyEvents) /\ DOMAIN log = 1 .. n /\ n \in Nat /\ DOMAIN r = 1 .. n + 1
      /\ r[n + 1] = e /\ \A i \in DOMAIN log : i \in DOMAIN r /\ r[i] = log[i]
  <2>1. r \in Seq(KeyEvents) /\ Longer(r, log, e)
    BY Lengthened
  <2> QED
    BY <2>1 DEF Longer
<1>2. log # <<>> => n # 0
  BY EmptySeq
<1>3. n # 0 => e.group = log[1].group + n /\ e.prev = Digest(log[n])
  BY DEF Continues
<1> HIDE DEF n
<1>4. \A i \in DOMAIN r : i = n + 1 \/ i \in DOMAIN log
  BY <1>1
<1>5. \A i \in DOMAIN r : r[i] \in KeyEvents /\ r[i].group \in Nat
  <2>1. \A i \in DOMAIN r : r[i] \in KeyEvents
    BY <1>1, LenProperties
  <2> QED
    BY <2>1 DEF KeyEvents
<1>6. Chained(r)
  <2> SUFFICES ASSUME NEW i \in DOMAIN r
               PROVE  /\ r[i].group = r[1].group + i - 1
                      /\ i > 1 => r[i].prev = Digest(r[i - 1])
    BY DEF Chained
  <2>1. CASE i \in DOMAIN log
    <3>1. 1 \in DOMAIN log /\ r[1] = log[1] /\ r[i] = log[i]
      BY <1>1, <2>1
    <3>2. i > 1 => r[i - 1] = log[i - 1]
      BY <1>1, <2>1
    <3>3. log[i].group = log[1].group + i - 1 /\ (i > 1 => log[i].prev = Digest(log[i - 1]))
      BY <2>1 DEF SoundLedger, Chained
    <3> QED
      BY <3>1, <3>2, <3>3
  <2>2. CASE i = n + 1 /\ n # 0
    <3>1. 1 \in DOMAIN log /\ r[1] = log[1] /\ n \in DOMAIN log /\ r[n] = log[n] /\ r[i] = e
      BY <1>1, <2>2
    <3>2. log[1].group \in Nat
      BY <1>1, <1>5, <3>1
    <3> QED
      BY <1>1, <1>3, <2>2, <3>1, <3>2
  <2>3. CASE i = n + 1 /\ n = 0
    <3>1. i = 1 /\ r[1].group \in Nat
      BY <1>1, <1>5, <2>3
    <3> QED
      BY <3>1
  <2> QED
    BY <1>4, <2>1, <2>2, <2>3
<1>7. OneRole(r)
  <2> SUFFICES ASSUME NEW i \in DOMAIN r, NEW j \in DOMAIN r, r[i].key = r[j].key,
                      r[i].role # NoRole, r[j].role # NoRole
               PROVE  r[i].role = r[j].role
    BY DEF OneRole
  <2>1. \A k \in DOMAIN log : log[k].key = e.key /\ log[k].role # NoRole => log[k].role = e.role
    BY DEF Fits
  <2>2. CASE i \in DOMAIN log /\ j \in DOMAIN log
    BY <1>1, <2>2 DEF SoundLedger, OneRole
  <2>3. CASE i \in DOMAIN log /\ j = n + 1
    BY <1>1, <2>1, <2>3
  <2>4. CASE i = n + 1 /\ j \in DOMAIN log
    BY <1>1, <2>1, <2>4
  <2>5. CASE i = n + 1 /\ j = n + 1
    BY <2>5
  <2> QED
    BY <1>4, <2>2, <2>3, <2>4, <2>5
<1>8. ASSUME NEW x \in R \union {e} PROVE Kept(r, x)
  <2>1. CASE x = e
    BY <1>1, <2>1 DEF Kept
  <2>2. CASE x \in R /\ \E i \in DOMAIN log : log[i] = x
    BY <1>1, <2>2 DEF Kept
  <2>3. CASE x \in R /\ log # <<>> /\ \A i \in DOMAIN log : x.group < log[i].group
    <3>1. 1 \in DOMAIN log /\ x.group < log[1].group /\ log[1].group \in Nat /\ r[1] = log[1]
      BY <1>1, <1>2, <1>5, <2>3
    <3>2. x.group \in Nat
      BY <2>3 DEF KeyEvents
    <3>3. x.group < e.group
      BY <1>1, <1>2, <1>3, <2>3, <3>1, <3>2
    <3>4. \A i \in DOMAIN r : x.group < r[i].group
      BY <1>1, <1>4, <2>3, <3>3
    <3>5. r # <<>>
      BY <1>1
    <3> QED
      BY <3>4, <3>5 DEF Kept
  <2> QED
    BY <2>1, <2>2, <2>3 DEF SoundLedger, Kept
<1> QED
  BY <1>6, <1>7, <1>8 DEF SoundLedger

LEMMA CompactLedger ==
  ASSUME NEW log \in Seq(KeyEvents), NEW R, SoundLedger(log, R), R \in SUBSET KeyEvents,
         NEW r, r = WithoutGroups(log, DroppedGroups(log, KeyCapacity))
  PROVE  /\ r \in Seq(KeyEvents) /\ SoundLedger(r, R)
         /\ \A i \in DOMAIN r : \E j \in DOMAIN log : r[i] = log[j]
<1> DEFINE n == Len(log)
<1>1. DOMAIN log = 1 .. n /\ n \in Nat
  BY LenProperties
<1>2. \A i \in DOMAIN log : log[i] \in KeyEvents /\ log[i].group \in Nat
  <2>1. \A i \in DOMAIN log : log[i] \in KeyEvents
    BY <1>1
  <2> QED
    BY <2>1 DEF KeyEvents
<1>3. Ascending(log) /\ \A i, j \in DOMAIN log : log[i].group = log[j].group => i = j
  BY ChainedIsVerifiable DEF SoundLedger
<1>4. PICK k \in Nat : /\ k <= n /\ (log # <<>> => k < n)
                      /\ r = [i \in 1 .. n - k |-> log[k + i]]
  <2>1. KeyCapacity \in Int
    BY KeyAssumption
  <2>2. Ascending(log)
    BY <1>3
  <2>4. \A i \in DOMAIN log : log[i].group \in Nat
    BY <1>2
  <2>3. \E k \in Nat :
           /\ k <= Len(log) /\ (log # <<>> => k < Len(log))
           /\ WithoutGroups(log, DroppedGroups(log, KeyCapacity)) = [i \in 1 .. Len(log) - k |-> log[k + i]]
    <3> HIDE DEF n
    <3> QED
      BY <2>1, <2>2, <2>4, CompactedIsSuffix
  <2> QED
    BY <2>3
<1> HIDE DEF n
<1>5. /\ r \in Seq(KeyEvents) /\ Len(r) = n - k /\ DOMAIN r = 1 .. n - k
      /\ \A i \in DOMAIN r : r[i] = log[k + i] /\ k + i \in DOMAIN log
  <2>1. \A i \in 1 .. n - k : k + i \in DOMAIN log /\ log[k + i] \in KeyEvents
    BY <1>1, <1>2, <1>4
  <2> DEFINE h == n - k
  <2>2. h \in Nat
    BY <1>1, <1>4
  <2>3. r = [i \in 1 .. h |-> log[k + i]] /\ \A i \in 1 .. h : k + i \in DOMAIN log /\ log[k + i] \in KeyEvents
    BY <1>4, <2>1
  <2> HIDE DEF h
  <2>4. DOMAIN r = 1 .. h /\ \A i \in DOMAIN r : r[i] = log[k + i] /\ k + i \in DOMAIN log
    BY <2>3
  <2>5. r \in Seq(KeyEvents) /\ Len(r) = h
    BY <2>2, <2>3
  <2> QED
    BY <2>4, <2>5 DEF h
<1>6. Chained(r)
  <2> SUFFICES ASSUME NEW i \in DOMAIN r
               PROVE  /\ r[i].group = r[1].group + i - 1
                      /\ i > 1 => r[i].prev = Digest(r[i - 1])
    BY DEF Chained
  <2>1. 1 \in DOMAIN r /\ i \in Nat /\ i > 0
    BY <1>1, <1>4, <1>5
  <2>2. r[1] = log[k + 1] /\ k + 1 \in DOMAIN log /\ r[i] = log[k + i] /\ k + i \in DOMAIN log
    BY <1>5, <2>1
  <2>3. /\ log[k + i].group = log[1].group + (k + i) - 1
        /\ log[k + 1].group = log[1].group + (k + 1) - 1
        /\ log[1].group \in Nat
    <3>1. Chained(log) /\ 1 \in DOMAIN log
      BY <1>1, <2>2 DEF SoundLedger
    <3>2. \A j \in DOMAIN log : log[j].group = log[1].group + j - 1
      BY <3>1 DEF Chained
    <3> QED
      BY <1>2, <2>2, <3>1, <3>2
  <2>4. ASSUME i > 1 PROVE r[i].prev = Digest(r[i - 1])
    <3>1. i - 1 \in DOMAIN r /\ k + (i - 1) = (k + i) - 1 /\ k + i > 1
      <4>1. i \in 1 .. n - k /\ n - k \in Int
        BY <1>1, <1>4, <1>5
      <4>2. i - 1 \in 1 .. n - k
        BY <2>4, <4>1
      <4>3. k + (i - 1) = (k + i) - 1 /\ k + i > 1
        BY <2>1, <2>4
      <4> QED
        BY <1>5, <4>2, <4>3
    <3>2. r[i - 1] = log[(k + i) - 1]
      BY <1>5, <3>1
    <3> QED
      BY <2>2, <3>1, <3>2 DEF SoundLedger, Chained
  <2> DEFINE a == log[1].group
             b == r[i].group
             c == r[1].group
  <2>5. b = a + (k + i) - 1 /\ c = a + (k + 1) - 1 /\ a \in Nat
    BY <2>2, <2>3
  <2> HIDE DEF a, b, c
  <2>6. b = c + i - 1
    BY <2>1, <2>5
  <2> QED
    BY <2>4, <2>6 DEF b, c
<1>7. OneRole(r)
  <2> SUFFICES ASSUME NEW i \in DOMAIN r, NEW j \in DOMAIN r, r[i].key = r[j].key,
                      r[i].role # NoRole, r[j].role # NoRole
               PROVE  r[i].role = r[j].role
    BY DEF OneRole
  <2>1. r[i] = log[k + i] /\ k + i \in DOMAIN log /\ r[j] = log[k + j] /\ k + j \in DOMAIN log
    BY <1>5
  <2> QED
    BY <2>1 DEF SoundLedger, OneRole
<1>8. log # <<>> => r # <<>>
  BY <1>1, <1>4, <1>5
<1>9. ASSUME NEW x \in R PROVE Kept(r, x)
  <2>1. Kept(log, x)
    BY <1>9 DEF SoundLedger
  <2>2. CASE \E i \in DOMAIN log : log[i] = x
    <3>1. PICK i \in DOMAIN log : log[i] = x
      BY <2>2
    <3>2. CASE i <= k
      <4>1. \A j \in DOMAIN r : i < k + j /\ k + j \in DOMAIN log /\ r[j] = log[k + j]
        BY <1>1, <1>4, <1>5, <3>2
      <4>2. \A j \in DOMAIN r : x.group < r[j].group
        BY <1>3, <3>1, <4>1 DEF Ascending
      <4>3. log # <<>>
        BY <1>1, <3>1
      <4> QED
        BY <1>8, <4>2, <4>3 DEF Kept
    <3>3. CASE ~ (i <= k)
      <4>1. i - k \in DOMAIN r /\ k + (i - k) = i
        BY <1>1, <1>4, <1>5, <3>3
      <4> QED
        BY <1>5, <3>1, <4>1 DEF Kept
    <3> QED
      BY <3>2, <3>3
  <2>3. CASE log # <<>> /\ \A i \in DOMAIN log : x.group < log[i].group
    BY <1>5, <1>8, <2>3 DEF Kept
  <2> QED
    BY <2>1, <2>2, <2>3 DEF Kept
<1> QED
  BY <1>5, <1>6, <1>7, <1>9 DEF SoundLedger

LEMMA NewEventContinues ==
  ASSUME NEW log \in Seq(KeyEvents), Chained(log), NEW req \in Requests,
         anchor[req.key] \in Domains, NEW e, e = NewEvent(log, req)
  PROVE  e \in KeyEvents /\ Continues(log, e)
<1> DEFINE n == Len(log)
           G == {0} \union Groups(log)
           d == HeadLink(log)
<1>1. DOMAIN log = 1 .. n /\ n \in Nat /\ (log # <<>> => n # 0)
  BY LenProperties, EmptySeq
<1>2. \A i \in DOMAIN log : log[i] \in KeyEvents /\ log[i].group \in Nat
  <2>1. \A i \in DOMAIN log : log[i] \in KeyEvents
    BY <1>1
  <2> QED
    BY <2>1 DEF KeyEvents
<1>3. \A i \in DOMAIN log : log[i].group <= log[n].group
  BY <1>1, <1>2, ChainedIsVerifiable DEF Ascending
<1>4. CASE log = <<>>
  <2>1. G = {0}
    BY <1>4 DEF Groups
  <2>2. Max(G) = 0
    BY <2>1 DEF Max
  <2>3. d = NoDigest
    BY <1>4 DEF HeadLink
  <2> DEFINE m == Max(G)
  <2>9. e = [group |-> m + 1, type |-> req.type, key |-> req.key, at |-> req.at,
             role |-> anchor[req.key], prev |-> d]
    BY DEF NewEvent
  <2>10. m = 0
    BY <2>2
  <2> HIDE DEF m, d
  <2>4. e = [group |-> 1, type |-> req.type, key |-> req.key, at |-> req.at,
             role |-> anchor[req.key], prev |-> NoDigest]
    BY <2>3, <2>9, <2>10
  <2>5. e \in KeyEvents
    BY <2>4 DEF KeyEvents, Requests, EventTypes
  <2> QED
    BY <1>4, <2>5 DEF Continues
<1>5. CASE log # <<>>
  <2> DEFINE u == log[n].group
  <2>1. n \in DOMAIN log /\ u \in Nat /\ u \in Groups(log) /\ \A g \in Groups(log) : g <= u /\ g \in Nat
    BY <1>1, <1>2, <1>3, <1>5 DEF Groups
  <2> HIDE DEF u
  <2>2. Max(Groups(log)) = u
    <3>1. Groups(log) \in SUBSET Nat
      BY <2>1
    <3> QED
      BY <2>1, <3>1, MaxIs
  <2>3. Max(G) = u
    <3>1. \A g \in G : g = 0 \/ g \in Groups(log)
      OBVIOUS
    <3>2. u \in G /\ 0 <= u
      BY <2>1
    <3> HIDE DEF G
    <3>3. \A g \in G : g <= u /\ g \in Nat
      <4>1. \A g \in Groups(log) : g <= u /\ g \in Nat
        BY <2>1
      <4> QED
        BY <3>1, <3>2, <4>1
    <3>4. G \in SUBSET Nat
      BY <3>3
    <3> QED
      BY <3>2, <3>3, <3>4, MaxIs
  <2>4. d = Digest(log[n])
    <3>1. d = Digest(log[CHOOSE i \in DOMAIN log : log[i].group = u])
      BY <1>5, <2>2 DEF HeadLink
    <3>2. \A i \in DOMAIN log : log[i].group = u <=> i = n
      BY <2>1, ChainedIsVerifiable DEF u
    <3>3. (CHOOSE i \in DOMAIN log : log[i].group = u) = n
      BY <2>1, <3>2
    <3> QED
      BY <3>1, <3>3
  <2>5. d \in KeyDigests
    <3>1. log[n] \in KeyEvents
      BY <1>2, <2>1
    <3> QED
      BY <2>4, <3>1 DEF Digest, KeyEvents, KeyDigests
  <2> DEFINE m == Max(G)
  <2>9. e = [group |-> m + 1, type |-> req.type, key |-> req.key, at |-> req.at,
             role |-> anchor[req.key], prev |-> d]
    BY DEF NewEvent
  <2>10. m = u
    BY <2>3
  <2> HIDE DEF m, d
  <2>6. e = [group |-> u + 1, type |-> req.type, key |-> req.key, at |-> req.at,
             role |-> anchor[req.key], prev |-> d]
    BY <2>9, <2>10
  <2>7. e \in KeyEvents /\ e.group = u + 1 /\ e.prev = d
    BY <2>1, <2>5, <2>6 DEF KeyEvents, Requests, EventTypes
  <2>8. u = log[1].group + n - 1 /\ log[1].group \in Nat
    BY <1>1, <1>2, <2>1 DEF Chained, u
  <2> QED
    BY <1>1, <2>4, <2>7, <2>8 DEF Continues
<1> QED
  BY <1>4, <1>5

LEMMA NewEventTyped ==
  ASSUME NEW log \in Seq(KeyEvents), NEW req \in Requests, anchor[req.key] \in Domains,
         NEW e, e = NewEvent(log, req)
  PROVE  e \in KeyEvents /\ e.key = req.key /\ e.type = req.type /\ e.role = anchor[req.key]
<1> DEFINE G == {0} \union Groups(log)
           m == Max(G)
           d == HeadLink(log)
<1>1. \A i \in DOMAIN log : log[i] \in KeyEvents /\ log[i].group \in Nat
  <2>1. \A i \in DOMAIN log : log[i] \in KeyEvents
    BY LenProperties
  <2> QED
    BY <2>1 DEF KeyEvents
<1>2. PICK u \in Nat : \A g \in Groups(log) : g <= u
  <2>1. CASE log = <<>>
    <3>1. Groups(log) = {}
      BY <2>1 DEF Groups
    <3> QED
      BY <3>1
  <2>2. CASE log # <<>>
    <3>1. PICK u \in Nat : Highest(log, u)
      BY <1>1, <2>2, HighestGroup
    <3> QED
      BY <3>1 DEF Highest
  <2> QED
    BY <2>1, <2>2
<1>3. Groups(log) \in SUBSET Nat
  BY <1>1 DEF Groups
<1>4. m \in Nat
  <2>1. G \in SUBSET Nat /\ 0 \in G /\ \A g \in G : g <= u
    <3>1. \A g \in G : g = 0 \/ g \in Groups(log)
      OBVIOUS
    <3>2. 0 \in G
      OBVIOUS
    <3> HIDE DEF G
    <3>3. \A g \in G : g \in Nat /\ g <= u
      BY <1>2, <1>3, <3>1
    <3> QED
      BY <3>2, <3>3
  <2> HIDE DEF G
  <2> QED
    BY <2>1, GreatestIs
<1>5. d \in KeyDigests \union {NoDigest}
  <2>1. CASE log = <<>>
    BY <2>1 DEF HeadLink
  <2>2. CASE log # <<>>
    <3> DEFINE h == Max(Groups(log))
               P(i) == log[i].group = h
    <3>1. PICK i \in DOMAIN log : P(i)
      <4>1. Groups(log) # {}
        <5>1. 1 \in DOMAIN log
          BY <2>2, EmptySeq, LenProperties
        <5> QED
          BY <5>1 DEF Groups
      <4>2. h \in Groups(log)
        BY <1>2, <1>3, <4>1, GreatestIs
      <4> QED
        BY <4>2 DEF Groups
    <3>2. d = Digest(log[CHOOSE j \in DOMAIN log : P(j)])
      BY <2>2 DEF HeadLink
    <3> HIDE DEF P
    <3>3. (CHOOSE j \in DOMAIN log : P(j)) \in DOMAIN log
      BY <3>1, Zenon
    <3>4. PICK j \in DOMAIN log : d = Digest(log[j])
      BY <3>2, <3>3
    <3>5. log[j] \in KeyEvents
      BY <1>1
    <3> HIDE DEF d
    <3> QED
      BY <3>4, <3>5 DEF Digest, KeyEvents, KeyDigests
  <2> QED
    BY <2>1, <2>2
<1>6. e = [group |-> m + 1, type |-> req.type, key |-> req.key, at |-> req.at,
           role |-> anchor[req.key], prev |-> d]
  BY DEF NewEvent
<1> HIDE DEF m, d
<1>7. m + 1 \in Nat \ {0}
  BY <1>4
<1>8. req.type \in EventTypes /\ req.key \in Keys /\ req.at \in Starts \union Ends
  BY DEF Requests, EventTypes
<1> QED
  BY <1>5, <1>6, <1>7, <1>8 DEF KeyEvents

-----------------------------------------------------------------------------
(* The requests.                                                           *)

\* The request of w becomes x; the others stay.
Moved(w, x) ==
  /\ op' \in [Writers -> Ops] /\ op'[w] = x /\ \A v \in Writers : v # w => op'[v] = op[v]

LEMMA OpMoved ==
  ASSUME KeyTyped, NEW w \in Writers, NEW x \in Ops, op' = [op EXCEPT ![w] = x]
  PROVE  Moved(w, x)
<1>1. op \in [Writers -> Ops]
  BY DEF KeyTyped
<1> QED
  BY <1>1 DEF Moved

LEMMA OpForm ==
  ASSUME NEW o \in Ops
  PROVE  /\ o.step \in {"append", "compact", "rewrite", "anchor"} => o.event \in KeyEvents
         /\ o.step = "rewrite" => o.read \in Seq(KeyLines)
         /\ o.step = "append" => o = [step |-> "append", event |-> o.event]
         /\ o.step = "compact" => o = [step |-> "compact", event |-> o.event]
BY DEF Ops, NoOp

LEMMA OpKinds ==
  ASSUME NEW e \in KeyEvents, NEW log \in Seq(KeyLines)
  PROVE  /\ NoOp \in Ops /\ NoOp.step = "idle"
         /\ \A s \in {"append", "compact", "anchor"} : [step |-> s, event |-> e] \in Ops
         /\ [step |-> "rewrite", event |-> e, read |-> log] \in Ops
         /\ [step |-> "anchoring"] \in Ops
BY DEF Ops, NoOp

\* A step of a request that leaves the ledger alone.
LEMMA SoundAfterOp ==
  ASSUME KeySound, NEW w \in Writers, NEW x \in Ops, Moved(w, x),
         UNCHANGED <<klog, recorded, overlapped, accused>>,
         x.step \in {"append", "compact", "rewrite"} => InSection(w), x.step # "append",
         x.step = "rewrite" => Classified(klog) /\ x.read = klog
  PROVE  KeySound'
<1> SUFFICES ASSUME ~ overlapped PROVE KeySound'
  BY DEF KeySound
<1>1. /\ \A v, u \in Writers : InSection(v) /\ InSection(u) => v = u
      /\ \A v \in Writers : OpSound(v)
      /\ \A i \in DOMAIN klog : klog[i] # Torn => klog[i] \in recorded
      /\ Begun(recorded)
      /\ Classified(klog) => SoundLedger(klog, recorded)
      /\ ~ accused
  BY DEF KeySound
<1>2. \A v \in Writers : InSection(v)' => InSection(v)
  BY DEF Moved, InSection
<1>3. \A v, u \in Writers : InSection(v)' /\ InSection(u)' => v = u
  BY <1>1, <1>2
<1>4. ASSUME NEW v \in Writers PROVE OpSound(v)'
  <2>1. CASE v = w
    BY <2>1 DEF Moved, OpSound
  <2>2. CASE v # w
    BY <1>1, <2>2 DEF Moved, OpSound
  <2> QED
    BY <2>1, <2>2
<1>5. /\ \A i \in DOMAIN klog' : klog'[i] # Torn => klog'[i] \in recorded'
      /\ Begun(recorded')
      /\ Classified(klog') => SoundLedger(klog', recorded')
      /\ ~ accused'
  BY <1>1
<1> QED
  BY <1>3, <1>4, <1>5 DEF KeySound

LEMMA FactsAfterOp ==
  ASSUME KeyFacts, NEW w \in Writers, NEW x \in Ops, Moved(w, x), recorded \subseteq recorded',
         x.step \in {"compact", "rewrite", "anchor"} => x.event \in recorded', reader' = reader
  PROVE  KeyFacts'
<1>1. OnFile \subseteq OnFile'
  BY DEF OnFile
<1>2. \A v \in Writers : op'[v].step \in {"compact", "rewrite", "anchor"} => op'[v].event \in recorded'
  <2> TAKE v \in Writers
  <2>1. CASE v = w
    BY <2>1 DEF Moved
  <2>2. CASE v # w
    BY <2>2 DEF Moved, KeyFacts
  <2> QED
    BY <2>1, <2>2
<1>3. reader' # NotReading => Torn \in reader'.held \/ reader'.held \subseteq OnFile'
  BY <1>1 DEF KeyFacts
<1> QED
  BY <1>2, <1>3 DEF KeyFacts

LEMMA StreamAlone ==
  ASSUME KeyStream, UNCHANGED <<alog, witness, dispatch, busy, evicted>>,
         faults' \in {faults, faults + 1}, recorded \subseteq recorded'
  PROVE  KeyStream'
<1>1. PICK F : F \subseteq OnFile /\ StreamInv(F)
  BY DEF KeyStream
<1>2. faults' \in Nat
  BY <1>1 DEF StreamInv, StreamTyped
<1>3. StreamInv(F)'
  BY <1>1, <1>2, SameStream
<1>4. F \subseteq OnFile'
  BY <1>1 DEF OnFile
<1> QED
  BY <1>3, <1>4 DEF KeyStream

LEMMA SubmitKeeps ==
  ASSUME KeyInv, NEW w \in Writers, NEW req \in Requests, Submit(w, req)
  PROVE  KeyInv'
<1> DEFINE e == NewEvent(klog, req)
           x == [step |-> "append", event |-> e]
<1>1. /\ op[w] = NoOp /\ anchor[req.key] \in Domains /\ Classified(klog)
      /\ ValidTransition(klog, req) /\ op' = [op EXCEPT ![w] = x]
      /\ overlapped' = (overlapped \/ \E v \in Writers : InSection(v))
      /\ UNCHANGED <<avars, klog, anchor, accounted, reader, recorded, accused, sweeps>>
  BY DEF Submit
<1>2. KeyTyped /\ KeySound /\ KeyFacts /\ KeyStream
  BY DEF KeyInv
<1>3. klog \in Seq(KeyEvents)
  BY <1>1, <1>2, KeyLinesAreEvents DEF KeyTyped
<1>4. e \in KeyEvents /\ e.key = req.key /\ e.type = req.type /\ e.role = anchor[req.key]
  BY <1>1, <1>3, NewEventTyped
<1>5. ASSUME ~ overlapped PROVE Continues(klog, e) /\ Fits(klog, e)
  <2>1. SoundLedger(klog, recorded)
    BY <1>1, <1>2, <1>5 DEF KeySound
  <2>2. Continues(klog, e)
    BY <1>1, <1>3, <2>1, NewEventContinues DEF SoundLedger
  <2> HIDE DEF e
  <2>3. \A i \in DOMAIN klog : klog[i].key = req.key => klog[i] \in EventsOf(klog, req.key)
    BY DEF EventsOf
  <2>4. \A i \in DOMAIN klog : klog[i].key = e.key => klog[i].role \in {NoRole, e.role}
    BY <1>1, <1>4, <2>3 DEF ValidTransition, TwoDomains
  <2>5. ASSUME e.type \in Terminal
        PROVE  \E i \in DOMAIN klog : klog[i].key = e.key /\ klog[i].type = "activated"
    <3>1. req.type # "activated"
      BY <1>4, <2>5 DEF Terminal
    <3>2. PICK a \in EventsOf(klog, req.key) : a.type = "activated"
      BY <1>1, <3>1 DEF ValidTransition
    <3> QED
      BY <1>4, <3>2 DEF EventsOf
  <2> QED
    BY <2>2, <2>4, <2>5 DEF Fits
<1> HIDE DEF e
<1>6. x \in Ops
  BY <1>1, <1>2, <1>4, OpKinds DEF KeyTyped
<1>7. Moved(w, x)
  <2> HIDE DEF x
  <2> QED
    BY <1>1, <1>2, <1>6, OpMoved
<1>8. x.step = "append" /\ x.event = e
  OBVIOUS
<1> HIDE DEF x
<1>9. KeyTyped'
  BY <1>1, <1>2, <1>7 DEF KeyTyped, Moved
<1>10. KeySound'
  <2> SUFFICES ASSUME ~ overlapped' PROVE KeySound'
    BY DEF KeySound
  <2>1. ~ overlapped /\ \A v \in Writers : ~ InSection(v)
    BY <1>1
  <2>2. /\ \A i \in DOMAIN klog : klog[i] # Torn => klog[i] \in recorded
        /\ Begun(recorded)
        /\ Classified(klog) => SoundLedger(klog, recorded)
        /\ ~ accused
    BY <1>2, <2>1 DEF KeySound
  <2>3. \A v \in Writers : v # w => ~ InSection(v)'
    BY <1>7, <2>1 DEF Moved, InSection
  <2>4. ASSUME NEW v \in Writers PROVE OpSound(v)'
    <3>1. CASE v = w
      BY <1>1, <1>5, <1>7, <1>8, <2>1, <3>1 DEF Moved, OpSound
    <3>2. CASE v # w
      BY <2>3, <3>2 DEF OpSound, InSection
    <3> QED
      BY <3>1, <3>2
  <2>5. /\ \A i \in DOMAIN klog' : klog'[i] # Torn => klog'[i] \in recorded'
        /\ Begun(recorded')
        /\ Classified(klog') => SoundLedger(klog', recorded')
        /\ ~ accused'
    BY <1>1, <2>2
  <2> QED
    BY <2>3, <2>4, <2>5 DEF KeySound
<1>11. KeyFacts'
  BY <1>1, <1>2, <1>6, <1>7, <1>8, FactsAfterOp
<1>12. KeyStream'
  BY <1>1, <1>2, StreamAlone DEF avars
<1> QED
  BY <1>9, <1>10, <1>11, <1>12 DEF KeyInv

\* An event that continues the ledger, whether or not the request goes on.
LEMMA RecordedKeeps ==
  ASSUME KeyTyped, KeySound, NEW w \in Writers, op[w].step = "append", NEW x \in Ops, Moved(w, x),
         klog' = Appended(klog, op[w].event), recorded' = recorded \union {op[w].event},
         UNCHANGED <<overlapped, accused>>, x.step \notin {"append", "rewrite"}
  PROVE  KeySound' /\ klog' \in Seq(KeyLines) /\ recorded' \in SUBSET KeyEvents
<1> DEFINE e == op[w].event
<1>1. klog \in Seq(KeyLines) /\ recorded \in SUBSET KeyEvents /\ op[w] \in Ops
  BY DEF KeyTyped
<1>2. e \in KeyEvents /\ e \in KeyLines
  BY <1>1, OpForm DEF KeyLines
<1>3. klog' = Appended(klog, e) /\ recorded' = recorded \union {e}
  OBVIOUS
<1>4. InSection(w)
  BY DEF InSection
<1>5. ~ overlapped => OpSound(w)
  BY DEF KeySound
<1>6. ~ overlapped => Classified(klog) /\ Continues(klog, e) /\ Fits(klog, e)
  BY <1>5 DEF OpSound
<1> HIDE DEF e
<1>7. klog' \in Seq(KeyLines) /\ Longer(klog', klog, e)
  BY <1>1, <1>2, <1>3, Lengthened
<1>8. KeySound'
  <2> SUFFICES ASSUME ~ overlapped PROVE KeySound'
    BY DEF KeySound
  <2>1. /\ \A v, u \in Writers : InSection(v) /\ InSection(u) => v = u
        /\ \A i \in DOMAIN klog : klog[i] # Torn => klog[i] \in recorded
        /\ Begun(recorded) /\ SoundLedger(klog, recorded) /\ ~ accused
    BY <1>6 DEF KeySound
  <2>2. \A v \in Writers : v # w => ~ InSection(v)'
    BY <1>4, <2>1 DEF Moved, InSection
  <2>3. ASSUME NEW v \in Writers PROVE OpSound(v)'
    <3>1. CASE v = w
      BY <3>1 DEF Moved, OpSound
    <3>2. CASE v # w
      BY <2>2, <3>2 DEF OpSound, InSection
    <3> QED
      BY <3>1, <3>2
  <2>4. \A i \in DOMAIN klog' : (i \in DOMAIN klog /\ klog'[i] = klog[i]) \/ klog'[i] = e
    BY <1>7 DEF Longer
  <2>5. \A i \in DOMAIN klog' : klog'[i] # Torn => klog'[i] \in recorded'
    BY <1>3, <2>1, <2>4
  <2>6. Begun(recorded')
    <3> SUFFICES ASSUME NEW y \in recorded', y.type \in Terminal
                 PROVE  \E a \in recorded' : a.type = "activated" /\ a.key = y.key
      BY DEF Begun
    <3>1. CASE y \in recorded
      BY <1>3, <2>1, <3>1 DEF Begun
    <3>2. CASE y = e
      <4>1. PICK i \in DOMAIN klog : klog[i].key = e.key /\ klog[i].type = "activated"
        BY <1>6, <3>2 DEF Fits
      <4>2. klog[i] \in recorded
        BY <1>6, <2>1 DEF Classified
      <4> QED
        BY <1>3, <3>2, <4>1, <4>2
    <3> QED
      BY <1>3, <3>1, <3>2
  <2>7. SoundLedger(klog', recorded')
    <3>1. klog \in Seq(KeyEvents)
      BY <1>1, <1>6, KeyLinesAreEvents
    <3> QED
      BY <1>1, <1>2, <1>3, <1>6, <2>1, <3>1, AppendLedger
  <2>8. ~ accused'
    BY <2>1
  <2> QED
    BY <2>2, <2>3, <2>5, <2>6, <2>7, <2>8 DEF KeySound
<1> QED
  BY <1>1, <1>2, <1>3, <1>7, <1>8

LEMMA AppendEventKeeps ==
  ASSUME KeyInv, NEW w \in Writers, AppendEvent(w)
  PROVE  KeyInv'
<1> DEFINE x == [step |-> "compact", event |-> op[w].event]
<1>1. KeyTyped /\ KeySound /\ KeyFacts /\ KeyStream
  BY DEF KeyInv
<1>2. /\ op[w].step = "append" /\ klog' = Appended(klog, op[w].event)
      /\ recorded' = recorded \union {op[w].event} /\ op' = [op EXCEPT ![w].step = "compact"]
      /\ UNCHANGED <<avars, anchor, accounted, reader, accepted, overlapped, accused, sweeps>>
  BY DEF AppendEvent
<1>3. op[w] \in Ops /\ klog \in Seq(KeyLines)
  BY <1>1 DEF KeyTyped
<1>4. op[w].event \in KeyEvents /\ op[w] = [step |-> "append", event |-> op[w].event]
  BY <1>2, <1>3, OpForm
<1>5. x \in Ops
  BY <1>3, <1>4, OpKinds
<1>6. op' = [op EXCEPT ![w] = x]
  <2> DEFINE ev == op[w].event
  <2>1. op[w] = [step |-> "append", event |-> ev]
    BY <1>4
  <2>2. op' = [op EXCEPT ![w] = [op[w] EXCEPT !.step = "compact"]]
    BY <1>2
  <2> HIDE DEF ev
  <2>3. [op[w] EXCEPT !.step = "compact"] = [step |-> "compact", event |-> ev]
    BY <2>1
  <2> QED
    BY <2>2, <2>3 DEF ev
<1>7. x.step = "compact" /\ x.event = op[w].event
  OBVIOUS
<1> HIDE DEF x
<1>8. Moved(w, x)
  BY <1>1, <1>5, <1>6, OpMoved
<1>9. KeySound' /\ klog' \in Seq(KeyLines) /\ recorded' \in SUBSET KeyEvents
  BY <1>1, <1>2, <1>5, <1>7, <1>8, RecordedKeeps
<1>10. KeyTyped'
  BY <1>1, <1>2, <1>8, <1>9 DEF KeyTyped, Moved
<1>11. recorded \subseteq recorded' /\ x.event \in recorded'
  BY <1>2, <1>7
<1>12. KeyFacts'
  BY <1>1, <1>2, <1>5, <1>8, <1>11, FactsAfterOp
<1>13. KeyStream'
  BY <1>1, <1>2, <1>11, StreamAlone DEF avars
<1> QED
  BY <1>9, <1>10, <1>12, <1>13 DEF KeyInv

LEMMA AppendEventFailsKeeps ==
  ASSUME KeyInv, NEW w \in Writers, AppendEventFails(w)
  PROVE  KeyInv'
<1>1. KeyTyped /\ KeySound /\ KeyFacts /\ KeyStream
  BY DEF KeyInv
<1>2. /\ op[w].step = "append" /\ op' = [op EXCEPT ![w] = NoOp] /\ faults' = faults + 1
      /\ \/ klog' = TornAppend(klog) /\ recorded' = recorded
         \/ klog' = Appended(klog, op[w].event) /\ recorded' = recorded \union {op[w].event}
      /\ UNCHANGED <<alog, witness, dispatch, busy, evicted, anchor, accounted, reader, accepted,
                     overlapped, accused, sweeps>>
  BY DEF AppendEventFails
<1>3. NoOp \in Ops /\ NoOp.step = "idle"
  BY DEF Ops, NoOp
<1>4. Moved(w, NoOp)
  BY <1>1, <1>2, <1>3, OpMoved
<1>5. KeySound' /\ klog' \in Seq(KeyLines) /\ recorded' \in SUBSET KeyEvents
  <2>1. CASE klog' = Appended(klog, op[w].event) /\ recorded' = recorded \union {op[w].event}
    BY <1>1, <1>2, <1>3, <1>4, <2>1, RecordedKeeps
  <2>2. CASE klog' = TornAppend(klog) /\ recorded' = recorded
    <3>1. klog \in Seq(KeyLines) /\ Torn \in KeyLines /\ recorded \in SUBSET KeyEvents
      BY <1>1 DEF KeyTyped, KeyLines
    <3>2. klog' = Appended(klog, Torn)
      BY <2>2 DEF TornAppend, Appended
    <3>3. klog' \in Seq(KeyLines) /\ Longer(klog', klog, Torn)
      BY <3>1, <3>2, Lengthened
    <3>4. /\ \A i \in DOMAIN klog' : (i \in DOMAIN klog /\ klog'[i] = klog[i]) \/ klog'[i] = Torn
          /\ ~ Classified(klog')
      BY <3>3 DEF Longer, Classified
    <3>5. KeySound'
      <4> SUFFICES ASSUME ~ overlapped PROVE KeySound'
        BY <1>2 DEF KeySound
      <4>1. /\ \A v, u \in Writers : InSection(v) /\ InSection(u) => v = u
            /\ \A i \in DOMAIN klog : klog[i] # Torn => klog[i] \in recorded
            /\ Begun(recorded) /\ ~ accused
        BY <1>1 DEF KeySound
      <4>2. \A v \in Writers : ~ InSection(v)'
        BY <1>2, <1>3, <1>4, <4>1 DEF Moved, InSection
      <4>3. \A v \in Writers : OpSound(v)'
        BY <4>2 DEF OpSound, InSection
      <4>4. \A i \in DOMAIN klog' : klog'[i] # Torn => klog'[i] \in recorded'
        BY <2>2, <3>4, <4>1
      <4>5. Begun(recorded') /\ ~ accused' /\ ~ Classified(klog')
        BY <1>2, <2>2, <3>4, <4>1
      <4> QED
        BY <4>2, <4>3, <4>4, <4>5 DEF KeySound
    <3> QED
      BY <2>2, <3>1, <3>3, <3>5
  <2> QED
    BY <1>2, <2>1, <2>2
<1>6. KeyTyped'
  BY <1>1, <1>2, <1>4, <1>5 DEF KeyTyped, Moved
<1>7. recorded \subseteq recorded'
  BY <1>2
<1>8. KeyFacts'
  BY <1>1, <1>2, <1>3, <1>4, <1>7, FactsAfterOp
<1>9. KeyStream'
  BY <1>1, <1>2, <1>7, StreamAlone
<1> QED
  BY <1>5, <1>6, <1>8, <1>9 DEF KeyInv

\* A step of a request that leaves everything else alone.
LEMMA OpOnlyKeeps ==
  ASSUME KeyInv, NEW w \in Writers, NEW x \in Ops, op' = [op EXCEPT ![w] = x],
         UNCHANGED <<klog, anchor, reader, recorded, overlapped, accused>>, KeyStream',
         x.step \in {"append", "compact", "rewrite"} => InSection(w), x.step # "append",
         x.step = "rewrite" => Classified(klog) /\ x.read = klog,
         x.step \in {"compact", "rewrite", "anchor"} => x.event \in recorded
  PROVE  KeyInv'
<1>1. KeyTyped /\ KeySound /\ KeyFacts
  BY DEF KeyInv
<1>2. Moved(w, x)
  BY <1>1, OpMoved
<1>3. KeyTyped'
  BY <1>1, <1>2 DEF KeyTyped, Moved
<1>4. KeySound'
  BY <1>1, <1>2, SoundAfterOp
<1>5. recorded' = recorded
  OBVIOUS
<1>6. KeyFacts'
  BY <1>1, <1>2, <1>5, FactsAfterOp
<1> QED
  BY <1>3, <1>4, <1>6 DEF KeyInv

LEMMA CompactNeededKeeps ==
  ASSUME KeyInv, NEW w \in Writers, CompactNeeded(w)
  PROVE  KeyInv'
<1>1. KeyTyped /\ KeyFacts /\ KeyStream
  BY DEF KeyInv
<1>2. /\ op[w].step = "compact"
      /\ UNCHANGED <<avars, klog, anchor, accounted, reader, accepted, recorded, overlapped,
                     accused, sweeps>>
  BY DEF CompactNeeded
<1> DEFINE e == op[w].event
<1>3. e \in KeyEvents /\ e \in recorded /\ op[w] = [step |-> "compact", event |-> e] /\ InSection(w)
      /\ klog \in Seq(KeyLines)
  BY <1>1, <1>2, OpForm DEF KeyTyped, KeyFacts, InSection
<1>4. KeyStream'
  BY <1>1, <1>2, StreamAlone DEF avars
<1> DEFINE a == [step |-> "anchor", event |-> e]
           r == [step |-> "rewrite", event |-> e, read |-> klog]
<1>5. \/ op' = [op EXCEPT ![w] = a]
      \/ op' = [op EXCEPT ![w] = NoOp]
      \/ Classified(klog) /\ op' = [op EXCEPT ![w] = r]
  <2>1. CASE DroppedEvents(klog) = {} /\ Classified(klog)
    <3>1. op' = [op EXCEPT ![w] = [op[w] EXCEPT !.step = "anchor"]]
      BY <2>1 DEF CompactNeeded
    <3> HIDE DEF e
    <3>2. [op[w] EXCEPT !.step = "anchor"] = a
      BY <1>3
    <3> QED
      BY <3>1, <3>2
  <2>2. CASE DroppedEvents(klog) = {} /\ ~ Classified(klog)
    BY <2>2 DEF CompactNeeded
  <2>3. CASE DroppedEvents(klog) # {}
    <3>1. Classified(klog)
      BY <2>3 DEF DroppedEvents
    <3> QED
      BY <2>3, <3>1 DEF CompactNeeded
  <2> QED
    BY <2>1, <2>2, <2>3
<1>6. a \in Ops /\ NoOp \in Ops /\ r \in Ops
  BY <1>3, OpKinds
<1>7. /\ a.step = "anchor" /\ a.event = e /\ NoOp.step = "idle"
      /\ r.step = "rewrite" /\ r.read = klog /\ r.event = e
  BY DEF NoOp
<1> HIDE DEF a, r, e
<1>8. CASE op' = [op EXCEPT ![w] = a]
  BY <1>2, <1>3, <1>4, <1>6, <1>7, <1>8, OpOnlyKeeps
<1>9. CASE op' = [op EXCEPT ![w] = NoOp]
  BY <1>2, <1>3, <1>4, <1>6, <1>7, <1>9, OpOnlyKeeps
<1>10. CASE Classified(klog) /\ op' = [op EXCEPT ![w] = r]
  BY <1>2, <1>3, <1>4, <1>6, <1>7, <1>10, OpOnlyKeeps
<1> QED
  BY <1>5, <1>8, <1>9, <1>10

LEMMA RewriteRefusedKeeps ==
  ASSUME KeyInv, NEW w \in Writers, RewriteRefused(w)
  PROVE  KeyInv'
<1>1. /\ op' = [op EXCEPT ![w] = NoOp]
      /\ UNCHANGED <<avars, klog, anchor, accounted, reader, accepted, recorded, overlapped,
                     accused, sweeps>>
  BY DEF RewriteRefused
<1>2. KeyStream'
  BY <1>1, StreamAlone DEF KeyInv, avars
<1>3. NoOp \in Ops /\ NoOp.step = "idle"
  BY DEF Ops, NoOp
<1> QED
  BY <1>1, <1>2, <1>3, OpOnlyKeeps

LEMMA AnswerKeeps ==
  ASSUME KeyInv, NEW w \in Writers, Answer(w)
  PROVE  KeyInv'
<1>1. /\ op' = [op EXCEPT ![w] = NoOp]
      /\ UNCHANGED <<avars, klog, anchor, accounted, reader, accepted, recorded, overlapped,
                     accused, sweeps>>
  BY DEF Answer
<1>2. KeyStream'
  BY <1>1, StreamAlone DEF KeyInv, avars
<1>3. NoOp \in Ops /\ NoOp.step = "idle"
  BY DEF Ops, NoOp
<1> QED
  BY <1>1, <1>2, <1>3, OpOnlyKeeps

LEMMA RewriteEventsKeeps ==
  ASSUME KeyInv, NEW w \in Writers, RewriteEvents(w)
  PROVE  KeyInv'
<1> DEFINE read == op[w].read
           e == op[w].event
           x == [step |-> "anchor", event |-> e]
<1>1. KeyTyped /\ KeySound /\ KeyFacts /\ KeyStream
  BY DEF KeyInv
<1>2. /\ op[w].step = "rewrite" /\ klog' = WithoutGroups(read, DroppedEvents(read))
      /\ op' = [op EXCEPT ![w] = x]
      /\ UNCHANGED <<avars, anchor, reader, accepted, recorded, overlapped, accused, sweeps>>
  BY DEF RewriteEvents
<1>3. e \in KeyEvents /\ e \in recorded /\ InSection(w) /\ read \in Seq(KeyLines)
  BY <1>1, <1>2, OpForm DEF KeyTyped, KeyFacts, InSection
<1>4. x \in Ops /\ x.step = "anchor" /\ x.event = e
  BY <1>3, OpKinds
<1>5. ~ overlapped => OpSound(w)
  BY <1>1 DEF KeySound
<1>6. ~ overlapped => Classified(klog) /\ read = klog
  BY <1>2, <1>5 DEF OpSound
<1> HIDE DEF x, e, read
<1>7. Moved(w, x)
  BY <1>1, <1>2, <1>4, OpMoved
<1>8. klog' \in Seq(KeyLines)
  BY <1>2, <1>3, KeptLines
<1>9. KeyTyped'
  BY <1>1, <1>2, <1>7, <1>8 DEF KeyTyped, Moved
<1>10. KeySound'
  <2> SUFFICES ASSUME ~ overlapped PROVE KeySound'
    BY <1>2 DEF KeySound
  <2>1. /\ \A v, u \in Writers : InSection(v) /\ InSection(u) => v = u
        /\ \A i \in DOMAIN klog : klog[i] # Torn => klog[i] \in recorded
        /\ Begun(recorded) /\ SoundLedger(klog, recorded) /\ ~ accused
    BY <1>1, <1>6 DEF KeySound
  <2>2. \A v \in Writers : ~ InSection(v)'
    BY <1>3, <1>4, <1>7, <2>1 DEF Moved, InSection
  <2>3. \A v \in Writers : OpSound(v)'
    BY <2>2 DEF OpSound, InSection
  <2>4. klog \in Seq(KeyEvents) /\ recorded \in SUBSET KeyEvents
    BY <1>1, <1>6, KeyLinesAreEvents DEF KeyTyped
  <2>5. klog' = WithoutGroups(klog, DroppedGroups(klog, KeyCapacity))
    BY <1>2, <1>6 DEF DroppedEvents
  <2>6. /\ SoundLedger(klog', recorded)
        /\ \A i \in DOMAIN klog' : \E j \in DOMAIN klog : klog'[i] = klog[j]
    BY <2>1, <2>4, <2>5, CompactLedger
  <2>7. \A i \in DOMAIN klog' : klog'[i] # Torn => klog'[i] \in recorded'
    BY <1>2, <2>1, <2>6
  <2>8. Begun(recorded') /\ ~ accused' /\ SoundLedger(klog', recorded')
    BY <1>2, <2>1, <2>6
  <2> QED
    BY <2>2, <2>3, <2>7, <2>8 DEF KeySound
<1>11. recorded' = recorded /\ x.event \in recorded'
  BY <1>2, <1>3, <1>4
<1>12. KeyFacts'
  BY <1>1, <1>2, <1>4, <1>7, <1>11, FactsAfterOp
<1>13. KeyStream'
  BY <1>1, <1>2, StreamAlone DEF avars
<1> QED
  BY <1>9, <1>10, <1>12, <1>13 DEF KeyInv

\* The stream may be asked to witness more.
LEMMA StreamGrows ==
  ASSUME NEW F, NEW G, F \subseteq G, StreamInv(F)
  PROVE  StreamInv(G)
<1>1. Entries(F) \subseteq Entries(G)
  BY DEF Entries
<1>2. Seq(Entries(F)) \subseteq Seq(Entries(G))
  BY <1>1, SeqMonotonic
<1>3. Works(F) \subseteq Works(G)
  BY <1>1, <1>2 DEF Works
<1>4. alog \in Seq(Entries(G) \union {Torn})
  <2>1. Entries(F) \union {Torn} \subseteq Entries(G) \union {Torn}
    BY <1>1
  <2>2. alog \in Seq(Entries(F) \union {Torn})
    BY DEF StreamInv, StreamTyped
  <2> QED
    BY <2>1, <2>2, SeqMonotonic
<1>5. busy \in [Threads -> {Idle} \union Works(G)]
  BY <1>3 DEF StreamInv, StreamTyped
<1>6. witness \in SUBSET [seq : Nat \ {0}, fact : G]
  <2>1. [seq : Nat \ {0}, fact : F] \subseteq [seq : Nat \ {0}, fact : G]
    OBVIOUS
  <2> QED
    BY <2>1 DEF StreamInv, StreamTyped
<1> QED
  BY <1>4, <1>5, <1>6 DEF StreamInv, StreamTyped

LEMMA AnchorEventKeeps ==
  ASSUME KeyInv, NEW w \in Writers, AnchorEvent(w)
  PROVE  KeyInv'
<1> DEFINE x == [step |-> "anchoring"]
<1>1. KeyTyped /\ KeyFacts /\ KeyStream
  BY DEF KeyInv
<1>2. /\ op[w].step = "anchor" /\ op' = [op EXCEPT ![w] = x]
      /\ OpenAnchor(w, Digest(op[w].event)) \/ OpenRefused
      /\ UNCHANGED <<klog, anchor, accounted, reader, accepted, recorded, overlapped, accused,
                     sweeps>>
  BY DEF AnchorEvent
<1>3. x \in Ops /\ x.step = "anchoring"
  BY DEF Ops
<1>4. op[w].event \in recorded
  BY <1>1, <1>2 DEF KeyFacts
<1>5. KeyStream'
  <2>1. CASE OpenRefused
    BY <1>1, <1>2, <2>1, StreamAlone DEF OpenRefused, avars
  <2>2. CASE OpenAnchor(w, Digest(op[w].event))
    <3>1. PICK F : F \subseteq OnFile /\ StreamInv(F)
      BY <1>1 DEF KeyStream
    <3>2. PICK f : f = Digest(op[w].event)
      OBVIOUS
    <3> DEFINE G == F \union {f}
    <3>3. f \in OnFile
      BY <1>4, <3>2 DEF OnFile
    <3>4. OnFile' = OnFile
      BY <1>2 DEF OnFile
    <3>5. f \in G /\ F \subseteq G /\ G \subseteq OnFile'
      BY <3>1, <3>3, <3>4
    <3> HIDE DEF G
    <3>6. StreamInv(G)
      BY <3>1, <3>5, StreamGrows
    <3>7. OpenAnchor(w, f)
      BY <2>2, <3>2
    <3>8. w \in Threads
      BY KeyAssumption
    <3>9. StreamInv(G)'
      BY <3>5, <3>6, <3>7, <3>8, OpenAnchorKeeps
    <3> QED
      BY <3>5, <3>9 DEF KeyStream
  <2> QED
    BY <1>2, <2>1, <2>2
<1> HIDE DEF x
<1> QED
  BY <1>2, <1>3, <1>5, OpOnlyKeeps

\* A step that leaves the ledger and its requests alone.
LEMMA LedgerAlone ==
  ASSUME KeyInv, UNCHANGED <<klog, op, anchor, reader, recorded, overlapped, accused>>, KeyStream'
  PROVE  KeyInv'
<1>1. KeyTyped'
  BY DEF KeyInv, KeyTyped
<1>2. KeySound'
  BY DEF KeyInv, KeySound, InSection, OpSound
<1>3. KeyFacts'
  BY DEF KeyInv, KeyFacts, OnFile
<1> QED
  BY <1>1, <1>2, <1>3 DEF KeyInv

LEMMA SweepKeeps ==
  ASSUME KeyInv, Sweep
  PROVE  KeyInv'
<1>1. /\ SweepOpen(Sweeper) \/ SweepSkipped
      /\ UNCHANGED <<klog, op, anchor, accounted, reader, accepted, recorded, overlapped, accused>>
  BY DEF Sweep
<1>2. PICK F : F \subseteq OnFile /\ StreamInv(F)
  BY DEF KeyInv, KeyStream
<1>3. StreamInv(F)'
  <2>1. CASE SweepOpen(Sweeper)
    BY <1>2, <2>1, WorkOffKeeps, KeyAssumption DEF SweepOpen, Sweepable
  <2>2. CASE SweepSkipped
    <3>1. UNCHANGED avars /\ faults \in Nat
      BY <1>2, <2>2 DEF SweepSkipped, StreamInv, StreamTyped
    <3> QED
      BY <1>2, <3>1, SameStream DEF avars
  <2> QED
    BY <1>1, <2>1, <2>2
<1>4. F \subseteq OnFile'
  BY <1>1, <1>2 DEF OnFile
<1>5. KeyStream'
  BY <1>3, <1>4 DEF KeyStream
<1> QED
  BY <1>1, <1>5, LedgerAlone

LEMMA StreamKeeps ==
  ASSUME KeyInv, Stream
  PROVE  KeyInv'
<1>1. PICK t \in Threads : AnchorStep(t)
  BY DEF Stream
<1>2. UNCHANGED kvars
  BY DEF Stream
<1>3. PICK F : F \subseteq OnFile /\ StreamInv(F)
  BY DEF KeyInv, KeyStream
<1>4. StreamInv(F)'
  BY <1>1, <1>3, AnchorStepKeeps
<1>5. F \subseteq OnFile'
  BY <1>2, <1>3 DEF OnFile, kvars
<1>6. KeyStream'
  BY <1>4, <1>5 DEF KeyStream
<1> QED
  BY <1>2, <1>6, LedgerAlone DEF kvars

\* The claims of a stream are facts its producer asked to be witnessed.
LEMMA ClaimsAreFacts ==
  ASSUME NEW F, StreamInv(F)
  PROVE  Claims(alog) = {Torn} \/ Claims(alog) \subseteq F
<1>1. CASE ~ Classified(alog) \/ Conflicts(alog) # {}
  BY <1>1 DEF Claims
<1>2. CASE Classified(alog) /\ Conflicts(alog) = {}
  <2>1. Claims(alog) = {Latest(alog, s).fact : s \in Seqs(alog)}
    BY <1>2 DEF Claims
  <2>2. alog \in Seq(Entries(F)) /\ \A i \in DOMAIN alog : alog[i] \in Entries(F)
    BY <1>2, LinesAreEntries DEF StreamInv, StreamTyped
  <2>3. ASSUME NEW s \in Seqs(alog) PROVE Latest(alog, s).fact \in F
    <3>1. s \in Groups(alog)
      BY DEF Seqs
    <3>2. PICK i \in DOMAIN alog : Latest(alog, s) = alog[i]
      BY <2>2, <3>1, LatestExists
    <3> QED
      BY <2>2, <3>2 DEF Entries
  <2> QED
    BY <2>1, <2>3
<1> QED
  BY <1>1, <1>2

LEMMA ViewFirstKeeps ==
  ASSUME KeyInv, ViewFirst
  PROVE  KeyInv'
<1> DEFINE held == Claims(alog)
<1>1. /\ reader' = [first |-> "anchors", held |-> held]
      /\ UNCHANGED <<avars, klog, op, anchor, accounted, accepted, recorded, overlapped, accused,
                     sweeps>>
  BY DEF ViewFirst, ReadAnchorsFirst
<1>2. PICK F : F \subseteq OnFile /\ StreamInv(F)
  BY DEF KeyInv, KeyStream
<1>3. held = {Torn} \/ held \subseteq OnFile
  BY <1>2, ClaimsAreFacts
<1>4. OnFile \subseteq KeyDigests
  <2>1. \A e \in recorded : e \in KeyEvents
    BY DEF KeyInv, KeyTyped
  <2>2. \A e \in KeyEvents : Digest(e) \in KeyDigests
    BY DEF KeyEvents, KeyDigests, Digest
  <2> QED
    BY <2>1, <2>2 DEF OnFile
<1>5. held \in SUBSET (KeyDigests \union {Torn})
  BY <1>3, <1>4
<1> HIDE DEF held
<1>6. KeyTyped'
  BY <1>1, <1>5 DEF KeyInv, KeyTyped
<1>7. KeySound'
  BY <1>1 DEF KeyInv, KeySound, InSection, OpSound
<1>8. KeyFacts'
  BY <1>1, <1>3 DEF KeyInv, KeyFacts, OnFile
<1>9. KeyStream'
  BY <1>1, StreamAlone DEF KeyInv, avars
<1> QED
  BY <1>6, <1>7, <1>8, <1>9 DEF KeyInv

LEMMA NothingUnrealized ==
  ASSUME NEW log \in Seq(KeyLines), NEW R \in SUBSET KeyEvents,
         Classified(log) => SoundLedger(log, R),
         NEW claims, Torn \in claims \/ claims \subseteq {Digest(e) : e \in R}
  PROVE  Realization(claims, log) # "unrealized"
<1> DEFINE judged == {c \in claims : log = <<>> \/ c.group >= Min(Groups(log))}
<1> SUFFICES ASSUME Torn \notin claims, Classified(log)
             PROVE  \A c \in judged : \E i \in DOMAIN log : Realizes(log[i], c)
  BY DEF Realization
<1>1. claims \subseteq {Digest(e) : e \in R} /\ SoundLedger(log, R) /\ log \in Seq(KeyEvents)
  BY KeyLinesAreEvents
<1>2. Groups(log) \in SUBSET Nat
  <2>1. \A i \in DOMAIN log : log[i].group \in Nat
    BY KeyLinesAreEvents
  <2> QED
    BY <2>1 DEF Groups
<1> TAKE c \in judged
<1>3. PICK e \in R : c = Digest(e)
  BY <1>1
<1>4. c.group = e.group /\ e.group \in Nat
  BY <1>3 DEF Digest, KeyEvents
<1>5. Kept(log, e)
  BY <1>1 DEF SoundLedger
<1>6. ASSUME log # <<>>, \A i \in DOMAIN log : e.group < log[i].group PROVE FALSE
  <2> DEFINE m == Min(Groups(log))
  <2>1. Groups(log) # {}
    <3>1. 1 \in DOMAIN log
      BY <1>1, <1>6, EmptySeq, LenProperties
    <3> QED
      BY <3>1 DEF Groups
  <2>2. m \in Groups(log)
    BY <1>2, <2>1, LeastIs
  <2>3. c.group >= m
    BY <1>6
  <2> HIDE DEF m
  <2>4. e.group < m
    BY <1>6, <2>2 DEF Groups
  <2>5. m \in Nat
    BY <1>2, <2>2
  <2> QED
    BY <1>4, <2>3, <2>4, <2>5
<1>7. PICK i \in DOMAIN log : log[i] = e
  BY <1>5, <1>6 DEF Kept
<1> QED
  BY <1>3, <1>7 DEF Realizes

LEMMA ViewSecondKeeps ==
  ASSUME KeyInv, ViewSecond
  PROVE  KeyInv'
<1>1. /\ reader # NotReading /\ reader' = NotReading
      /\ UNCHANGED <<avars, klog, op, anchor, accounted, accepted, recorded, overlapped, sweeps>>
      /\ accused' = (accused \/ "unrealized" =
           IF reader.first = "anchors" THEN Realization(reader.held, klog)
                                       ELSE Realization(Claims(alog), reader.held))
  BY DEF ViewSecond
<1>2. KeyTyped /\ KeySound /\ KeyFacts /\ KeyStream
  BY DEF KeyInv
<1>3. reader.first = "anchors"
  BY <1>1, <1>2 DEF KeyTyped
<1>4. accused' = (accused \/ "unrealized" = Realization(reader.held, klog))
  BY <1>1, <1>3
<1>5. KeyTyped'
  <2>1. accused' \in BOOLEAN
    BY <1>2, <1>4 DEF KeyTyped
  <2> QED
    BY <1>1, <1>2, <2>1 DEF KeyTyped
<1>6. KeySound'
  <2> SUFFICES ASSUME ~ overlapped PROVE KeySound'
    BY <1>1 DEF KeySound
  <2>1. ~ accused /\ (Classified(klog) => SoundLedger(klog, recorded))
    BY <1>2 DEF KeySound
  <2>2. Torn \in reader.held \/ reader.held \subseteq {Digest(e) : e \in recorded}
    BY <1>1, <1>2 DEF KeyFacts, OnFile
  <2>3. Realization(reader.held, klog) # "unrealized"
    BY <1>2, <2>1, <2>2, NothingUnrealized DEF KeyTyped
  <2>4. ~ accused'
    BY <1>4, <2>1, <2>3
  <2> QED
    BY <1>1, <1>2, <2>4 DEF KeySound, InSection, OpSound
<1>7. KeyFacts'
  BY <1>1, <1>2 DEF KeyFacts, OnFile
<1>8. KeyStream'
  BY <1>1, <1>2, StreamAlone DEF avars
<1> QED
  BY <1>5, <1>6, <1>7, <1>8 DEF KeyInv

LEMMA CrashKeeps ==
  ASSUME KeyInv, Crash
  PROVE  KeyInv'
<1>1. /\ ACrash /\ faults' = faults + 1 /\ op' = [w \in Writers |-> NoOp] /\ reader' = NotReading
      /\ anchor' \in [Keys -> Domains \union {"none"}]
      /\ UNCHANGED <<klog, accounted, accepted, recorded, overlapped, accused, sweeps>>
  BY DEF Crash
<1>2. KeyTyped /\ KeySound /\ KeyFacts /\ KeyStream
  BY DEF KeyInv
<1>3. NoOp \in Ops /\ \A w \in Writers : op'[w] = NoOp /\ op'[w].step = "idle"
  BY <1>1 DEF Ops, NoOp
<1>4. KeyTyped'
  BY <1>1, <1>2, <1>3 DEF KeyTyped
<1>5. KeySound'
  <2>1. \A w \in Writers : ~ InSection(w)' /\ OpSound(w)'
    BY <1>3 DEF InSection, OpSound
  <2> QED
    BY <1>1, <1>2, <2>1 DEF KeySound
<1>6. KeyFacts'
  BY <1>1, <1>3 DEF KeyFacts
<1>7. KeyStream'
  <2>1. PICK F : F \subseteq OnFile /\ StreamInv(F)
    BY <1>2 DEF KeyStream
  <2>2. faults' \in Nat
    BY <1>1, <2>1 DEF StreamInv, StreamTyped
  <2>3. StreamInv(F)'
    BY <1>1, <2>1, <2>2, ACrashKeeps
  <2>4. F \subseteq OnFile'
    BY <1>1, <2>1 DEF OnFile
  <2> QED
    BY <2>3, <2>4 DEF KeyStream
<1> QED
  BY <1>4, <1>5, <1>6, <1>7 DEF KeyInv

LEMMA KeyInitHolds ==
  ASSUME Init
  PROVE  KeyInv
<1>1. /\ AInit /\ op = [w \in Writers |-> NoOp] /\ reader = NotReading
      /\ klog \in {<<>>} \union {<<OldLine(k, t)>> : k \in Keys, t \in Starts}
      /\ anchor \in [Keys -> Domains] /\ recorded = {klog[i] : i \in DOMAIN klog}
      /\ overlapped = FALSE /\ accused = FALSE
  BY DEF Init
<1>2. klog \in Seq(KeyEvents) /\ Chained(klog) /\ OneRole(klog)
      /\ \A i \in DOMAIN klog : klog[i].type = "activated"
  <2>1. CASE klog = <<>>
    BY <2>1 DEF Chained, OneRole
  <2>2. CASE \E k \in Keys, t \in Starts : klog = <<OldLine(k, t)>>
    <3>1. PICK k \in Keys, t \in Starts : klog = <<OldLine(k, t)>>
      BY <2>2
    <3> DEFINE l == OldLine(k, t)
    <3>2. l \in KeyEvents /\ l.type = "activated" /\ l.group \in Nat
      BY DEF OldLine, KeyEvents, EventTypes
    <3> HIDE DEF l
    <3>3. klog = <<l>>
      BY <3>1 DEF l
    <3>4. DOMAIN klog = {1} /\ klog[1] = l /\ klog \in Seq(KeyEvents)
      BY <3>2, <3>3
    <3> QED
      BY <3>2, <3>4 DEF Chained, OneRole
  <2> QED
    BY <1>1, <2>1, <2>2
<1>3. \A i \in DOMAIN klog : klog[i] \in KeyEvents
  BY <1>2, LenProperties
<1>4. recorded \in SUBSET KeyEvents /\ \A e \in recorded : Kept(klog, e) /\ e.type = "activated"
  BY <1>1, <1>2, <1>3 DEF Kept
<1>5. klog \in Seq(KeyLines)
  BY <1>2, EventsAreClassified
<1>6. \A w \in Writers : op[w] = NoOp /\ op[w].step = "idle" /\ NoOp \in Ops
  BY <1>1 DEF NoOp, Ops
<1>7. KeyTyped
  <2>1. op \in [Writers -> Ops]
    BY <1>1, <1>6
  <2>2. anchor \in [Keys -> Domains \union {"none"}]
    BY <1>1
  <2> QED
    BY <1>1, <1>4, <1>5, <2>1, <2>2 DEF KeyTyped
<1>8. KeySound
  <2>1. \A w \in Writers : ~ InSection(w) /\ OpSound(w)
    BY <1>6 DEF InSection, OpSound
  <2>2. Begun(recorded)
    BY <1>4 DEF Begun, Terminal
  <2>3. SoundLedger(klog, recorded)
    BY <1>2, <1>4 DEF SoundLedger
  <2>4. \A i \in DOMAIN klog : klog[i] # Torn => klog[i] \in recorded
    BY <1>1
  <2> QED
    BY <1>1, <2>1, <2>2, <2>3, <2>4 DEF KeySound
<1>9. KeyFacts
  BY <1>1, <1>6 DEF KeyFacts
<1>10. KeyStream
  <2>1. StreamInv({})
    BY <1>1, AInitSound
  <2> QED
    BY <2>1 DEF KeyStream
<1> QED
  BY <1>7, <1>8, <1>9, <1>10 DEF KeyInv

\* The invariant of the key ledger and its stream: the ledger is a chain, the
\* requests agree with it, and what the stream witnesses is on file.
THEOREM KeyInvariant == Spec => []KeyInv
<1>1. Init => KeyInv
  BY KeyInitHolds
<1>2. KeyInv /\ [Next]_vars => KeyInv'
  <2> SUFFICES ASSUME KeyInv, [Next]_vars PROVE KeyInv'
    OBVIOUS
  <2>1. ASSUME UNCHANGED vars PROVE KeyInv'
    <3>1. UNCHANGED avars /\ UNCHANGED kvars
      BY <2>1 DEF vars
    <3>2. KeyStream'
      BY <3>1, StreamAlone DEF KeyInv, avars, kvars
    <3> QED
      BY <3>1, <3>2, LedgerAlone DEF kvars
  <2>2. ASSUME NEW w \in Writers, NEW req \in Requests, Submit(w, req) PROVE KeyInv'
    BY <2>2, SubmitKeeps
  <2>3. ASSUME NEW w \in Writers,
               \/ AppendEvent(w) \/ AppendEventFails(w) \/ CompactNeeded(w)
               \/ RewriteEvents(w) \/ RewriteRefused(w) \/ AnchorEvent(w) \/ Answer(w)
        PROVE  KeyInv'
    BY <2>3, AppendEventKeeps, AppendEventFailsKeeps, CompactNeededKeeps, RewriteEventsKeeps,
       RewriteRefusedKeeps, AnchorEventKeeps, AnswerKeeps
  <2>4. ASSUME Sweep \/ Stream \/ ViewFirst \/ ViewSecond \/ Crash PROVE KeyInv'
    BY <2>4, SweepKeeps, StreamKeeps, ViewFirstKeeps, ViewSecondKeeps, CrashKeeps
  <2> HIDE DEF KeyInv
  <2> QED
    BY <2>1, <2>2, <2>3, <2>4 DEF Next
<1> QED
  BY <1>1, <1>2, PTL DEF Spec

\* NoForks holds of every ledger and stream: the chain of events verifies and
\* no anchor_seq is spent on two facts (appendKeyLifecycleEvent,
\* nextAnchorSeqPath).
THEOREM KeyLedgerUnforked == Spec => []NoForks
<1>1. KeyInv => NoForks
  <2> SUFFICES ASSUME KeyInv PROVE NoForks
    OBVIOUS
  <2>1. ASSUME Classified(klog), ~ overlapped PROVE Verifiable(klog)
    <3>1. klog \in Seq(KeyEvents)
      BY <2>1, KeyLinesAreEvents DEF KeyInv, KeyTyped
    <3>2. Chained(klog)
      BY <2>1 DEF KeyInv, KeySound, SoundLedger
    <3> QED
      BY <3>1, <3>2, ChainedIsVerifiable
  <2>2. OneFactPerSeq
    BY StreamOneFact DEF KeyInv, KeyStream
  <2> QED
    BY <2>1, <2>2 DEF NoForks, LedgerVerifiable
<1> QED
  BY <1>1, KeyInvariant, PTL

\* NeverAccused holds: no interleaving of requests, sweeps, crashes and views
\* makes a claim look unrealized (AnchorRealizationStatus, realizeFamily).
THEOREM HonestNeverAccused == Spec => []NeverAccused
<1>1. KeyInv => NeverAccused
  BY DEF KeyInv, KeySound, NeverAccused
<1> QED
  BY <1>1, KeyInvariant, PTL

-----------------------------------------------------------------------------
(* What a sound ledger says of a key.                                      *)

LEMMA EventsAreLines ==
  ASSUME NEW log \in Seq(KeyEvents), NEW k
  PROVE  /\ \A e \in EventsOf(log, k) : /\ e \in KeyEvents /\ e.key = k
                                        /\ \E i \in DOMAIN log : log[i] = e
         /\ \A i \in DOMAIN log : log[i].key = k => log[i] \in EventsOf(log, k)
<1>1. \A i \in DOMAIN log : log[i] \in KeyEvents
  BY LenProperties
<1> QED
  BY <1>1 DEF EventsOf

\* A recorded end bounds what the events of a key authorize.
LEMMA FoldEnded ==
  ASSUME NEW E \in SUBSET KeyEvents, NEW s \in E, s.type = "activated",
         NEW e \in E, e.type \in Terminal, NEW t \in Nat, t >= e.at
  PROVE  Fold(E).bounded = TRUE /\ Judged(Fold(E), t) # "ok"
<1> DEFINE starts == {x \in E : x.type = "activated"}
           ends == {x \in E : x.type \in Terminal}
           T == {x.at : x \in ends}
           from == (CHOOSE x \in starts : \A y \in starts : y.group <= x.group).at
           last == EarliestEnd(T)
           term == IF \E x \in ends : x.type = "revoked" THEN "revoked" ELSE "rotated_out"
<1>1. s \in starts /\ e \in ends /\ e.at \in T
  OBVIOUS
<1>2. T \in SUBSET Nat /\ 0 \notin T
  <2>1. \A x \in KeyEvents : x.at \in Starts \union Ends
    BY DEF KeyEvents
  <2>2. \A x \in ends : x.at \in Nat /\ x.at # 0
    BY <2>1, KeyAssumption
  <2> QED
    BY <2>2
<1>3. last \in T /\ last <= e.at
  <2> DEFINE P(x) == \A u \in T : x <= u
  <2>1. last = CHOOSE x \in T : P(x)
    BY DEF EarliestEnd
  <2> HIDE DEF T
  <2>2. \E x \in T : P(x)
    BY <1>1, <1>2, Least
  <2>3. last \in T /\ P(last)
    <3> HIDE DEF P, last
    <3> QED
      BY <2>1, <2>2, Zenon
  <2> QED
    BY <1>1, <2>3
<1>4. Fold(E) = [bounded |-> TRUE, from |-> from, until |-> last, terminal |-> term]
  BY <1>1 DEF Fold
<1>5. term # "ok"
  OBVIOUS
<1>6. last # 0 /\ t >= last
  <2>1. e.at \in Nat /\ last \in Nat /\ last # 0
    BY <1>1, <1>2, <1>3
  <2> HIDE DEF last
  <2> QED
    BY <1>3, <2>1
<1> HIDE DEF from, last, term
<1> QED
  BY <1>4, <1>5, <1>6 DEF Judged

\* The domain of a key is the one its events declare.
LEMMA DomainOfIs ==
  ASSUME NEW log \in Seq(KeyEvents), Chained(log), OneRole(log), NEW k
  PROVE  /\ DomainOf(log, k) # "conflict"
         /\ \A e \in EventsOf(log, k) : e.role \in Domains => DomainOf(log, k) = e.role
         /\ DomainOf(log, k) \in Domains => \E e \in EventsOf(log, k) : e.role = DomainOf(log, k)
<1> DEFINE declared == {e \in EventsOf(log, k) : e.role \in Domains}
           N == {e.group : e \in declared}
           P(d) == \A e \in declared : e.group <= d.group
           c == CHOOSE d \in declared : P(d)
<1>1. ~ \E d, e \in EventsOf(log, k) : d.group = e.group /\ d.role # e.role
  <2> SUFFICES ASSUME NEW d \in EventsOf(log, k), NEW e \in EventsOf(log, k), d.group = e.group
               PROVE  d = e
    OBVIOUS
  <2>1. PICK i \in DOMAIN log, j \in DOMAIN log : log[i] = d /\ log[j] = e
    BY EventsAreLines
  <2>2. i = j
    BY <2>1, ChainedIsVerifiable
  <2> QED
    BY <2>1, <2>2
<1>2. CASE declared = {}
  <2>1. DomainOf(log, k) = "undeclared"
    BY <1>1, <1>2 DEF DomainOf
  <2> QED
    BY <1>2, <2>1 DEF Domains
<1>3. CASE declared # {}
  <2>1. DomainOf(log, k) = c.role
    BY <1>1, <1>3 DEF DomainOf
  <2>2. \A e \in declared : e \in EventsOf(log, k) /\ e.group \in Nat /\ e.group \in Groups(log)
    <3> SUFFICES ASSUME NEW e \in EventsOf(log, k)
                 PROVE  e.group \in Nat /\ e.group \in Groups(log)
      OBVIOUS
    <3>1. e \in KeyEvents /\ \E i \in DOMAIN log : log[i] = e
      BY EventsAreLines
    <3> QED
      BY <3>1 DEF KeyEvents, Groups
  <2>3. \E d \in declared : P(d)
    <3>1. N \in SUBSET Nat /\ N # {} /\ N \subseteq Groups(log)
      BY <1>3, <2>2
    <3>2. PICK u \in Nat : \A g \in Groups(log) : g <= u
      <4>1. log # <<>>
        <5>1. Groups(log) # {}
          BY <3>1
        <5> QED
          BY <5>1 DEF Groups
      <4>2. \A i \in DOMAIN log : log[i].group \in Nat
        <5>1. \A i \in DOMAIN log : log[i] \in KeyEvents
          BY LenProperties
        <5> QED
          BY <5>1 DEF KeyEvents
      <4>3. PICK u \in Nat : Highest(log, u)
        BY <4>1, <4>2, HighestGroup
      <4> QED
        BY <4>3 DEF Highest
    <3>3. PICK m \in N : \A g \in N : g <= m
      <4>1. \A g \in N : g <= u
        BY <3>1, <3>2
      <4> HIDE DEF N
      <4> QED
        BY <3>1, <3>2, <4>1, GreatestIs
    <3>4. PICK d \in declared : d.group = m
      BY <3>3
    <3> QED
      BY <3>3, <3>4
  <2>4. c \in declared
    <3> HIDE DEF P, declared
    <3> QED
      BY <2>3, Zenon
  <2> HIDE DEF c
  <2>5. c \in EventsOf(log, k) /\ c.role \in Domains
    BY <2>4
  <2>6. ASSUME NEW e \in EventsOf(log, k), e.role \in Domains PROVE c.role = e.role
    <3>1. PICK i \in DOMAIN log, j \in DOMAIN log : log[i] = c /\ log[j] = e
      BY <2>5, EventsAreLines
    <3>2. c.key = k /\ e.key = k
      BY <2>5, EventsAreLines
    <3>3. c.role # NoRole /\ e.role # NoRole
      BY <2>5, <2>6 DEF Domains, NoRole
    <3> QED
      BY <3>1, <3>2, <3>3 DEF OneRole
  <2>7. c.role # "conflict"
    BY <2>5 DEF Domains
  <2> QED
    BY <2>1, <2>5, <2>6, <2>7
<1> QED
  BY <1>2, <1>3

\* A key whose events all declare a domain is in one domain, or in none.
LEMMA OneDomain ==
  ASSUME NEW log \in Seq(KeyEvents), OneRole(log), NEW k, Declared(log, k), NEW want \in Domains
  PROVE  DomainRows(log, k, want) \in {{}, EventsOf(log, k)}
<1> SUFFICES ASSUME NEW e \in DomainRows(log, k, want), NEW d \in EventsOf(log, k)
             PROVE  d \in DomainRows(log, k, want)
  BY DEF DomainRows
<1>1. e \in EventsOf(log, k) /\ e.role = want
  BY DEF DomainRows, Declared
<1>2. d.role # NoRole /\ e.role # NoRole
  BY <1>1 DEF Declared
<1>3. PICK i \in DOMAIN log, j \in DOMAIN log : log[i] = e /\ log[j] = d
  BY <1>1, EventsAreLines
<1>4. e.key = k /\ d.key = k
  BY <1>1, EventsAreLines
<1>5. d.role = want
  BY <1>1, <1>2, <1>3, <1>4 DEF OneRole
<1> QED
  BY <1>5 DEF DomainRows

\* EndsEnforced holds: a recorded end of a key's authorization is enforced on
\* manifests and reports from then on (authorizationFor, authorizeByLifecycle,
\* judgeVerifierAuthoritySigner).
THEOREM EndsStayEnforced == Spec => []EndsEnforced
<1>1. KeyInv => EndsEnforced
  <2> SUFFICES ASSUME KeyInv, Classified(klog), ~ overlapped, NEW e \in recorded,
                      e.type \in Terminal, Retained(e.key), NEW t \in Ends, t >= e.at
               PROVE  /\ Authorize(klog, e.key, t) # "ok"
                      /\ Declared(klog, e.key) =>
                           AuthorityState(klog, [k \in {e.key} |-> {t}]) # "authorized"
    BY DEF EndsEnforced
  <2> DEFINE k == e.key
             E == EventsOf(klog, k)
  <2>1. klog \in Seq(KeyEvents)
    BY KeyLinesAreEvents DEF KeyInv, KeyTyped
  <2>2. Chained(klog) /\ OneRole(klog) /\ Begun(recorded)
    BY DEF KeyInv, KeySound, SoundLedger
  <2>3. Verifiable(klog)
    BY <2>1, <2>2, ChainedIsVerifiable
  <2>4. \A x \in recorded : x.key = k => x \in E
    BY DEF Retained, EventsOf
  <2>5. PICK s \in E : s.type = "activated"
    BY <2>2, <2>4 DEF Begun
  <2>6. e \in E
    BY <2>4
  <2>7. E \in SUBSET KeyEvents
    BY <2>1, EventsAreLines
  <2>8. t \in Nat
    BY KeyAssumption
  <2>9. Fold(E).bounded = TRUE /\ Judged(Fold(E), t) # "ok"
    <3> HIDE DEF E
    <3> QED
      BY <2>5, <2>6, <2>7, <2>8, FoldEnded
  <2>10. Authorize(klog, k, t) # "ok"
    BY <2>3, <2>9 DEF Authorize, Authorization
  <2>11. ASSUME Declared(klog, k) PROVE SignerVerdict(klog, k, {t}) # "authorized"
    <3> DEFINE rows == DomainRows(klog, k, "verifier")
    <3>1. rows \in {{}, E}
      BY <2>1, <2>2, <2>11, OneDomain DEF Domains
    <3>2. CASE rows = {}
      BY <2>6, <3>2 DEF SignerVerdict
    <3>3. CASE rows = E
      <4>1. rows # {}
        BY <2>6, <3>3
      <4>2. AuthorizationForDomain(klog, k, "verifier") = Fold(E)
        BY <2>3, <3>3 DEF AuthorizationForDomain
      <4> DEFINE a == AuthorizationForDomain(klog, k, "verifier")
                 verdicts == {Judged(a, u) : u \in {t}}
      <4>3. verdicts # {"ok"}
        BY <2>9, <4>2
      <4>4. SignerVerdict(klog, k, {t}) =
              IF DomainOf(klog, k) = "conflict" THEN "indeterminate"
              ELSE IF rows = {} /\ E # {}
                   THEN IF AbsenceAssertable(klog, k) THEN "domain_mismatch" ELSE "unbounded"
              ELSE IF ~ a.bounded THEN "unbounded"
              ELSE IF verdicts # {"ok"} THEN "violated"
              ELSE "authorized"
        BY DEF SignerVerdict
      <4> HIDE DEF a, verdicts, rows, E
      <4> QED
        BY <4>1, <4>3, <4>4
    <3> HIDE DEF rows
    <3> QED
      BY <3>1, <3>2, <3>3
  <2>12. ASSUME Declared(klog, k) PROVE AuthorityState(klog, [x \in {k} |-> {t}]) # "authorized"
    <3> DEFINE signed == [x \in {k} |-> {t}]
               row(x) == SignerVerdict(klog, x, signed[x])
               some(v) == \E x \in DOMAIN signed : row(x) = v
    <3>1. DOMAIN signed = {k} /\ signed[k] = {t}
      OBVIOUS
    <3>2. ~ some("authorized")
      BY <2>11, <2>12, <3>1
    <3>3. AuthorityState(klog, signed) =
            IF DOMAIN signed = {} THEN "nothing_assessed"
            ELSE IF ~ Classified(klog) \/ ~ Verifiable(klog) THEN "indeterminate"
            ELSE IF some("indeterminate") THEN "indeterminate"
            ELSE IF some("violated") THEN "violated"
            ELSE IF some("domain_mismatch") THEN "domain_mismatch"
            ELSE IF some("authorized") THEN "authorized"
            ELSE "nothing_assessed"
      BY DEF AuthorityState
    <3> HIDE DEF some
    <3>4. AuthorityState(klog, signed) # "authorized"
      BY <3>2, <3>3
    <3> QED
      BY <3>4
  <2> QED
    BY <2>10, <2>12
<1> QED
  BY <1>1, KeyInvariant, PTL

\* DomainsNeverMixed holds: no key is judged by another domain's window
\* (validateLifecycleTransition, authorizationFor, authorizationForDomain,
\* keyLifecycleDomainSummaryFromState).
THEOREM DomainsKeptApart == Spec => []DomainsNeverMixed
<1>1. KeyInv => DomainsNeverMixed
  <2> SUFFICES ASSUME KeyInv, Classified(klog), ~ overlapped
               PROVE  /\ DomainState(klog) \notin {"conflict", "migrated"}
                      /\ \A k \in Keys : Declared(klog, k) =>
                           /\ DomainOf(klog, k) \in Domains =>
                                Authorization(klog, k) = AuthorizationForDomain(klog, k, DomainOf(klog, k))
                           /\ k \in Active(klog) => DomainOf(klog, k) = "signing"
    BY DEF DomainsNeverMixed
  <2>1. klog \in Seq(KeyEvents)
    BY KeyLinesAreEvents DEF KeyInv, KeyTyped
  <2>2. Chained(klog) /\ OneRole(klog)
    BY DEF KeyInv, KeySound, SoundLedger
  <2>3. Verifiable(klog)
    BY <2>1, <2>2, ChainedIsVerifiable
  <2>4. \A k : DomainOf(klog, k) # "conflict"
    BY <2>1, <2>2, DomainOfIs
  <2>5. ASSUME NEW k PROVE ~ Migrated(klog, k)
    <3> SUFFICES ASSUME Migrated(klog, k) PROVE FALSE
      OBVIOUS
    <3>1. PICK d \in EventsOf(klog, k), e \in EventsOf(klog, k) :
            d.role = "signing" /\ e.role = "verifier"
      BY DEF Migrated, Domains
    <3>2. DomainOf(klog, k) = d.role /\ DomainOf(klog, k) = e.role
      BY <2>1, <2>2, <3>1, DomainOfIs DEF Domains
    <3> QED
      BY <3>1, <3>2
  <2>6. DomainState(klog) \notin {"conflict", "migrated"}
    BY <2>3, <2>4, <2>5 DEF DomainState
  <2>7. ASSUME NEW k \in Keys, Declared(klog, k), DomainOf(klog, k) \in Domains
        PROVE  Authorization(klog, k) = AuthorizationForDomain(klog, k, DomainOf(klog, k))
    <3> DEFINE d == DomainOf(klog, k)
    <3>1. PICK e \in EventsOf(klog, k) : e.role = d
      BY <2>1, <2>2, <2>7, DomainOfIs
    <3> HIDE DEF d
    <3>2. d \in Domains
      BY <2>7 DEF d
    <3>3. e \in DomainRows(klog, k, d)
      BY <3>1 DEF DomainRows
    <3>4. DomainRows(klog, k, d) = EventsOf(klog, k)
      BY <2>1, <2>2, <2>7, <3>2, <3>3, OneDomain
    <3>5. Authorization(klog, k) = AuthorizationForDomain(klog, k, d)
      BY <2>3, <3>4 DEF Authorization, AuthorizationForDomain
    <3> QED
      BY <3>5 DEF d
  <2>8. ASSUME NEW k \in Keys, Declared(klog, k), k \in Active(klog)
        PROVE  DomainOf(klog, k) = "signing"
    <3>1. PICK e : e \in DomainRows(klog, k, "signing")
      BY <2>8 DEF Active, RolledUp
    <3>2. e \in EventsOf(klog, k) /\ e.role = "signing"
      BY <2>8, <3>1 DEF DomainRows, Declared
    <3> QED
      BY <2>1, <2>2, <3>2, DomainOfIs DEF Domains
  <2> QED
    BY <2>6, <2>7, <2>8
<1> QED
  BY <1>1, KeyInvariant, PTL

-----------------------------------------------------------------------------
(* The attestation of decisions.                                           *)

Heads == [group : Nat, rec : Nat]
Records == [group : Nat \ {0}, rec : Nat, prev : Heads]
Drains == [taken : Seq(Nat), head : Heads, written : Nat]

DecTyped ==
  /\ declog \in Seq(Records \union {Torn})
  /\ queue \in Seq(Nat) /\ emitted \in Nat /\ dropped \in Nat /\ lossFile \in Nat
  /\ drain \in Drains

\* The records are numbered without a gap and each links to the one before.
Linked(log) ==
  \A i \in DOMAIN log : /\ log[i].group = log[1].group + i - 1
                        /\ i > 1 => log[i].prev = RecordDigest(log[i - 1])

\* The chain whose head is h has f behind it.
Behind(f, h) == f.group <= h.group /\ (f.group = h.group => f = h)

DecSound ==
  Classified(declog) =>
    /\ Linked(declog)
    /\ tick = "write" => /\ Behind(drain.head, ChainHead(declog))
                         /\ drain.taken # <<>> => drain.head = ChainHead(declog)

\* The stream witnesses heads the chain has, or has had.
DecStream ==
  \E F : /\ F \subseteq Heads
         /\ Classified(declog) => \A f \in F : Behind(f, ChainHead(declog))
         /\ StreamInv(F)

Losses == dropped = 0 => unrecorded \subseteq forgotten

DecInv == DecTyped /\ DecSound /\ DecStream /\ FaceInv /\ Losses

LEMMA LinesAreRecords ==
  ASSUME NEW log \in Seq(Records \union {Torn}), Classified(log)
  PROVE  log \in Seq(Records) /\ \A i \in DOMAIN log : log[i] \in Records /\ log[i].group \in Nat
<1>1. DOMAIN log = 1 .. Len(log) /\ Len(log) \in Nat
  BY LenProperties
<1>2. \A i \in DOMAIN log : log[i] \in Records
  BY <1>1 DEF Classified
<1>3. \A i \in DOMAIN log : log[i].group \in Nat
  BY <1>2 DEF Records
<1> QED
  BY <1>1, <1>2, <1>3

LEMMA RecordsAreLines ==
  ASSUME NEW log \in Seq(Records)
  PROVE  log \in Seq(Records \union {Torn}) /\ Classified(log)
<1>1. \A i \in DOMAIN log : log[i] \in Records
  BY LenProperties
<1>2. \A i \in DOMAIN log : log[i] # Torn
  BY <1>1 DEF Records, Torn
<1> QED
  BY <1>2, SeqMonotonic DEF Classified

LEMMA LinkedIsOK ==
  ASSUME NEW log \in Seq(Records), Linked(log)
  PROVE  Ascending(log) /\ ChainOK(log)
<1>1. DOMAIN log = 1 .. Len(log) /\ Len(log) \in Nat
  BY LenProperties
<1>2. Classified(log) /\ \A i \in DOMAIN log : log[i].group \in Nat
  BY RecordsAreLines, LinesAreRecords
<1>3. \A i \in DOMAIN log : log[i].group = log[1].group + i - 1 /\ 1 \in DOMAIN log
  BY <1>1 DEF Linked
<1>4. Ascending(log)
  BY <1>1, <1>2, <1>3 DEF Ascending
<1>5. ASSUME NEW i \in 2 .. Len(log)
      PROVE  log[i].prev = RecordDigest(log[i - 1]) /\ log[i].group = log[i - 1].group + 1
  <2>1. i \in DOMAIN log /\ i - 1 \in DOMAIN log /\ i > 1 /\ i \in Nat
    BY <1>1
  <2>2. log[i].prev = RecordDigest(log[i - 1])
    BY <2>1 DEF Linked
  <2> DEFINE a == log[1].group
             b == log[i].group
             c == log[i - 1].group
  <2>3. b = a + i - 1 /\ c = a + (i - 1) - 1 /\ a \in Nat
    BY <1>2, <1>3, <2>1
  <2> HIDE DEF a, b, c
  <2>4. b = c + 1
    BY <2>1, <2>3
  <2> QED
    BY <2>2, <2>4 DEF b, c
<1> QED
  BY <1>2, <1>4, <1>5 DEF ChainOK

LEMMA HeadTyped ==
  ASSUME NEW log \in Seq(Records)
  PROVE  ChainHead(log) \in Heads
<1>1. CASE log = <<>>
  BY <1>1 DEF ChainHead, NoHead, Heads
<1>2. CASE log # <<>>
  <2>1. Len(log) \in DOMAIN log
    BY <1>2, LenProperties, EmptySeq
  <2>2. log[Len(log)] \in Records
    BY <2>1, LenProperties
  <2>3. ChainHead(log) = RecordDigest(log[Len(log)])
    BY <1>2 DEF ChainHead
  <2> DEFINE l == log[Len(log)]
  <2> HIDE DEF l
  <2>4. RecordDigest(l) \in Heads
    BY <2>2 DEF l, RecordDigest, Records, Heads
  <2> QED
    BY <2>3, <2>4 DEF l
<1> QED
  BY <1>1, <1>2

\* The next record of a chain.
LEMMA RecordAppended ==
  ASSUME NEW log \in Seq(Records), Linked(log), NEW h, h = ChainHead(log), NEW d \in Nat,
         NEW x, x = [group |-> h.group + 1, rec |-> d, prev |-> h], NEW r, r = Appended(log, x)
  PROVE  /\ r \in Seq(Records) /\ Linked(r) /\ x \in Records
         /\ ChainHead(r) = RecordDigest(x) /\ RecordDigest(x) \in Heads
         /\ \A f \in Heads : Behind(f, h) => Behind(f, RecordDigest(x))
         /\ Behind(h, RecordDigest(x))
<1> DEFINE n == Len(log)
<1>1. h \in Heads
  BY HeadTyped
<1>2. x \in Records /\ x.group = h.group + 1 /\ x.prev = h /\ h.group \in Nat
  BY <1>1 DEF Records, Heads
<1>3. r \in Seq(Records) /\ Longer(r, log, x)
  BY <1>2, Lengthened
<1>4. /\ DOMAIN log = 1 .. n /\ n \in Nat /\ DOMAIN r = 1 .. n + 1 /\ Len(r) = n + 1
      /\ r[n + 1] = x /\ \A i \in DOMAIN log : i \in DOMAIN r /\ r[i] = log[i]
  BY <1>3 DEF Longer
<1>5. n # 0 => h = RecordDigest(log[n]) /\ log[n].group = h.group
  BY DEF ChainHead, RecordDigest
<1> HIDE DEF n
<1>6. \A i \in DOMAIN log : log[i].group \in Nat
  BY RecordsAreLines, LinesAreRecords
<1>7. Linked(r)
  <2> SUFFICES ASSUME NEW i \in DOMAIN r
               PROVE  /\ r[i].group = r[1].group + i - 1
                      /\ i > 1 => r[i].prev = RecordDigest(r[i - 1])
    BY DEF Linked
  <2>1. CASE i \in DOMAIN log
    <3>1. 1 \in DOMAIN log /\ r[1] = log[1] /\ r[i] = log[i]
      BY <1>4, <2>1
    <3>2. i > 1 => r[i - 1] = log[i - 1]
      BY <1>4, <2>1
    <3>3. log[i].group = log[1].group + i - 1 /\ (i > 1 => log[i].prev = RecordDigest(log[i - 1]))
      BY <2>1 DEF Linked
    <3> QED
      BY <3>1, <3>2, <3>3
  <2>2. CASE i = n + 1 /\ n # 0
    <3>1. 1 \in DOMAIN log /\ r[1] = log[1] /\ n \in DOMAIN log /\ r[n] = log[n] /\ r[i] = x
      BY <1>4, <2>2
    <3>2. log[n].group = log[1].group + n - 1
      BY <3>1 DEF Linked
    <3> DEFINE a == log[1].group
               b == log[n].group
               c == r[i].group
    <3>3. a \in Nat /\ b = a + n - 1 /\ c = b + 1 /\ i = n + 1
      BY <1>2, <1>5, <1>6, <2>2, <3>1, <3>2
    <3> HIDE DEF a, b, c
    <3>4. c = a + i - 1
      BY <1>4, <3>3
    <3>5. r[i].prev = RecordDigest(r[i - 1])
      <4>1. i - 1 = n
        BY <1>4, <2>2
      <4> QED
        BY <1>2, <1>5, <2>2, <3>1, <4>1
    <3> QED
      BY <3>1, <3>4, <3>5 DEF a, c
  <2>3. CASE i = n + 1 /\ n = 0
    <3>1. i = 1 /\ r[1] = x /\ x.group \in Nat
      BY <1>2, <1>4, <2>3
    <3> QED
      BY <3>1
  <2> QED
    BY <1>4, <2>1, <2>2, <2>3
<1>8. ChainHead(r) = RecordDigest(x)
  <2>1. r # <<>> /\ r[Len(r)] = x
    BY <1>4
  <2> QED
    BY <2>1 DEF ChainHead
<1>9. RecordDigest(x) \in Heads /\ RecordDigest(x).group = h.group + 1
  BY <1>2 DEF RecordDigest, Records, Heads
<1>10. ASSUME NEW f \in Heads, f.group <= h.group PROVE Behind(f, RecordDigest(x))
  <2>1. f.group \in Nat
    BY DEF Heads
  <2>2. f.group < h.group + 1
    BY <1>2, <1>10, <2>1
  <2> QED
    BY <1>2, <1>9, <2>1, <2>2 DEF Behind
<1>11. Behind(h, RecordDigest(x))
  BY <1>1, <1>2, <1>10
<1>12. \A f \in Heads : Behind(f, h) => Behind(f, RecordDigest(x))
  BY <1>10 DEF Behind
<1> QED
  BY <1>2, <1>3, <1>7, <1>8, <1>9, <1>11, <1>12

\* A compaction leaves the head of the chain.
LEMMA RecordsCompacted ==
  ASSUME NEW log \in Seq(Records), Linked(log),
         NEW r, r = WithoutGroups(log, DroppedGroups(log, DecisionCapacity))
  PROVE  r \in Seq(Records) /\ Linked(r) /\ ChainHead(r) = ChainHead(log)
<1> DEFINE n == Len(log)
<1>1. DOMAIN log = 1 .. n /\ n \in Nat
  BY LenProperties
<1>2. \A i \in DOMAIN log : log[i] \in Records /\ log[i].group \in Nat
  BY RecordsAreLines, LinesAreRecords
<1>3. Ascending(log)
  BY LinkedIsOK
<1>4. PICK k \in Nat : /\ k <= n /\ (log # <<>> => k < n)
                      /\ r = [i \in 1 .. n - k |-> log[k + i]]
  <2>1. DecisionCapacity \in Int
    BY DecisionAssumption
  <2>2. \A i \in DOMAIN log : log[i].group \in Nat
    BY <1>2
  <2>3. \E k \in Nat :
           /\ k <= Len(log) /\ (log # <<>> => k < Len(log))
           /\ WithoutGroups(log, DroppedGroups(log, DecisionCapacity)) = [i \in 1 .. Len(log) - k |-> log[k + i]]
    <3> HIDE DEF n
    <3> QED
      BY <1>3, <2>1, <2>2, CompactedIsSuffix
  <2> QED
    BY <2>3
<1>5. log = <<>> <=> n = 0
  BY EmptySeq
<1>6. ChainHead(log) = IF n = 0 THEN NoHead ELSE RecordDigest(log[n])
  BY <1>5 DEF ChainHead
<1> HIDE DEF n
<1> DEFINE h == n - k
<1>7. h \in Nat /\ (n # 0 => h # 0) /\ (n = 0 => h = 0) /\ k + h = n
  BY <1>1, <1>4, <1>5
<1>8. r = [i \in 1 .. h |-> log[k + i]] /\ \A i \in 1 .. h : k + i \in DOMAIN log
  BY <1>1, <1>4
<1> HIDE DEF h
<1>9. r \in Seq(Records) /\ Len(r) = h /\ DOMAIN r = 1 .. h
      /\ \A i \in DOMAIN r : r[i] = log[k + i] /\ k + i \in DOMAIN log
  <2>1. DOMAIN r = 1 .. h /\ \A i \in DOMAIN r : r[i] = log[k + i] /\ k + i \in DOMAIN log
    BY <1>8
  <2>2. \A i \in 1 .. h : log[k + i] \in Records
    BY <1>2, <1>8
  <2>3. r \in Seq(Records) /\ Len(r) = h
    BY <1>7, <1>8, <2>2
  <2> QED
    BY <2>1, <2>3
<1>10. ChainHead(r) = ChainHead(log)
  <2>1. CASE n = 0
    <3>1. r = <<>>
      BY <1>7, <1>9, <2>1, EmptySeq
    <3> QED
      BY <1>6, <2>1, <3>1 DEF ChainHead
  <2>2. CASE n # 0
    <3>1. h \in DOMAIN r /\ r # <<>>
      BY <1>7, <1>9, <2>2
    <3>2. r[Len(r)] = log[n]
      BY <1>7, <1>9, <3>1
    <3> QED
      BY <1>6, <2>2, <3>1, <3>2 DEF ChainHead
  <2> QED
    BY <2>1, <2>2
<1>11. Linked(r)
  <2> SUFFICES ASSUME NEW i \in DOMAIN r
               PROVE  /\ r[i].group = r[1].group + i - 1
                      /\ i > 1 => r[i].prev = RecordDigest(r[i - 1])
    BY DEF Linked
  <2>1. 1 \in DOMAIN r /\ i \in Nat /\ i > 0
    BY <1>7, <1>9
  <2>2. r[1] = log[k + 1] /\ k + 1 \in DOMAIN log /\ r[i] = log[k + i] /\ k + i \in DOMAIN log
    BY <1>9, <2>1
  <2>3. \A j \in DOMAIN log : log[j].group = log[1].group + j - 1
    BY DEF Linked
  <2>4. log[1].group \in Nat
    BY <1>1, <1>2, <2>2
  <2> DEFINE a == log[1].group
             b == r[i].group
             c == r[1].group
  <2>5. b = a + (k + i) - 1 /\ c = a + (k + 1) - 1 /\ a \in Nat
    BY <2>2, <2>3, <2>4
  <2> HIDE DEF a, b, c
  <2>6. b = c + i - 1
    BY <2>1, <2>5
  <2>7. ASSUME i > 1 PROVE r[i].prev = RecordDigest(r[i - 1])
    <3>1. i - 1 \in DOMAIN r /\ k + (i - 1) = (k + i) - 1 /\ k + i > 1
      <4>1. i - 1 \in 1 .. h
        BY <1>7, <1>9, <2>7
      <4>2. k + (i - 1) = (k + i) - 1 /\ k + i > 1
        BY <2>1, <2>7
      <4> QED
        BY <1>9, <4>1, <4>2
    <3>2. r[i - 1] = log[(k + i) - 1]
      BY <1>9, <3>1
    <3> QED
      BY <2>2, <3>1, <3>2 DEF Linked
  <2> QED
    BY <2>6, <2>7 DEF b, c
<1> QED
  BY <1>9, <1>10, <1>11

\* The stream does nothing while the chain may grow.
LEMMA DecStreamAlone ==
  ASSUME DecStream, FaceInv, UNCHANGED <<alog, witness, dispatch, busy, evicted>>,
         faults' \in {faults, faults + 1},
         Classified(declog') => /\ Classified(declog)
                                /\ \A f \in Heads : Behind(f, ChainHead(declog)) => Behind(f, ChainHead(declog'))
  PROVE  DecStream' /\ FaceInv'
<1>1. PICK F : /\ F \subseteq Heads
               /\ Classified(declog) => \A f \in F : Behind(f, ChainHead(declog))
               /\ StreamInv(F)
  BY DEF DecStream
<1>2. faults' \in Nat
  BY <1>1 DEF StreamInv, StreamTyped
<1>3. StreamInv(F)'
  BY <1>1, <1>2, SameStream
<1>4. Classified(declog') => \A f \in F : Behind(f, ChainHead(declog'))
  BY <1>1
<1>5. FaceInv'
  BY SameFace
<1> QED
  BY <1>1, <1>3, <1>4, <1>5 DEF DecStream

\* The chain does nothing while the stream works.
LEMMA ChainAlone ==
  ASSUME NEW F, F \subseteq Heads, Classified(declog) => \A f \in F : Behind(f, ChainHead(declog)),
         StreamInv(F)', UNCHANGED declog
  PROVE  DecStream'
BY DEF DecStream

LEMMA EmitKeeps ==
  ASSUME DecInv, Emit
  PROVE  DecInv'
<1> DEFINE full == Len(queue) >= QueueCap
           rest == IF full THEN Tail(queue) ELSE queue
<1>1. /\ emitted' = emitted + 1 /\ queue' = Append(rest, emitted + 1)
      /\ dropped' = (IF full THEN dropped + 1 ELSE dropped)
      /\ unrecorded' = (IF full THEN unrecorded \union {Head(queue)} ELSE unrecorded)
      /\ UNCHANGED <<avars, lossFile, declog, tick, drain, forgotten, crashes>>
  BY DEF Emit
<1>2. queue \in Seq(Nat) /\ emitted \in Nat /\ dropped \in Nat
  BY DEF DecInv, DecTyped
<1>3. rest \in Seq(Nat)
  <2>1. CASE full
    <3>1. queue # <<>>
      <4>1. Len(queue) # 0
        BY <1>2, <2>1, DecisionAssumption
      <4> QED
        BY <4>1, EmptySeq
    <3> QED
      BY <1>2, <2>1, <3>1, HeadTailProperties
  <2>2. CASE ~ full
    BY <1>2, <2>2
  <2> QED
    BY <2>1, <2>2
<1>4. dropped' \in Nat /\ emitted' \in Nat
  BY <1>1, <1>2
<1>5. queue' \in Seq(Nat)
  <2> HIDE DEF rest
  <2>1. emitted + 1 \in Nat
    BY <1>2
  <2> QED
    BY <1>1, <1>3, <2>1, AppendProperties
<1>6. DecTyped'
  BY <1>1, <1>4, <1>5 DEF DecInv, DecTyped
<1>7. DecSound'
  BY <1>1 DEF DecInv, DecSound
<1>8. DecStream' /\ FaceInv'
  BY <1>1, DecStreamAlone DEF DecInv, avars
<1>9. Losses'
  <2>1. CASE full
    BY <1>1, <1>2, <2>1 DEF Losses
  <2>2. CASE ~ full
    BY <1>1, <2>2 DEF DecInv, Losses
  <2> QED
    BY <2>1, <2>2
<1> QED
  BY <1>6, <1>7, <1>8, <1>9 DEF DecInv

LEMMA TickSweepKeeps ==
  ASSUME DecInv, TickSweep
  PROVE  DecInv'
<1>1. /\ tick' = "sweep" /\ (SweepOpen(Tick) \/ SweepSkipped)
      /\ UNCHANGED <<queue, dropped, emitted, lossFile, declog, drain, unrecorded, forgotten, crashes>>
  BY DEF TickSweep
<1>2. PICK F : /\ F \subseteq Heads
               /\ Classified(declog) => \A f \in F : Behind(f, ChainHead(declog))
               /\ StreamInv(F)
  BY DEF DecInv, DecStream
<1>3. StreamInv(F)' /\ FaceInv'
  <2>1. CASE SweepOpen(Tick)
    BY <1>2, <2>1, WorkOffKeeps, WorkOffHonest, DecisionAssumption DEF SweepOpen, Sweepable, DecInv
  <2>2. CASE SweepSkipped
    <3>1. UNCHANGED avars /\ faults \in Nat
      BY <1>2, <2>2 DEF SweepSkipped, StreamInv, StreamTyped
    <3> QED
      BY <1>2, <3>1, SameStream, SameFace DEF avars, DecInv
  <2> QED
    BY <1>1, <2>1, <2>2
<1>4. DecStream'
  BY <1>1, <1>2, <1>3, ChainAlone
<1>5. DecTyped'
  BY <1>1 DEF DecInv, DecTyped
<1>6. DecSound'
  BY <1>1 DEF DecInv, DecSound
<1>7. Losses'
  BY <1>1 DEF DecInv, Losses
<1> QED
  BY <1>3, <1>4, <1>5, <1>6, <1>7 DEF DecInv

LEMMA TickStreamKeeps ==
  ASSUME DecInv, TickStream
  PROVE  DecInv'
<1>1. AnchorStep(Tick) /\ UNCHANGED sinkVars /\ Tick \in Threads
  BY DecisionAssumption DEF TickStream
<1>2. PICK F : /\ F \subseteq Heads
               /\ Classified(declog) => \A f \in F : Behind(f, ChainHead(declog))
               /\ StreamInv(F)
  BY DEF DecInv, DecStream
<1>3. StreamInv(F)' /\ FaceInv'
  BY <1>1, <1>2, AnchorStepKeeps, AnchorStepHonest DEF DecInv
<1>4. DecStream'
  BY <1>1, <1>2, <1>3, ChainAlone DEF sinkVars
<1>5. DecTyped'
  BY <1>1 DEF DecInv, DecTyped, sinkVars
<1>6. DecSound'
  BY <1>1 DEF DecInv, DecSound, sinkVars
<1>7. Losses'
  BY <1>1 DEF DecInv, Losses, sinkVars
<1> QED
  BY <1>3, <1>4, <1>5, <1>6, <1>7 DEF DecInv

LEMMA DrainNothingKeeps ==
  ASSUME DecInv, DrainNothing
  PROVE  DecInv'
<1>1. /\ tick' = "persist"
      /\ UNCHANGED <<avars, queue, dropped, emitted, lossFile, declog, drain, unrecorded,
                     forgotten, crashes>>
  BY DEF DrainNothing
<1>2. DecTyped'
  BY <1>1 DEF DecInv, DecTyped
<1>3. DecSound'
  BY <1>1 DEF DecInv, DecSound
<1>4. DecStream' /\ FaceInv'
  BY <1>1, DecStreamAlone DEF DecInv, avars
<1>5. Losses'
  BY <1>1 DEF DecInv, Losses
<1> QED
  BY <1>2, <1>3, <1>4, <1>5 DEF DecInv

LEMMA TakeQueueKeeps ==
  ASSUME DecInv, TakeQueue
  PROVE  DecInv'
<1> DEFINE h == ChainHead(declog)
<1>1. /\ ChainOK(declog) /\ drain' = [taken |-> queue, head |-> h, written |-> 0]
      /\ queue' = <<>> /\ tick' = "write"
      /\ UNCHANGED <<avars, dropped, emitted, lossFile, declog, unrecorded, forgotten, crashes>>
  BY DEF TakeQueue
<1>2. declog \in Seq(Records) /\ queue \in Seq(Nat)
  BY <1>1, LinesAreRecords DEF ChainOK, DecInv, DecTyped
<1>3. h \in Heads
  BY <1>2, HeadTyped
<1> HIDE DEF h
<1>4. drain' \in Drains /\ drain'.head = h
  BY <1>1, <1>2, <1>3 DEF Drains
<1>5. DecTyped'
  <2>1. queue' \in Seq(Nat)
    BY <1>1, EmptySeq
  <2> QED
    BY <1>1, <1>4, <2>1 DEF DecInv, DecTyped
<1>6. DecSound'
  <2>1. Behind(h, h)
    BY <1>3 DEF Behind, Heads
  <2> QED
    BY <1>1, <1>4, <2>1 DEF DecInv, DecSound, h
<1>7. DecStream' /\ FaceInv'
  BY <1>1, DecStreamAlone DEF DecInv, avars
<1>8. Losses'
  BY <1>1 DEF DecInv, Losses
<1> QED
  BY <1>5, <1>6, <1>7, <1>8 DEF DecInv

\* The record the drain would write next, of a chain that can be read.
LEMMA NextRecordFits ==
  ASSUME DecInv, tick = "write", drain.taken # <<>>, declog' = Appended(declog, NextRecord)
  PROVE  /\ declog' \in Seq(Records \union {Torn})
         /\ RecordDigest(NextRecord) \in Heads
         /\ Classified(declog') =>
              /\ Classified(declog) /\ Linked(declog')
              /\ ChainHead(declog') = RecordDigest(NextRecord)
              /\ \A f \in Heads : Behind(f, ChainHead(declog)) => Behind(f, ChainHead(declog'))
              /\ Behind(drain.head, ChainHead(declog'))
<1> DEFINE h == drain.head
           d == Head(drain.taken)
           x == [group |-> h.group + 1, rec |-> d, prev |-> h]
<1>1. drain \in Drains /\ declog \in Seq(Records \union {Torn})
  BY DEF DecInv, DecTyped
<1>2. h \in Heads /\ drain.taken \in Seq(Nat)
  BY <1>1 DEF Drains
<1>3. d \in Nat
  BY <1>2, HeadTailProperties
<1>4. NextRecord = x
  BY DEF NextRecord
<1> HIDE DEF d
<1>5. x \in Records /\ RecordDigest(x) \in Heads
  <2> HIDE DEF h
  <2> QED
    BY <1>2, <1>3 DEF RecordDigest, Records, Heads
<1>6. declog' \in Seq(Records \union {Torn}) /\ Longer(declog', declog, x)
  <2> HIDE DEF x
  <2> QED
    BY <1>1, <1>4, <1>5, Lengthened
<1>7. ASSUME Classified(declog')
      PROVE  /\ Classified(declog) /\ Linked(declog')
             /\ ChainHead(declog') = RecordDigest(NextRecord)
             /\ \A f \in Heads : Behind(f, ChainHead(declog)) => Behind(f, ChainHead(declog'))
             /\ Behind(drain.head, ChainHead(declog'))
  <2>1. Classified(declog)
    BY <1>6, <1>7 DEF Longer, Classified
  <2>2. declog \in Seq(Records)
    BY <1>1, <2>1, LinesAreRecords
  <2>3. Linked(declog) /\ h = ChainHead(declog)
    BY <2>1 DEF DecInv, DecSound
  <2>4. declog' = Appended(declog, x)
    BY <1>4
  <2> HIDE DEF h
  <2>5. /\ Linked(declog') /\ ChainHead(declog') = RecordDigest(x)
        /\ \A f \in Heads : Behind(f, h) => Behind(f, RecordDigest(x))
        /\ Behind(h, RecordDigest(x))
    BY <1>3, <2>2, <2>3, <2>4, RecordAppended
  <2> QED
    BY <1>4, <2>1, <2>3, <2>5 DEF h
<1> QED
  BY <1>4, <1>5, <1>6, <1>7

LEMMA WriteRecordKeeps ==
  ASSUME DecInv, WriteRecord
  PROVE  DecInv'
<1> DEFINE h == RecordDigest(NextRecord)
<1>1. /\ tick = "write" /\ drain.taken # <<>> /\ declog' = Appended(declog, NextRecord)
      /\ drain' = [taken |-> Tail(drain.taken), head |-> h, written |-> drain.written + 1]
      /\ UNCHANGED <<avars, queue, dropped, emitted, lossFile, tick, unrecorded, forgotten, crashes>>
  BY DEF WriteRecord
<1>2. /\ declog' \in Seq(Records \union {Torn}) /\ h \in Heads
      /\ Classified(declog') =>
           /\ Classified(declog) /\ Linked(declog') /\ ChainHead(declog') = h
           /\ \A f \in Heads : Behind(f, ChainHead(declog)) => Behind(f, ChainHead(declog'))
  BY <1>1, NextRecordFits
<1> HIDE DEF h
<1>3. drain' \in Drains /\ drain'.head = h
  <2>1. drain.taken \in Seq(Nat) /\ drain.written \in Nat
    BY DEF DecInv, DecTyped, Drains
  <2>2. Tail(drain.taken) \in Seq(Nat) /\ drain.written + 1 \in Nat
    BY <1>1, <2>1, HeadTailProperties
  <2> QED
    BY <1>1, <1>2, <2>2 DEF Drains
<1>4. DecTyped'
  BY <1>1, <1>2, <1>3 DEF DecInv, DecTyped
<1>5. DecSound'
  <2>1. Behind(h, h)
    BY <1>2 DEF Behind, Heads
  <2> QED
    BY <1>2, <1>3, <2>1 DEF DecSound
<1>6. DecStream' /\ FaceInv'
  BY <1>1, <1>2, DecStreamAlone DEF DecInv, avars
<1>7. Losses'
  BY <1>1 DEF DecInv, Losses
<1> QED
  BY <1>4, <1>5, <1>6, <1>7 DEF DecInv

LEMMA WriteFailsKeeps ==
  ASSUME DecInv, WriteFails
  PROVE  DecInv'
<1>1. /\ tick = "write" /\ drain.taken # <<>> /\ faults' = faults + 1
      /\ declog' = TornAppend(declog) \/ declog' = Appended(declog, NextRecord)
      /\ dropped' = dropped + Len(drain.taken) /\ drain' = [drain EXCEPT !.taken = <<>>]
      /\ UNCHANGED <<alog, witness, dispatch, busy, evicted, queue, emitted, lossFile, tick,
                     forgotten, crashes>>
  BY DEF WriteFails, Loss
<1>2. drain \in Drains /\ declog \in Seq(Records \union {Torn}) /\ dropped \in Nat
  BY DEF DecInv, DecTyped
<1>3. drain' \in Drains /\ drain'.head = drain.head /\ drain'.taken = <<>>
  BY <1>1, <1>2, EmptySeq DEF Drains
<1>4. dropped' \in Nat /\ dropped' # 0
  <2>1. drain.taken \in Seq(Nat)
    BY <1>2 DEF Drains
  <2>2. Len(drain.taken) \in Nat /\ Len(drain.taken) # 0
    BY <1>1, <2>1, LenProperties, EmptySeq
  <2> QED
    BY <1>1, <1>2, <2>2
<1>5. /\ declog' \in Seq(Records \union {Torn})
      /\ Classified(declog') =>
           /\ Classified(declog) /\ Linked(declog') /\ Behind(drain.head, ChainHead(declog'))
           /\ \A f \in Heads : Behind(f, ChainHead(declog)) => Behind(f, ChainHead(declog'))
  <2>1. CASE declog' = Appended(declog, NextRecord)
    BY <1>1, <2>1, NextRecordFits
  <2>2. CASE declog' = TornAppend(declog)
    <3>1. declog' = Appended(declog, Torn) /\ Torn \in Records \union {Torn}
      BY <2>2 DEF TornAppend, Appended
    <3>2. declog' \in Seq(Records \union {Torn}) /\ Longer(declog', declog, Torn)
      BY <1>2, <3>1, Lengthened
    <3>3. ~ Classified(declog')
      BY <3>2 DEF Longer, Classified
    <3> QED
      BY <3>2, <3>3
  <2> QED
    BY <1>1, <2>1, <2>2
<1>6. DecTyped'
  BY <1>1, <1>3, <1>4, <1>5 DEF DecInv, DecTyped
<1>7. DecSound'
  BY <1>3, <1>5 DEF DecSound
<1>8. DecStream' /\ FaceInv'
  BY <1>1, <1>5, DecStreamAlone DEF DecInv
<1>9. Losses'
  BY <1>4 DEF Losses
<1> QED
  BY <1>6, <1>7, <1>8, <1>9 DEF DecInv

LEMMA AnchorHeadKeeps ==
  ASSUME DecInv, AnchorHead
  PROVE  DecInv'
<1>1. /\ tick = "write" /\ tick' = "anchor"
      /\ OpenAnchor(Tick, drain.head) \/ OpenRefused \/ UNCHANGED avars
      /\ UNCHANGED <<queue, dropped, emitted, lossFile, declog, drain, unrecorded, forgotten, crashes>>
  BY DEF AnchorHead
<1>2. DecStream' /\ FaceInv'
  <2>1. CASE OpenRefused \/ UNCHANGED avars
    BY <1>1, <2>1, DecStreamAlone DEF OpenRefused, avars, DecInv
  <2>2. CASE OpenAnchor(Tick, drain.head)
    <3>1. PICK F : /\ F \subseteq Heads
                   /\ Classified(declog) => \A f \in F : Behind(f, ChainHead(declog))
                   /\ StreamInv(F)
      BY DEF DecInv, DecStream
    <3>2. PICK h : h = drain.head
      OBVIOUS
    <3> DEFINE G == F \union {h}
    <3>3. h \in Heads /\ (Classified(declog) => Behind(h, ChainHead(declog)))
      BY <1>1, <3>2 DEF DecInv, DecTyped, Drains, DecSound
    <3>4. h \in G /\ F \subseteq G /\ G \subseteq Heads
          /\ (Classified(declog) => \A f \in G : Behind(f, ChainHead(declog)))
      BY <3>1, <3>3
    <3> HIDE DEF G
    <3>5. StreamInv(G)
      BY <3>1, <3>4, StreamGrows
    <3>6. OpenAnchor(Tick, h) /\ Tick \in Threads
      BY <2>2, <3>2, DecisionAssumption
    <3>7. StreamInv(G)' /\ FaceInv'
      BY <3>4, <3>5, <3>6, OpenAnchorKeeps, OpenAnchorHonest DEF DecInv
    <3> QED
      BY <1>1, <3>4, <3>7, ChainAlone
  <2> QED
    BY <1>1, <2>1, <2>2
<1>3. DecTyped'
  BY <1>1 DEF DecInv, DecTyped
<1>4. DecSound'
  BY <1>1 DEF DecInv, DecSound
<1>5. Losses'
  BY <1>1 DEF DecInv, Losses
<1> QED
  BY <1>2, <1>3, <1>4, <1>5 DEF DecInv

LEMMA NoDrainTyped ==
  NoDrain \in Drains
BY EmptySeq DEF NoDrain, NoHead, Drains, Heads

LEMMA CompactDecisionsKeeps ==
  ASSUME DecInv, CompactDecisions
  PROVE  DecInv'
<1>1. /\ tick' = "persist" /\ drain' = NoDrain
      /\ declog' = (IF Classified(declog) THEN WithoutGroups(declog, OldestGroups(declog)) ELSE declog)
      /\ UNCHANGED <<avars, queue, dropped, emitted, lossFile, unrecorded, forgotten, crashes>>
  BY DEF CompactDecisions
<1>2. /\ declog' \in Seq(Records \union {Torn})
      /\ Classified(declog') =>
           Classified(declog) /\ Linked(declog') /\ ChainHead(declog') = ChainHead(declog)
  <2>1. CASE Classified(declog)
    <3>1. declog \in Seq(Records) /\ Linked(declog)
      BY <2>1, LinesAreRecords DEF DecInv, DecTyped, DecSound
    <3>2. declog' = WithoutGroups(declog, DroppedGroups(declog, DecisionCapacity))
      BY <1>1, <2>1 DEF OldestGroups
    <3>3. declog' \in Seq(Records) /\ Linked(declog') /\ ChainHead(declog') = ChainHead(declog)
      BY <3>1, <3>2, RecordsCompacted
    <3>4. declog' \in Seq(Records \union {Torn})
      BY <3>3, RecordsAreLines
    <3> QED
      BY <2>1, <3>3, <3>4
  <2>2. CASE ~ Classified(declog)
    BY <1>1, <2>2 DEF DecInv, DecTyped
  <2> QED
    BY <2>1, <2>2
<1>3. DecTyped'
  BY <1>1, <1>2, NoDrainTyped DEF DecInv, DecTyped
<1>4. DecSound'
  BY <1>1, <1>2 DEF DecSound
<1>5. DecStream' /\ FaceInv'
  BY <1>1, <1>2, DecStreamAlone DEF DecInv, avars
<1>6. Losses'
  BY <1>1 DEF DecInv, Losses
<1> QED
  BY <1>3, <1>4, <1>5, <1>6 DEF DecInv

LEMMA PersistLossKeeps ==
  ASSUME DecInv, PersistLoss
  PROVE  DecInv'
<1>1. /\ tick' = "idle" /\ lossFile' \in {lossFile, dropped} /\ faults' \in {faults, faults + 1}
      /\ UNCHANGED <<alog, witness, dispatch, busy, evicted, queue, dropped, emitted, declog, drain,
                     unrecorded, forgotten, crashes>>
  BY DEF PersistLoss
<1>2. DecTyped'
  BY <1>1 DEF DecInv, DecTyped
<1>3. DecSound'
  BY <1>1 DEF DecInv, DecSound
<1>4. DecStream' /\ FaceInv'
  BY <1>1, DecStreamAlone DEF DecInv
<1>5. Losses'
  BY <1>1 DEF DecInv, Losses
<1> QED
  BY <1>2, <1>3, <1>4, <1>5 DEF DecInv

LEMMA DCrashKeeps ==
  ASSUME DecInv, DCrash
  PROVE  DecInv'
<1> DEFINE inMemory == Range(queue) \union Range(drain.taken)
<1>1. /\ ACrash /\ unrecorded' = unrecorded \union inMemory
      /\ forgotten' = forgotten \union inMemory \union (IF dropped # lossFile THEN unrecorded ELSE {})
      /\ queue' = <<>> /\ dropped' = lossFile /\ tick' = "idle" /\ drain' = NoDrain
      /\ UNCHANGED <<faults, emitted, lossFile, declog>>
  BY DEF DCrash, Restored
<1>2. PICK F : /\ F \subseteq Heads
               /\ Classified(declog) => \A f \in F : Behind(f, ChainHead(declog))
               /\ StreamInv(F)
  BY DEF DecInv, DecStream
<1>3. faults' \in Nat
  BY <1>1, <1>2 DEF StreamInv, StreamTyped
<1>4. StreamInv(F)' /\ FaceInv'
  BY <1>1, <1>2, <1>3, ACrashKeeps, ACrashHonest DEF DecInv
<1>5. DecStream'
  BY <1>1, <1>2, <1>4, ChainAlone
<1>6. DecTyped'
  BY <1>1, NoDrainTyped, EmptySeq DEF DecInv, DecTyped
<1>7. DecSound'
  BY <1>1 DEF DecInv, DecSound
<1> HIDE DEF inMemory
<1>8. Losses'
  BY <1>1 DEF DecInv, Losses
<1> QED
  BY <1>4, <1>5, <1>6, <1>7, <1>8 DEF DecInv

LEMMA DInitHolds ==
  ASSUME DInit
  PROVE  DecInv
<1>1. /\ AInit /\ queue = <<>> /\ dropped = 0 /\ emitted = 0 /\ lossFile = 0 /\ declog = <<>>
      /\ tick = "idle" /\ drain = NoDrain /\ unrecorded = {} /\ forgotten = {}
  BY DEF DInit
<1>2. DecTyped
  BY <1>1, NoDrainTyped, EmptySeq DEF DecTyped
<1>3. DecSound
  BY <1>1 DEF DecSound, Linked
<1>4. DecStream
  <2>1. StreamInv({})
    BY <1>1, AInitSound
  <2> QED
    BY <2>1 DEF DecStream
<1>5. FaceInv
  BY <1>1, AInitHonest
<1>6. Losses
  BY <1>1 DEF Losses
<1> QED
  BY <1>2, <1>3, <1>4, <1>5, <1>6 DEF DecInv

\* The invariant of the attestation of decisions: the chain is linked, what the
\* stream witnesses is behind its head, the stream's lines are honest, and a
\* loss that no crash took is counted.
THEOREM DecisionInvariant == DSpec => []DecInv
<1>1. DInit => DecInv
  BY DInitHolds
<1>2. DecInv /\ [DNext]_dvars => DecInv'
  <2> SUFFICES ASSUME DecInv, [DNext]_dvars PROVE DecInv'
    OBVIOUS
  <2>1. ASSUME UNCHANGED dvars PROVE DecInv'
    <3>1. UNCHANGED avars /\ UNCHANGED sinkVars
      BY <2>1 DEF dvars
    <3>2. DecStream' /\ FaceInv'
      BY <3>1, DecStreamAlone DEF DecInv, avars, sinkVars
    <3>3. DecTyped' /\ DecSound' /\ Losses'
      BY <3>1 DEF DecInv, DecTyped, DecSound, Losses, sinkVars
    <3> QED
      BY <3>2, <3>3 DEF DecInv
  <2>2. ASSUME TickNext PROVE DecInv'
    BY <2>2, TickSweepKeeps, TickStreamKeeps, DrainNothingKeeps, TakeQueueKeeps, WriteRecordKeeps,
       WriteFailsKeeps, AnchorHeadKeeps, CompactDecisionsKeeps, PersistLossKeeps DEF TickNext
  <2>3. ASSUME Emit \/ DCrash PROVE DecInv'
    BY <2>3, EmitKeeps, DCrashKeeps
  <2> HIDE DEF DecInv
  <2> QED
    BY <2>1, <2>2, <2>3 DEF DNext
<1> QED
  BY <1>1, <1>2, PTL DEF DSpec

\* AttestedCountsLosses holds: an attested log hides no loss but a crash's
\* (fillDecisionAttest, addDropped, persistLoss).
THEOREM LossesCounted == DSpec => []AttestedCountsLosses
<1>1. DecInv => AttestedCountsLosses
  BY DEF DecInv, Losses, AttestedCountsLosses, DecisionAttested
<1> QED
  BY <1>1, DecisionInvariant, PTL

\* DeliveryFaceTrue holds: the face counts as anchored only what the witness
\* holds (AnchorDeliveryStatus, classifyAnchorResponse).
THEOREM FaceNeverOverstates == DSpec => []DeliveryFaceTrue
<1>1. DecInv => DeliveryFaceTrue
  BY FaceIsTrue DEF DecInv, DecStream
<1> QED
  BY <1>1, DecisionInvariant, PTL

\* NotAccused holds: neither the log against its anchors nor the witness against
\* the family reads as tampering (decisionLogStateAt, reconcileWitnessFamily).
THEOREM DecisionsNotAccused == DSpec => []NotAccused
<1>1. DecInv => NotAccused
  <2> SUFFICES ASSUME DecInv PROVE NotAccused
    OBVIOUS
  <2>1. PICK F : /\ F \subseteq Heads
                 /\ Classified(declog) => \A f \in F : Behind(f, ChainHead(declog))
                 /\ StreamInv(F)
    BY DEF DecInv, DecStream
  <2>2. ASSUME evicted = {}
        PROVE  FamilyVerdict(alog, declog # <<>>) \notin {"truncated", "divergent", "deleted"}
    BY <2>1, <2>2, FamilyHonest
  <2>3. ASSUME Classified(alog), Classified(declog)
        PROVE  DecisionLogState \notin {"truncated", "divergent"}
    <3> DEFINE facts == AnchoredFacts
               h == ChainHead(declog)
               P(f) == \A g \in facts : g.group <= f.group
               top == CHOOSE f \in facts : P(f)
    <3>1. declog \in Seq(Records) /\ Linked(declog)
      BY <2>3, LinesAreRecords DEF DecInv, DecTyped, DecSound
    <3>2. ChainOK(declog) /\ h \in Heads
      BY <3>1, LinkedIsOK, HeadTyped
    <3>3. Conflicts(alog) = {}
      BY <2>3, NoConflict DEF DecInv, FaceInv, HonestLog
    <3>4. facts \subseteq F
      <4>1. alog \in Seq(Entries(F)) /\ \A i \in DOMAIN alog : alog[i] \in Entries(F)
        BY <2>1, <2>3, LinesAreEntries DEF StreamInv, StreamTyped
      <4>2. ASSUME NEW s \in InState(alog, "anchored") PROVE Latest(alog, s).fact \in F
        <5>1. s \in Groups(alog)
          BY DEF InState, Seqs
        <5>2. PICK i \in DOMAIN alog : Latest(alog, s) = alog[i]
          BY <4>1, <5>1, LatestExists
        <5> QED
          BY <4>1, <5>2 DEF Entries
      <4> QED
        BY <4>2 DEF AnchoredFacts
    <3>5. \A f \in facts : f \in Heads /\ Behind(f, h)
      BY <2>1, <2>3, <3>4
    <3>6. CASE facts = {}
      BY <2>3, <3>3, <3>6 DEF DecisionLogState
    <3>7. CASE facts # {}
      <4> DEFINE N == {f.group : f \in facts}
      <4>1. h.group \in Nat /\ \A f \in facts : f.group \in Nat /\ f.group <= h.group
        BY <3>2, <3>5 DEF Heads, Behind
      <4>2. N \in SUBSET Nat /\ N # {} /\ \A g \in N : g <= h.group
        BY <3>7, <4>1
      <4>3. PICK m \in N : \A g \in N : g <= m
        <5> HIDE DEF N
        <5> QED
          BY <4>1, <4>2, GreatestIs
      <4>4. \E f \in facts : P(f)
        <5>1. PICK f \in facts : f.group = m
          BY <4>3
        <5> QED
          BY <4>3, <5>1
      <4>5. top \in facts
        <5> HIDE DEF P, facts
        <5> QED
          BY <4>4, Zenon
      <4>6. NewestAnchored = top
        BY DEF NewestAnchored
      <4> HIDE DEF top
      <4>7. top.group \in Nat /\ Behind(top, h)
        BY <3>5, <4>1, <4>5
      <4>8. DecisionLogState =
              IF h.group < top.group THEN "truncated"
              ELSE IF h.group > top.group THEN "pending_anchor"
              ELSE IF h # top THEN "divergent"
              ELSE "attested"
        BY <2>3, <3>2, <3>3, <3>7, <4>6 DEF DecisionLogState
      <4> HIDE DEF h, facts
      <4>9. ~ (h.group < top.group) /\ (h.group > top.group \/ h = top)
        <5>1. top.group <= h.group /\ (top.group = h.group => top = h)
          BY <4>7 DEF Behind
        <5> QED
          BY <4>1, <4>7, <5>1
      <4> QED
        BY <4>8, <4>9
    <3> QED
      BY <3>6, <3>7
  <2> QED
    BY <2>2, <2>3 DEF NotAccused
<1> QED
  BY <1>1, DecisionInvariant, PTL


-----------------------------------------------------------------------------
(* The anchors of the publications.                                        *)
(*                                                                         *)
(* A group that is taken out of the log ends what StreamInv says of the    *)
(* log; the types are kept whatever was taken out.                         *)

LEMMA WorkTyped ==
  ASSUME NEW F, StreamTyped(F), NEW t \in Threads, busy[t].step # "idle"
  PROVE  /\ busy[t] # Idle /\ busy[t] \in Works(F)
         /\ busy[t].entry \in Entries(F) /\ busy[t].todo \in Seq(Entries(F))
<1>1. busy[t] # Idle
  BY DEF Idle
<1>2. busy[t] \in Works(F)
  BY <1>1 DEF StreamTyped
<1> QED
  BY <1>1, <1>2 DEF Works

LEMMA TypedAfter ==
  ASSUME NEW F, NEW t, NEW next, Turned(F, t, next),
         alog' \in Seq(Entries(F) \union {Torn}), witness' \in SUBSET [seq : Nat \ {0}, fact : F],
         faults' \in Nat, evicted' \in SUBSET Nat
  PROVE  StreamTyped(F)' /\ Exclusive'
BY DEF Turned, StreamTyped

\* The thread goes on with its next entry.
LEMMA ContinueKeepsTypes ==
  ASSUME NEW F, StreamTyped(F), Exclusive, NEW t \in Threads, busy[t].step # "idle",
         Turn(t, Continue(busy[t].todo)), alog' \in Seq(Entries(F) \union {Torn}),
         witness' = witness, faults' \in Nat, evicted' \in SUBSET Nat
  PROVE  StreamTyped(F)' /\ Exclusive'
<1> DEFINE next == Continue(busy[t].todo)
<1>1. busy[t] # Idle /\ busy[t].todo \in Seq(Entries(F))
  BY WorkTyped
<1>2. next \in {Idle} \union Works(F)
  BY <1>1, ContinueTyped
<1>3. busy' = [busy EXCEPT ![t] = next] /\ (dispatch' = dispatch \/ (next = Idle /\ dispatch' = Nobody))
  BY DEF Turn
<1> HIDE DEF next
<1>4. Turned(F, t, next)
  BY <1>1, <1>2, <1>3, TurnKeeps
<1>5. witness' \in SUBSET [seq : Nat \ {0}, fact : F]
  BY DEF StreamTyped
<1> QED
  BY <1>4, <1>5, TypedAfter

\* The thread stays with its entry.
LEMMA StayKeepsTypes ==
  ASSUME NEW F, StreamTyped(F), Exclusive, NEW t \in Threads, busy[t].step # "idle",
         NEW next \in Works(F), busy' = [busy EXCEPT ![t] = next], dispatch' = dispatch,
         alog' \in Seq(Entries(F) \union {Torn}), witness' \in SUBSET [seq : Nat \ {0}, fact : F],
         faults' \in Nat, evicted' \in SUBSET Nat
  PROVE  StreamTyped(F)' /\ Exclusive'
<1>1. busy[t] # Idle
  BY WorkTyped
<1>2. Turned(F, t, next)
  BY <1>1, TurnKeeps
<1> QED
  BY <1>2, TypedAfter

LEMMA FilterTyped ==
  ASSUME NEW F, NEW log \in Seq(Entries(F) \union {Torn}), NEW D, NEW r, r = WithoutGroups(log, D)
  PROVE  r \in Seq(Entries(F) \union {Torn})
BY KeptLines

LEMMA CheckAnchorTyped ==
  ASSUME NEW F, StreamTyped(F), Exclusive, NEW t \in Threads, CheckAnchor(t)
  PROVE  StreamTyped(F)' /\ Exclusive'
<1>1. /\ busy[t].step = "append" /\ UNCHANGED <<alog, witness, faults, evicted>>
      /\ \/ Turn(t, Continue(busy[t].todo))
         \/ Turn(t, [busy[t] EXCEPT !.step = "write"])
  BY DEF CheckAnchor
<1>2. /\ alog' \in Seq(Entries(F) \union {Torn}) /\ witness' \in SUBSET [seq : Nat \ {0}, fact : F]
      /\ faults' \in Nat /\ evicted' \in SUBSET Nat
  BY <1>1 DEF StreamTyped
<1>3. CASE Turn(t, Continue(busy[t].todo))
  BY <1>1, <1>2, <1>3, ContinueKeepsTypes
<1>4. CASE Turn(t, [busy[t] EXCEPT !.step = "write"])
  <2> DEFINE next == [busy[t] EXCEPT !.step = "write"]
  <2>1. next \in Works(F)
    BY <1>1, WorkTyped DEF Works
  <2>2. next # Idle
    BY <2>1, IdleIsNoWork
  <2>3. busy' = [busy EXCEPT ![t] = next] /\ dispatch' = dispatch
    BY <1>4, <2>2 DEF Turn
  <2> HIDE DEF next
  <2> QED
    BY <1>1, <1>2, <2>1, <2>3, StayKeepsTypes
<1> QED
  BY <1>1, <1>3, <1>4

LEMMA AppendAnchorTyped ==
  ASSUME NEW F, StreamTyped(F), Exclusive, NEW t \in Threads, AppendAnchor(t)
  PROVE  StreamTyped(F)' /\ Exclusive'
<1> DEFINE next == [busy[t] EXCEPT !.step = "compact"]
<1>1. /\ busy[t].step = "write" /\ alog' = Append(alog, busy[t].entry)
      /\ busy' = [busy EXCEPT ![t] = next] /\ UNCHANGED <<witness, dispatch, faults, evicted>>
  BY DEF AppendAnchor, Appended
<1>2. next \in Works(F) /\ busy[t].entry \in Entries(F)
  BY <1>1, WorkTyped DEF Works
<1>3. /\ alog \in Seq(Entries(F) \union {Torn}) /\ witness' \in SUBSET [seq : Nat \ {0}, fact : F]
      /\ faults' \in Nat /\ evicted' \in SUBSET Nat
  BY <1>1 DEF StreamTyped
<1>4. alog' \in Seq(Entries(F) \union {Torn})
  BY <1>1, <1>2, <1>3, AppendTyped
<1> HIDE DEF next
<1> QED
  BY <1>1, <1>2, <1>3, <1>4, StayKeepsTypes

LEMMA AppendAnchorFailsTyped ==
  ASSUME NEW F, StreamTyped(F), Exclusive, NEW t \in Threads, AppendAnchorFails(t)
  PROVE  StreamTyped(F)' /\ Exclusive'
<1>1. /\ busy[t].step = "write" /\ alog' \in {Append(alog, Torn), Append(alog, busy[t].entry)}
      /\ Turn(t, Continue(busy[t].todo)) /\ faults' = faults + 1 /\ UNCHANGED <<witness, evicted>>
  BY DEF AppendAnchorFails, Appended, TornAppend
<1>2. busy[t].entry \in Entries(F)
  BY <1>1, WorkTyped
<1>3. /\ alog \in Seq(Entries(F) \union {Torn}) /\ faults' \in Nat /\ evicted' \in SUBSET Nat
  BY <1>1 DEF StreamTyped
<1>4. alog' \in Seq(Entries(F) \union {Torn})
  BY <1>1, <1>2, <1>3, AppendTyped
<1> QED
  BY <1>1, <1>3, <1>4, ContinueKeepsTypes

LEMMA CompactAnchorsTyped ==
  ASSUME NEW F, StreamTyped(F), Exclusive, NEW t \in Threads, CompactAnchors(t)
  PROVE  StreamTyped(F)' /\ Exclusive'
<1> DEFINE next == [busy[t] EXCEPT !.step = "deliver"]
           D == Evicted(alog)
<1>1. /\ busy[t].step = "compact" /\ UNCHANGED <<witness, faults>>
      /\ \/ Turn(t, Continue(busy[t].todo))
         \/ Turn(t, next)
  BY DEF CompactAnchors
<1>2. \/ alog' = alog /\ evicted' = evicted
      \/ /\ Classified(alog) /\ alog' = WithoutGroups(alog, D)
         /\ evicted' = evicted \union {s \in D : Latest(alog, s).state # "anchored"}
  BY DEF CompactAnchors, CompactRefused
<1>3. /\ alog \in Seq(Entries(F) \union {Torn}) /\ witness' \in SUBSET [seq : Nat \ {0}, fact : F]
      /\ faults' \in Nat /\ evicted \in SUBSET Nat
  BY <1>1 DEF StreamTyped
<1>4. Classified(alog) => D \subseteq Nat
  <2>1. D \subseteq Groups(alog)
    BY DEF Evicted, DroppedGroups
  <2> QED
    BY <1>3, <2>1, LinesAreEntries
<1>5. evicted' \in SUBSET Nat
  BY <1>2, <1>3, <1>4
<1>6. alog' \in Seq(Entries(F) \union {Torn})
  <2> HIDE DEF D
  <2> QED
    BY <1>2, <1>3, FilterTyped
<1>7. CASE Turn(t, Continue(busy[t].todo))
  BY <1>1, <1>3, <1>5, <1>6, <1>7, ContinueKeepsTypes
<1>8. CASE Turn(t, next)
  <2>1. next \in Works(F)
    BY <1>1, WorkTyped DEF Works
  <2>2. next # Idle
    BY <2>1, IdleIsNoWork
  <2>3. busy' = [busy EXCEPT ![t] = next] /\ dispatch' = dispatch
    BY <1>8, <2>2 DEF Turn
  <2> HIDE DEF next
  <2> QED
    BY <1>1, <1>3, <1>5, <1>6, <2>1, <2>3, StayKeepsTypes
<1> QED
  BY <1>1, <1>7, <1>8

LEMMA SettledTyped ==
  ASSUME NEW F, NEW e \in Entries(F), NEW answer \in {"ack", "refused", "lost"},
         NEW x, x = Settled(e, answer)
  PROVE  x \in Entries(F) /\ x.group = e.group /\ x.fact = e.fact
<1> DEFINE st == Classify(answer)
           z == IF st = "pending" /\ e.attempts + 1 >= MaxAttempts THEN "unanchored" ELSE st
           a == e.attempts + 1
<1>1. st \in States
  BY DEF Classify, States
<1>2. x = [e EXCEPT !.attempts = a, !.state = z]
  BY DEF Settled
<1>3. z \in States
  BY <1>1 DEF States
<1>4. a \in Nat
  BY DEF Entries
<1> HIDE DEF z, a
<1> QED
  BY <1>2, <1>3, <1>4 DEF Entries

\* What a delivery does, whoever answers.
LEMMA Delivered ==
  ASSUME NEW F, StreamTyped(F), NEW t \in Threads, Deliver(t)
  PROVE  \E next \in Works(F) :
           /\ busy[t].step = "deliver" /\ UNCHANGED <<alog, dispatch, faults, evicted>>
           /\ busy' = [busy EXCEPT ![t] = next]
           /\ next.step = "append" /\ next.todo = busy[t].todo
           /\ next.entry.group = busy[t].entry.group /\ next.entry.fact = busy[t].entry.fact
           /\ witness' \in {witness, witness \union {Holds(busy[t].entry)}}
<1> DEFINE b == busy[t]
           e == b.entry
<1>1. b.step = "deliver" /\ UNCHANGED <<alog, dispatch, faults, evicted>>
  BY DEF Deliver
<1>2. PICK answer \in {"ack", "refused", "lost"}, arrives \in BOOLEAN :
        /\ witness' = IF arrives THEN witness \union {Holds(e)} ELSE witness
        /\ busy' = [busy EXCEPT ![t].step = "append", ![t].fresh = FALSE,
                                ![t].entry = Settled(@, answer)]
  BY DEF Deliver
<1> DEFINE x == Settled(e, answer)
           next == [b EXCEPT !.step = "append", !.fresh = FALSE, !.entry = x]
<1>3. b \in Works(F) /\ e \in Entries(F)
  BY <1>1, WorkTyped
<1>4. busy' = [busy EXCEPT ![t] = next]
  <2>1. busy \in [Threads -> {Idle} \union Works(F)]
    BY DEF StreamTyped
  <2> QED
    BY <1>2, <1>3, <2>1 DEF Works
<1>5. x \in Entries(F) /\ x.group = e.group /\ x.fact = e.fact
  <2> HIDE DEF e
  <2> QED
    BY <1>3, SettledTyped
<1>6. next \in Works(F) /\ next.step = "append" /\ next.entry = x /\ next.todo = b.todo
  <2> HIDE DEF x
  <2> QED
    BY <1>3, <1>5 DEF Works
<1> HIDE DEF next, x
<1> QED
  BY <1>1, <1>2, <1>4, <1>5, <1>6

LEMMA DeliverTyped ==
  ASSUME NEW F, StreamTyped(F), Exclusive, NEW t \in Threads, Deliver(t)
  PROVE  StreamTyped(F)' /\ Exclusive'
<1>1. PICK next \in Works(F) :
        /\ busy[t].step = "deliver" /\ UNCHANGED <<alog, dispatch, faults, evicted>>
        /\ busy' = [busy EXCEPT ![t] = next]
        /\ witness' \in {witness, witness \union {Holds(busy[t].entry)}}
  BY Delivered
<1>2. busy[t].entry \in Entries(F)
  BY <1>1, WorkTyped
<1>3. Holds(busy[t].entry) \in [seq : Nat \ {0}, fact : F]
  BY <1>2 DEF Holds, Entries
<1>4. /\ alog' \in Seq(Entries(F) \union {Torn}) /\ witness' \in SUBSET [seq : Nat \ {0}, fact : F]
      /\ faults' \in Nat /\ evicted' \in SUBSET Nat
  BY <1>1, <1>3 DEF StreamTyped
<1> QED
  BY <1>1, <1>4, StayKeepsTypes

LEMMA DeliverConflictTyped ==
  ASSUME NEW F, StreamTyped(F), Exclusive, NEW t \in Threads, DeliverConflict(t)
  PROVE  StreamTyped(F)' /\ Exclusive'
<1>1. /\ busy[t].step = "deliver" /\ UNCHANGED <<alog, witness, faults, evicted>>
      /\ Turn(t, Continue(busy[t].todo))
  BY DEF DeliverConflict
<1>2. alog' \in Seq(Entries(F) \union {Torn}) /\ faults' \in Nat /\ evicted' \in SUBSET Nat
  BY <1>1 DEF StreamTyped
<1> QED
  BY <1>1, <1>2, ContinueKeepsTypes

LEMMA AnchorStepTyped ==
  ASSUME NEW F, StreamTyped(F), Exclusive, NEW t \in Threads, AnchorStep(t)
  PROVE  StreamTyped(F)' /\ Exclusive'
BY CheckAnchorTyped, AppendAnchorTyped, AppendAnchorFailsTyped, CompactAnchorsTyped, DeliverTyped,
   DeliverConflictTyped DEF AnchorStep

\* A thread that takes the free mutex, for a new entry or a sweep.
LEMMA TakeKeepsTypes ==
  ASSUME NEW F, StreamTyped(F), Exclusive, NEW t \in Threads, MutexFree,
         NEW next \in {Idle} \union Works(F), busy' = [busy EXCEPT ![t] = next],
         dispatch' = t \/ (next = Idle /\ dispatch' = Nobody),
         UNCHANGED <<alog, witness, faults, evicted>>
  PROVE  StreamTyped(F)' /\ Exclusive'
<1>1. Turned(F, t, next)
  BY Taken
<1>2. /\ alog' \in Seq(Entries(F) \union {Torn}) /\ witness' \in SUBSET [seq : Nat \ {0}, fact : F]
      /\ faults' \in Nat /\ evicted' \in SUBSET Nat
  BY DEF StreamTyped
<1> QED
  BY <1>1, <1>2, TypedAfter

LEMMA WorkOffTyped ==
  ASSUME NEW F, StreamTyped(F), Exclusive, NEW t \in Threads, Classified(alog), WorkOff(t)
  PROVE  StreamTyped(F)' /\ Exclusive'
<1> DEFINE todo == InOrder({Latest(alog, s) : s \in Undelivered(alog)})
           next == Continue(todo)
<1>1. /\ MutexFree /\ UNCHANGED <<alog, witness, faults, evicted>>
      /\ busy' = [busy EXCEPT ![t] = next] /\ dispatch' = IF next = Idle THEN Nobody ELSE t
  BY DEF WorkOff
<1>2. todo \in Seq(Entries(F))
  BY PendingInOrder DEF StreamTyped
<1> HIDE DEF todo
<1>3. next \in {Idle} \union Works(F)
  BY <1>2, ContinueTyped
<1> HIDE DEF next
<1> QED
  BY <1>1, <1>3, TakeKeepsTypes

\* The entry recordAnchorEntry opens, pending or given up at once.
Opens(t, next, id) ==
  /\ MutexFree /\ Classified(alog) /\ dispatch' = t /\ busy' = [busy EXCEPT ![t] = next]
  /\ UNCHANGED <<alog, witness, faults, evicted>>
  /\ next.step = "append" /\ next.todo = <<>> /\ (next.fresh => next.entry.state = "pending")
  /\ next.entry.group = NextAnchorSeq(alog) /\ next.entry.fact = id

LEMMA EntryOpened ==
  ASSUME NEW F, StreamTyped(F), NEW t \in Threads, t = Publisher, NEW id \in F, Classified(alog),
         OpenAnchor(t, id) \/ OpenBlocked(id)
  PROVE  \E next \in Works(F) : Opens(t, next, id)
<1> DEFINE n == NextAnchorSeq(alog)
           p == PendingEntry(n, id)
<1>1. n \in Nat \ {0}
  BY NextIsAbove DEF StreamTyped
<1>2. <<>> \in Seq(Entries(F))
  BY EmptySeq
<1> HIDE DEF n
<1>3. p \in Entries(F) /\ p.group = n /\ p.fact = id /\ p.state = "pending"
  BY <1>1 DEF PendingEntry, Entries, States
<1> HIDE DEF p
<1>4. CASE OpenAnchor(t, id)
  <2> DEFINE next == [step |-> FirstStep, fresh |-> TRUE, todo |-> <<>>, entry |-> p]
  <2>1. /\ MutexFree /\ dispatch' = t /\ busy' = [busy EXCEPT ![t] = next]
        /\ UNCHANGED <<alog, witness, faults, evicted>>
    BY <1>4 DEF OpenAnchor, p, n
  <2>2. /\ next \in Works(F) /\ next.step = "append" /\ next.todo = <<>> /\ next.entry = p
    BY <1>2, <1>3 DEF Works, FirstStep
  <2> HIDE DEF next
  <2>3. Opens(t, next, id)
    BY <1>3, <2>1, <2>2 DEF Opens, n
  <2> QED
    BY <2>2, <2>3
<1>5. CASE OpenBlocked(id)
  <2> DEFINE e == [p EXCEPT !.state = "unanchored"]
             next == [step |-> FirstStep, fresh |-> FALSE, todo |-> <<>>, entry |-> e]
  <2>1. /\ MutexFree /\ dispatch' = t /\ busy' = [busy EXCEPT ![t] = next]
        /\ UNCHANGED <<alog, witness, faults, evicted>>
    BY <1>5 DEF OpenBlocked, p, n
  <2>2. e \in Entries(F) /\ e.group = n /\ e.fact = id
    BY <1>3 DEF Entries, States
  <2> HIDE DEF e
  <2>3. /\ next \in Works(F) /\ next.step = "append" /\ next.todo = <<>> /\ next.entry = e
        /\ next.fresh = FALSE
    BY <1>2, <2>2 DEF Works, FirstStep
  <2> HIDE DEF next
  <2>4. Opens(t, next, id)
    BY <2>1, <2>2, <2>3 DEF Opens, n
  <2> QED
    BY <2>3, <2>4
<1> QED
  BY <1>4, <1>5

LEMMA OpensTyped ==
  ASSUME NEW F, StreamTyped(F), Exclusive, NEW t \in Threads, NEW id, NEW next \in Works(F),
         Opens(t, next, id)
  PROVE  StreamTyped(F)' /\ Exclusive'
BY TakeKeepsTypes DEF Opens

LEMMA OpensKeeps ==
  ASSUME NEW F, StreamInv(F), NEW t \in Threads, NEW id \in F, NEW next \in Works(F),
         Opens(t, next, id)
  PROVE  StreamInv(F)'
<1>1. /\ MutexFree /\ Classified(alog) /\ dispatch' = t /\ busy' = [busy EXCEPT ![t] = next]
      /\ UNCHANGED <<alog, witness, faults, evicted>>
      /\ next.step = "append" /\ next.todo = <<>> /\ (next.fresh => next.entry.state = "pending")
      /\ next.entry.group = NextAnchorSeq(alog) /\ next.entry.fact = id
  BY DEF Opens
<1>2. alog \in Seq(Entries(F) \union {Torn}) /\ witness \in SUBSET [seq : Nat \ {0}, fact : F]
  BY DEF StreamInv, StreamTyped
<1>3. Turned(F, t, next)
  BY <1>1, Taken DEF StreamInv
<1>4. ASSUME evicted = {} PROVE SoundLog(alog, witness) /\ Working(alog, witness, next)
  <2>1. SoundLog(alog, witness)
    BY <1>1, <1>4 DEF StreamInv, StreamSound
  <2>2. PICK e : e = PendingEntry(NextAnchorSeq(alog), id)
    OBVIOUS
  <2>3. Unused(alog, witness, e)
    BY <1>1, <1>2, <2>1, <2>2, NumberUnused
  <2>4. Unused(alog, witness, next.entry)
    BY <1>1, <2>2, <2>3 DEF Unused, PendingEntry
  <2>5. Todo(alog, next.todo)
    BY <1>1 DEF Todo
  <2> QED
    BY <1>1, <2>1, <2>4, <2>5 DEF Working
<1>5. ~ Ambiguous'
  BY <1>1 DEF StreamInv, Ambiguous
<1> QED
  BY <1>1, <1>3, <1>4, <1>5, AfterTurn DEF StreamInv, StreamTyped

-----------------------------------------------------------------------------
(* What the numbers of the publications' anchors are.                      *)

\* What the log and the witness say about numbers.
Known(log, W) == {Holds(log[i]) : i \in DOMAIN log} \union W

\* A publication has one number.
OneNumber(log, W) == \A x, y \in Known(log, W) : x.fact = y.fact => x.seq = y.seq

\* The numbers have no gap.
Row(log) == \A g, h \in Groups(log) : \A n \in g .. h : n \in Groups(log)

\* The entry is of a new publication and continues the numbers.
Follows(log, W, e) ==
  /\ \A x \in Known(log, W) : x.fact # e.fact
  /\ log = <<>> \/ e.group - 1 \in Groups(log)

Placed(log, W, b) ==
  b.step \in {"append", "write"} => Follows(log, W, b.entry) \/ Open(log, b.entry)

SoundChain(log, W) == OneNumber(log, W) /\ Row(log)

ChainSound ==
  Classified(alog) /\ evicted = {} =>
    /\ SoundChain(alog, witness)
    /\ \A t \in Threads : busy[t] # Idle => Placed(alog, witness, busy[t])

LEMMA ChainAfter ==
  ASSUME NEW next, Only(next),
         Classified(alog') /\ evicted' = {} =>
           SoundChain(alog', witness') /\ (next # Idle => Placed(alog', witness', next))
  PROVE  ChainSound'
BY DEF ChainSound, Only

\* What the invariant says of a thread at work.
LEMMA ChainAtWork ==
  ASSUME NEW F, StreamInv(F), ChainSound, NEW t \in Threads, busy[t].step # "idle",
         Classified(alog), evicted = {}
  PROVE  /\ SoundChain(alog, witness) /\ Placed(alog, witness, busy[t])
         /\ SoundLog(alog, witness) /\ Working(alog, witness, busy[t])
BY AtWork DEF ChainSound

LEMMA ContinuePlaced ==
  ASSUME NEW F, NEW todo \in Seq(Entries(F)), NEW log, NEW W, Todo(log, todo),
         NEW b, b = Continue(todo), b # Idle
  PROVE  Placed(log, W, b)
<1> DEFINE e == Head(todo)
<1>1. todo # <<>>
  BY DEF Continue
<1>2. e \in Entries(F) /\ Open(log, e)
  <2>1. DOMAIN todo = 1 .. Len(todo) /\ Len(todo) \in Nat /\ Len(todo) # 0
    BY <1>1, LenProperties, EmptySeq
  <2>2. 1 \in DOMAIN todo
    BY <2>1
  <2>3. e = todo[1] /\ e \in Entries(F)
    BY <1>1, HeadTailProperties
  <2> QED
    BY <2>2, <2>3 DEF Todo
<1>3. b.entry = SweepEntry(e)
  BY <1>1 DEF Continue
<1> HIDE DEF e
<1>4. b.entry.group = e.group /\ b.entry.fact = e.fact
  BY <1>2, <1>3 DEF SweepEntry, Entries
<1> QED
  BY <1>2, <1>4 DEF Placed, Open

\* An append continues the numbers or repeats one.
LEMMA AppendChained ==
  ASSUME NEW F, NEW log \in Seq(Entries(F)), NEW W, NEW x \in Entries(F), SoundChain(log, W),
         (Follows(log, W, x) /\ Unused(log, W, x)) \/ Open(log, x), NEW r, r = Appended(log, x)
  PROVE  SoundChain(r, W)
<1>1. Longer(r, log, x)
  BY Lengthened
<1>2. \A i \in DOMAIN r : (i \in DOMAIN log /\ r[i] = log[i]) \/ r[i] = x
  BY <1>1 DEF Longer
<1>3. \A i \in DOMAIN log : i \in DOMAIN r /\ r[i] = log[i]
  BY <1>1 DEF Longer
<1>4. Known(r, W) \subseteq Known(log, W) \union {Holds(x)}
  BY <1>2 DEF Known
<1>5. Groups(r) = Groups(log) \union {x.group}
  <2>1. Len(log) + 1 \in DOMAIN r /\ r[Len(log) + 1] = x
    BY <1>1 DEF Longer
  <2> QED
    BY <1>2, <1>3, <2>1 DEF Groups
<1>6. CASE Open(log, x)
  <2>1. PICK i \in DOMAIN log : log[i].group = x.group /\ log[i].fact = x.fact
    BY <1>6 DEF Open
  <2>2. Holds(x) = Holds(log[i])
    BY <2>1 DEF Holds
  <2>3. Holds(x) \in Known(log, W) /\ x.group \in Groups(log)
    BY <2>1, <2>2 DEF Known, Groups
  <2>4. Known(r, W) \subseteq Known(log, W) /\ Groups(r) = Groups(log)
    BY <1>4, <1>5, <2>3
  <2> QED
    BY <2>4 DEF SoundChain, OneNumber, Row
<1>7. CASE Follows(log, W, x) /\ Unused(log, W, x)
  <2>1. \A y \in Known(log, W) : y.fact # Holds(x).fact
    BY <1>7 DEF Follows, Holds
  <2>2. OneNumber(r, W)
    BY <1>4, <2>1 DEF SoundChain, OneNumber
  <2>3. Row(r)
    <3>1. \A g \in Groups(log) : g \in Nat /\ g < x.group
      <4>1. \A i \in DOMAIN log : log[i] \in Entries(F) /\ log[i].group < x.group
        BY <1>7 DEF Unused
      <4> QED
        BY <4>1 DEF Groups, Entries
    <3>2. x.group \in Nat
      BY DEF Entries
    <3>3. SUFFICES ASSUME NEW g \in Groups(r), NEW h \in Groups(r), NEW n \in g .. h
                   PROVE  n \in Groups(r)
      BY DEF Row
    <3>4. CASE h \in Groups(log)
      <4>1. g \in Groups(log)
        BY <1>5, <3>1, <3>2, <3>3, <3>4
      <4> QED
        BY <1>5, <3>4, <4>1 DEF SoundChain, Row
    <3>5. CASE h = x.group /\ g \in Groups(log)
      <4>1. x.group - 1 \in Groups(log)
        <5>1. log # <<>>
          BY <3>5 DEF Groups
        <5> QED
          BY <1>7, <5>1 DEF Follows
      <4>2. n = x.group \/ n \in g .. (x.group - 1)
        BY <3>1, <3>2, <3>5
      <4> QED
        BY <1>5, <3>5, <4>1, <4>2 DEF SoundChain, Row
    <3>6. CASE h = x.group /\ g = x.group
      BY <1>5, <3>2, <3>6
    <3> QED
      BY <1>5, <3>4, <3>5, <3>6
  <2> QED
    BY <2>2, <2>3 DEF SoundChain
<1> QED
  BY <1>6, <1>7

\* Prefix compaction leaves the upper end of the numbers.
LEMMA CompactChained ==
  ASSUME NEW F, NEW log \in Seq(Entries(F)), NEW W, SoundChain(log, W), NEW r, Shortened(r, log)
  PROVE  SoundChain(r, W)
<1>1. PICK D : D \subseteq Groups(log) /\ DropsLowest(log, D) /\ r = WithoutGroups(log, D)
  BY DEF Shortened
<1>2. r \in Seq(Entries(F)) /\ Filtered(r, log, D)
  BY <1>1, KeptLines
<1>3. PICK p \in [1 .. Len(r) -> DOMAIN log] :
        /\ \A k \in 1 .. Len(r) : r[k] = log[p[k]] /\ log[p[k]].group \notin D
        /\ \A i \in DOMAIN log : log[i].group \notin D => \E k \in 1 .. Len(r) : p[k] = i
  BY <1>2 DEF Filtered
<1>4. DOMAIN r = 1 .. Len(r)
  BY <1>2, LenProperties
<1>5. \A k \in DOMAIN r : \E i \in DOMAIN log : r[k] = log[i] /\ log[i].group \notin D
  BY <1>3, <1>4
<1>6. Known(r, W) \subseteq Known(log, W)
  BY <1>5 DEF Known
<1>7. Groups(r) = Groups(log) \ D
  <2>1. Groups(r) \subseteq Groups(log) \ D
    BY <1>5 DEF Groups
  <2>2. ASSUME NEW i \in DOMAIN log, log[i].group \notin D PROVE \E k \in DOMAIN r : r[k] = log[i]
    <3>1. PICK k \in 1 .. Len(r) : p[k] = i
      BY <1>3, <2>2
    <3>2. r[k] = log[i] /\ k \in DOMAIN r
      BY <1>3, <1>4, <3>1
    <3> QED
      BY <3>2
  <2>3. Groups(log) \ D \subseteq Groups(r)
    BY <2>2 DEF Groups
  <2> QED
    BY <2>1, <2>3
<1>8. Groups(log) \subseteq Nat
  <2>1. \A i \in DOMAIN log : log[i] \in Entries(F)
    OBVIOUS
  <2> QED
    BY <2>1 DEF Groups, Entries
<1>9. Row(r)
  <2> SUFFICES ASSUME NEW g \in Groups(r), NEW h \in Groups(r), NEW n \in g .. h
               PROVE  n \in Groups(r)
    BY DEF Row
  <2>1. n \in Groups(log)
    BY <1>7 DEF SoundChain, Row
  <2>2. n \in D => n < g
    BY <1>1, <1>7 DEF DropsLowest
  <2>3. ~ (n < g)
    BY <1>7, <1>8
  <2> QED
    BY <1>7, <2>1, <2>2, <2>3
<1> QED
  BY <1>6, <1>9 DEF SoundChain, OneNumber

\* The thread goes on with its next entry.
LEMMA ContinueChain ==
  ASSUME NEW F, StreamInv(F), NEW t \in Threads, busy[t].step # "idle",
         busy' = [busy EXCEPT ![t] = Continue(busy[t].todo)],
         Classified(alog') /\ evicted' = {} =>
           SoundChain(alog', witness') /\ Todo(alog', busy[t].todo)
  PROVE  ChainSound'
<1> DEFINE todo == busy[t].todo
           next == Continue(todo)
<1>1. todo \in Seq(Entries(F))
  BY AtWork
<1>2. Only(next)
  <2>1. busy' = [busy EXCEPT ![t] = next]
    OBVIOUS
  <2> HIDE DEF next
  <2> QED
    BY <2>1, OnlyTurn
<1>3. ASSUME Classified(alog'), evicted' = {}, next # Idle PROVE Placed(alog', witness', next)
  <2>1. Todo(alog', todo)
    BY <1>3
  <2> HIDE DEF todo
  <2> QED
    BY <1>1, <1>3, <2>1, ContinuePlaced
<1> HIDE DEF next
<1> QED
  BY <1>2, <1>3, ChainAfter

LEMMA CheckAnchorChain ==
  ASSUME NEW F, StreamInv(F), ChainSound, NEW t \in Threads, CheckAnchor(t)
  PROVE  ChainSound'
<1>1. /\ busy[t].step = "append" /\ UNCHANGED <<alog, witness, evicted>>
      /\ \/ Turn(t, Continue(busy[t].todo))
         \/ Turn(t, [busy[t] EXCEPT !.step = "write"])
  BY DEF CheckAnchor
<1>2. Classified(alog) /\ evicted = {} =>
        /\ SoundChain(alog, witness) /\ Placed(alog, witness, busy[t])
        /\ Working(alog, witness, busy[t])
  BY <1>1, ChainAtWork
<1>3. CASE Turn(t, Continue(busy[t].todo))
  <2>1. busy' = [busy EXCEPT ![t] = Continue(busy[t].todo)]
    BY <1>3 DEF Turn
  <2>2. Classified(alog') /\ evicted' = {} => SoundChain(alog', witness') /\ Todo(alog', busy[t].todo)
    BY <1>1, <1>2 DEF Working
  <2> QED
    BY <1>1, <2>1, <2>2, ContinueChain
<1>4. CASE Turn(t, [busy[t] EXCEPT !.step = "write"])
  <2> DEFINE next == [busy[t] EXCEPT !.step = "write"]
  <2>1. busy' = [busy EXCEPT ![t] = next]
    BY <1>4 DEF Turn
  <2>2. next.entry = busy[t].entry
    BY <1>1, AtWork DEF Works
  <2> HIDE DEF next
  <2>3. Only(next)
    BY <1>1, <2>1, OnlyTurn
  <2>4. Classified(alog) /\ evicted = {} => Placed(alog, witness, next)
    BY <1>1, <1>2, <2>2 DEF Placed
  <2> QED
    BY <1>1, <1>2, <2>3, <2>4, ChainAfter
<1> QED
  BY <1>1, <1>3, <1>4

\* What the log is after an append.
LEMMA AppendedChain ==
  ASSUME NEW F, StreamInv(F), ChainSound, NEW t \in Threads, busy[t].step = "write",
         alog' = Appended(alog, busy[t].entry), Classified(alog'), evicted = {}
  PROVE  SoundChain(alog', witness) /\ Todo(alog', busy[t].todo)
<1> DEFINE e == busy[t].entry
<1>1. alog \in Seq(Entries(F) \union {Torn}) /\ e \in Entries(F)
  BY AtWork DEF StreamInv, StreamTyped
<1>2. Todo(alog', busy[t].todo)
  BY AppendWorks
<1>3. alog' = Append(alog, e)
  BY DEF Appended
<1>4. Classified(alog)
  <2> HIDE DEF e
  <2> QED
    BY <1>1, <1>3, AppendTyped
<1>5. SoundChain(alog, witness) /\ Placed(alog, witness, busy[t]) /\ Working(alog, witness, busy[t])
  BY <1>4, ChainAtWork
<1>6. (Follows(alog, witness, e) /\ Unused(alog, witness, e)) \/ Open(alog, e)
  BY <1>5 DEF Placed, Working
<1>7. alog \in Seq(Entries(F))
  BY <1>1, <1>4, LinesAreEntries
<1>8. alog' = Appended(alog, e)
  OBVIOUS
<1> HIDE DEF e
<1>9. SoundChain(alog', witness)
  BY <1>1, <1>5, <1>6, <1>7, <1>8, AppendChained
<1> QED
  BY <1>2, <1>9

LEMMA AppendAnchorChain ==
  ASSUME NEW F, StreamInv(F), ChainSound, NEW t \in Threads, AppendAnchor(t)
  PROVE  ChainSound'
<1> DEFINE next == [busy[t] EXCEPT !.step = "compact"]
<1>1. /\ busy[t].step = "write" /\ alog' = Appended(alog, busy[t].entry)
      /\ busy' = [busy EXCEPT ![t] = next] /\ UNCHANGED <<witness, evicted>>
  BY DEF AppendAnchor
<1>2. next.step = "compact"
  BY <1>1, AtWork DEF Works
<1> HIDE DEF next
<1>3. Only(next)
  BY <1>1, OnlyTurn
<1>4. Classified(alog') /\ evicted' = {} => SoundChain(alog', witness')
  BY <1>1, AppendedChain
<1>5. Placed(alog', witness', next)
  BY <1>2 DEF Placed
<1> QED
  BY <1>3, <1>4, <1>5, ChainAfter

LEMMA AppendAnchorFailsChain ==
  ASSUME NEW F, StreamInv(F), ChainSound, NEW t \in Threads, AppendAnchorFails(t)
  PROVE  ChainSound'
<1>1. /\ busy[t].step = "write" /\ alog' \in {TornAppend(alog), Appended(alog, busy[t].entry)}
      /\ busy' = [busy EXCEPT ![t] = Continue(busy[t].todo)] /\ UNCHANGED <<witness, evicted>>
  BY DEF AppendAnchorFails, Turn
<1>2. alog' = TornAppend(alog) => ~ Classified(alog')
  <2>1. alog \in Seq(Entries(F) \union {Torn})
    BY DEF StreamInv, StreamTyped
  <2> QED
    BY <2>1, AppendTyped DEF TornAppend
<1>3. Classified(alog') /\ evicted' = {} => SoundChain(alog', witness') /\ Todo(alog', busy[t].todo)
  BY <1>1, <1>2, AppendedChain
<1> QED
  BY <1>1, <1>3, ContinueChain

LEMMA CompactAnchorsChain ==
  ASSUME NEW F, StreamInv(F), ChainSound, NEW t \in Threads, CompactAnchors(t)
  PROVE  ChainSound'
<1> DEFINE next == [busy[t] EXCEPT !.step = "deliver"]
<1>1. /\ busy[t].step = "compact" /\ witness' = witness
      /\ \/ Turn(t, Continue(busy[t].todo))
         \/ Turn(t, next)
  BY DEF CompactAnchors
<1>2. busy[t] \in Works(F) /\ busy[t].todo \in Seq(Entries(F))
  BY <1>1, AtWork
<1>3. ASSUME Classified(alog'), evicted' = {}
      PROVE  SoundChain(alog', witness) /\ Todo(alog', busy[t].todo)
  <2>1. /\ Classified(alog) /\ evicted = {} /\ Working(alog, witness, busy[t])
        /\ \A e \in Entries(F) : Open(alog, e) => Open(alog', e)
        /\ alog' = alog \/ Shortened(alog', alog)
    BY <1>3, CompactOpen
  <2>2. SoundChain(alog, witness)
    BY <1>1, <2>1, ChainAtWork
  <2>3. alog \in Seq(Entries(F))
    BY <2>1, LinesAreEntries DEF StreamInv, StreamTyped
  <2>4. SoundChain(alog', witness)
    BY <2>1, <2>2, <2>3, CompactChained
  <2>5. \A i \in DOMAIN busy[t].todo : busy[t].todo[i] \in Entries(F)
    BY <1>2, LenProperties
  <2>6. Todo(alog, busy[t].todo)
    BY <2>1 DEF Working
  <2>7. Todo(alog', busy[t].todo)
    BY <2>1, <2>5, <2>6 DEF Todo
  <2> QED
    BY <2>4, <2>7
<1>4. CASE Turn(t, Continue(busy[t].todo))
  <2>1. busy' = [busy EXCEPT ![t] = Continue(busy[t].todo)]
    BY <1>4 DEF Turn
  <2> QED
    BY <1>1, <1>3, <2>1, ContinueChain
<1>5. CASE Turn(t, next)
  <2>1. busy' = [busy EXCEPT ![t] = next]
    BY <1>5 DEF Turn
  <2>2. next.step = "deliver"
    BY <1>2 DEF Works
  <2> HIDE DEF next
  <2>3. Only(next)
    BY <1>1, <2>1, OnlyTurn
  <2>4. Placed(alog', witness', next)
    BY <2>2 DEF Placed
  <2> QED
    BY <1>1, <1>3, <2>3, <2>4, ChainAfter
<1> QED
  BY <1>1, <1>4, <1>5

LEMMA DeliverChain ==
  ASSUME NEW F, StreamInv(F), ChainSound, NEW t \in Threads, Deliver(t)
  PROVE  ChainSound'
<1>1. PICK next \in Works(F) :
        /\ busy[t].step = "deliver" /\ UNCHANGED <<alog, dispatch, faults, evicted>>
        /\ busy' = [busy EXCEPT ![t] = next]
        /\ next.entry.group = busy[t].entry.group /\ next.entry.fact = busy[t].entry.fact
        /\ witness' \in {witness, witness \union {Holds(busy[t].entry)}}
  BY Delivered DEF StreamInv
<1>2. Only(next)
  BY <1>1, OnlyTurn
<1>3. ASSUME Classified(alog), evicted = {}
      PROVE  SoundChain(alog, witness') /\ Placed(alog, witness', next)
  <2>1. SoundChain(alog, witness) /\ Working(alog, witness, busy[t])
    BY <1>1, <1>3, ChainAtWork
  <2>2. Open(alog, busy[t].entry)
    BY <1>1, <2>1 DEF Working
  <2>3. PICK i \in DOMAIN alog : /\ alog[i].group = busy[t].entry.group
                                 /\ alog[i].fact = busy[t].entry.fact
    BY <2>2 DEF Open
  <2>4. Holds(busy[t].entry) = Holds(alog[i])
    BY <2>3 DEF Holds
  <2>5. Known(alog, witness') = Known(alog, witness)
    BY <1>1, <2>4 DEF Known
  <2>6. Placed(alog, witness', next)
    BY <1>1, <2>2 DEF Placed, Open
  <2> QED
    BY <2>1, <2>5, <2>6 DEF SoundChain, OneNumber
<1> QED
  BY <1>1, <1>2, <1>3, ChainAfter

LEMMA DeliverConflictChain ==
  ASSUME NEW F, StreamInv(F), ChainSound, NEW t \in Threads, DeliverConflict(t)
  PROVE  ChainSound'
<1>1. /\ busy[t].step = "deliver" /\ UNCHANGED <<alog, witness, evicted>>
      /\ busy' = [busy EXCEPT ![t] = Continue(busy[t].todo)]
  BY DEF DeliverConflict, Turn
<1>2. Classified(alog) /\ evicted = {} => SoundChain(alog, witness) /\ Working(alog, witness, busy[t])
  BY <1>1, ChainAtWork
<1> QED
  BY <1>1, <1>2, ContinueChain DEF Working

LEMMA AnchorStepChain ==
  ASSUME NEW F, StreamInv(F), ChainSound, NEW t \in Threads, AnchorStep(t)
  PROVE  ChainSound'
BY CheckAnchorChain, AppendAnchorChain, AppendAnchorFailsChain, CompactAnchorsChain, DeliverChain,
   DeliverConflictChain DEF AnchorStep

LEMMA WorkOffChain ==
  ASSUME NEW F, StreamInv(F), ChainSound, NEW t \in Threads, Classified(alog), WorkOff(t)
  PROVE  ChainSound'
<1> DEFINE todo == InOrder({Latest(alog, s) : s \in Undelivered(alog)})
           next == Continue(todo)
<1>1. /\ MutexFree /\ UNCHANGED <<alog, witness, faults, evicted>> /\ busy' = [busy EXCEPT ![t] = next]
  BY DEF WorkOff
<1>2. todo \in Seq(Entries(F)) /\ Todo(alog, todo)
  BY PendingInOrder DEF StreamInv, StreamTyped
<1> HIDE DEF todo
<1>3. next # Idle => Placed(alog, witness, next)
  BY <1>2, ContinuePlaced
<1> HIDE DEF next
<1>4. Only(next)
  BY <1>1, OnlyTurn
<1> QED
  BY <1>1, <1>3, <1>4, ChainAfter DEF ChainSound

\* The number of a new publication is the next one.
LEMMA OpensChain ==
  ASSUME NEW F, StreamInv(F), ChainSound, NEW t \in Threads, NEW id, id \notin F, NEW next,
         Opens(t, next, id)
  PROVE  ChainSound'
<1>1. /\ MutexFree /\ Classified(alog) /\ busy' = [busy EXCEPT ![t] = next]
      /\ UNCHANGED <<alog, witness, faults, evicted>>
      /\ next.entry.group = NextAnchorSeq(alog) /\ next.entry.fact = id
  BY DEF Opens
<1>2. Only(next)
  BY <1>1, OnlyTurn
<1>3. ASSUME evicted = {} PROVE Follows(alog, witness, next.entry)
  <2>1. OneFact(alog)
    BY <1>1, <1>3 DEF StreamInv, StreamSound, SoundLog
  <2>2. Seqs(alog) = Groups(alog)
    BY <2>1, NoConflict
  <2>3. /\ alog \in Seq(Entries(F)) /\ Groups(alog) \in SUBSET Nat
        /\ \A i \in DOMAIN alog : alog[i] \in Entries(F)
        /\ witness \in SUBSET [seq : Nat \ {0}, fact : F]
    BY <1>1, LinesAreEntries DEF StreamInv, StreamTyped
  <2>4. ASSUME NEW x \in Known(alog, witness) PROVE x.fact # id
    <3>1. CASE x \in witness
      BY <2>3, <3>1
    <3>2. CASE \E i \in DOMAIN alog : x = Holds(alog[i])
      BY <2>3, <3>2 DEF Holds, Entries
    <3> QED
      BY <2>4, <3>1, <3>2 DEF Known
  <2>5. ASSUME alog # <<>> PROVE NextAnchorSeq(alog) - 1 \in Groups(alog)
    <3>1. 1 \in DOMAIN alog
      BY <2>3, <2>5, EmptySeq, LenProperties
    <3>2. Groups(alog) # {}
      BY <3>1 DEF Groups
    <3>3. \A i \in DOMAIN alog : alog[i].group \in Nat
      BY <2>3 DEF Entries
    <3>4. PICK u \in Nat : Highest(alog, u)
      BY <2>3, <2>5, <3>3, HighestGroup
    <3>5. \A g \in Groups(alog) : g <= u
      BY <3>4 DEF Highest
    <3>6. Max(Groups(alog)) \in Groups(alog)
      BY <2>3, <3>2, <3>5, GreatestIs
    <3>7. NextAnchorSeq(alog) = Max(Groups(alog)) + 1
      BY <2>2, <3>2 DEF NextAnchorSeq
    <3> QED
      BY <2>3, <3>6, <3>7
  <2> QED
    BY <1>1, <2>4, <2>5 DEF Follows
<1>4. evicted = {} => SoundChain(alog, witness) /\ Placed(alog, witness, next)
  BY <1>1, <1>3 DEF Placed, ChainSound
<1> QED
  BY <1>1, <1>2, <1>4, ChainAfter

LEMMA ACrashChain ==
  ASSUME ChainSound, ACrash
  PROVE  ChainSound'
BY DEF ACrash, ChainSound

-----------------------------------------------------------------------------
(* What ReconcileAnchor makes of a log.                                    *)

\* The entries it compares are the last lines of the groups without conflict.
LEMMA LocalEntries ==
  ASSUME NEW F, NEW log \in Seq(Entries(F) \union {Torn}), Classified(log)
  PROVE  /\ Numbers(Local(log)) = Seqs(log)
         /\ \A e \in Local(log) : \E i \in DOMAIN log : e = log[i]
         /\ \A g \in Seqs(log) :
              \E i \in DOMAIN log : log[i].group = g /\ log[i] \in Local(log)
<1>1. log \in Seq(Entries(F))
  BY LinesAreEntries
<1>2. ASSUME NEW g \in Seqs(log)
      PROVE  \E i \in DOMAIN log : log[i].group = g /\ Latest(log, g) = log[i]
  <2>1. g \in Groups(log)
    BY DEF Seqs
  <2> QED
    BY <1>1, <2>1, LatestExists
<1>3. \A e \in Local(log) : \E i \in DOMAIN log : e = log[i]
  BY <1>2 DEF Local
<1>4. ASSUME NEW g \in Seqs(log)
      PROVE  \E i \in DOMAIN log : log[i].group = g /\ log[i] \in Local(log)
  <2>1. PICK i \in DOMAIN log : log[i].group = g /\ Latest(log, g) = log[i]
    BY <1>2
  <2>2. Latest(log, g) \in Local(log)
    BY DEF Local
  <2> QED
    BY <2>1, <2>2
<1>5. \A g \in Seqs(log) : Latest(log, g).group = g
  BY <1>2
<1>6. Numbers(Local(log)) = Seqs(log)
  BY <1>5 DEF Numbers, Local
<1> QED
  BY <1>3, <1>4, <1>6

\* The least and the greatest number of a log.
LEMMA SeqsBounds ==
  ASSUME NEW F, NEW log \in Seq(Entries(F) \union {Torn}), Classified(log), Seqs(log) # {},
         NEW lo, lo = Min(Seqs(log)), NEW hi, hi = Max(Seqs(log))
  PROVE  /\ lo \in Nat /\ hi \in Nat /\ lo \in Seqs(log) /\ hi \in Seqs(log)
         /\ \A g \in Seqs(log) : g \in Nat /\ lo <= g /\ g <= hi
<1>1. /\ log \in Seq(Entries(F)) /\ Groups(log) \subseteq Nat
      /\ \A i \in DOMAIN log : log[i].group \in Nat
  BY LinesAreEntries
<1>2. Seqs(log) \subseteq Groups(log)
  BY DEF Seqs
<1>3. log # <<>>
  BY <1>2 DEF Groups
<1>4. PICK u \in Nat : Highest(log, u)
  BY <1>1, <1>3, HighestGroup
<1>5. Seqs(log) \in SUBSET Nat /\ \A g \in Seqs(log) : g <= u
  BY <1>1, <1>2, <1>4 DEF Highest
<1>6. hi \in Seqs(log) /\ \A g \in Seqs(log) : g <= hi
  BY <1>5, GreatestIs
<1>7. lo \in Seqs(log) /\ \A g \in Seqs(log) : lo <= g
  BY <1>5, LeastIs
<1> QED
  BY <1>5, <1>6, <1>7

\* A log nobody touched is not broken, whatever part of the witness' sequence
\* it is compared with.
LEMMA UntouchedNotBroken ==
  ASSUME NEW F, StreamInv(F), ChainSound, evicted = {}, NEW items \in SUBSET witness
  PROVE  ReconcileAnchor(alog, items) # "broken"
<1> DEFINE local == Local(alog)
           S == Numbers(local)
           lo == Min(S)
           hi == Max(S)
<1>1. CASE ~ Classified(alog)
  BY <1>1 DEF ReconcileAnchor
<1>2. CASE Classified(alog) /\ Shared(local, items) = {}
  BY <1>2 DEF ReconcileAnchor
<1>3. CASE Classified(alog) /\ Shared(local, items) # {}
  <2>1. /\ alog \in Seq(Entries(F) \union {Torn}) /\ alog \in Seq(Entries(F))
        /\ \A i \in DOMAIN alog : alog[i] \in Entries(F)
        /\ witness \in SUBSET [seq : Nat \ {0}, fact : F]
    BY <1>3, LinesAreEntries DEF StreamInv, StreamTyped
  <2>2. /\ OneFact(alog) /\ \A w \in witness : OnRecord(alog, w)
        /\ OneNumber(alog, witness) /\ Row(alog)
    BY <1>3 DEF StreamInv, StreamSound, SoundLog, ChainSound, SoundChain
  <2>3. Seqs(alog) = Groups(alog)
    BY <2>2, NoConflict
  <2>4. /\ S = Seqs(alog)
        /\ \A e \in local : \E i \in DOMAIN alog : e = alog[i]
        /\ \A g \in Seqs(alog) : \E i \in DOMAIN alog : alog[i].group = g /\ alog[i] \in local
    BY <1>3, <2>1, LocalEntries
  <2>5. S # {}
    BY <1>3 DEF Shared, Confirmed, Numbers
  <2>6. /\ lo \in Nat /\ hi \in Nat /\ lo \in S /\ hi \in S
        /\ \A g \in S : g \in Nat /\ lo <= g /\ g <= hi
    BY <1>3, <2>1, <2>4, <2>5, SeqsBounds
  <2> HIDE DEF lo, hi, local, S
  <2>7. ASSUME NEW e \in Shared(local, items) PROVE Agrees(e, items)
    <3>1. e \in local /\ Named(e, items)
      BY <2>7 DEF Shared, Confirmed
    <3>2. PICK w \in items : w.fact = e.fact
      BY <3>1 DEF Named
    <3>3. PICK i \in DOMAIN alog : e = alog[i]
      BY <2>4, <3>1
    <3>4. Holds(e) \in Known(alog, witness) /\ w \in Known(alog, witness)
      BY <3>2, <3>3 DEF Known
    <3>5. Holds(e).seq = e.group /\ Holds(e).fact = e.fact
      BY DEF Holds
    <3>6. w.seq = e.group
      BY <2>2, <3>2, <3>4, <3>5 DEF OneNumber
    <3>7. w = [seq |-> w.seq, fact |-> w.fact]
      BY <2>1, <3>2
    <3>8. w = Holds(e)
      BY <3>2, <3>6, <3>7 DEF Holds
    <3> QED
      BY <3>2, <3>8 DEF Agrees
  <2>8. ASSUME NEW w \in Strangers(local, items) PROVE w.seq \in Nat /\ w.seq < lo
    <3>1. w \in witness /\ \A e \in local : e.fact # w.fact
      BY <2>8 DEF Strangers
    <3>2. w.seq \in Nat
      BY <2>1, <3>1
    <3>3. ~ \E i \in DOMAIN alog : alog[i].group = w.seq /\ alog[i].fact = w.fact
      <4>1. SUFFICES ASSUME NEW i \in DOMAIN alog, alog[i].group = w.seq, alog[i].fact = w.fact
                     PROVE  FALSE
        OBVIOUS
      <4>2. w.seq \in Seqs(alog)
        BY <2>3, <4>1 DEF Groups
      <4>3. PICK k \in DOMAIN alog : alog[k].group = w.seq /\ alog[k] \in local
        BY <2>4, <4>2
      <4>4. alog[k].fact = w.fact
        BY <2>2, <4>1, <4>3 DEF OneFact
      <4> QED
        BY <3>1, <4>3, <4>4
    <3>4. \A i \in DOMAIN alog : w.seq < alog[i].group
      BY <2>2, <3>1, <3>3 DEF OnRecord
    <3>5. PICK i \in DOMAIN alog : alog[i].group = lo
      BY <2>4, <2>6
    <3> QED
      BY <3>2, <3>4, <3>5
  <2>9. Orphans(local, items) = {} /\ AheadOfWindow(local, items) = {}
    <3>1. \A w \in Strangers(local, items) : w.seq \notin lo .. hi /\ ~ (w.seq > hi)
      BY <2>6, <2>8
    <3> QED
      BY <3>1 DEF Orphans, AheadOfWindow, lo, hi, S
  <2>10. Contiguous(S)
    <3>1. S \subseteq lo .. hi
      BY <2>6
    <3>2. lo .. hi \subseteq S
      BY <2>2, <2>3, <2>4, <2>6 DEF Row
    <3>3. S = lo .. hi
      BY <3>1, <3>2
    <3> QED
      BY <2>5, <3>3 DEF Contiguous, lo, hi
  <2>11. Mismatched(local, items) = {}
    BY <2>7 DEF Mismatched
  <2>12. ~ Broken(local, items)
    BY <1>3, <2>7, <2>9, <2>10, <2>11 DEF Broken, S
  <2> QED
    BY <2>12 DEF ReconcileAnchor, local
<1> QED
  BY <1>1, <1>2, <1>3

\* What the witness holds above the oldest number and no line names is found.
LEMMA RemovalFound ==
  ASSUME NEW F, StreamTyped(F), Classified(alog), Shared(Local(alog), witness) # {},
         NEW d \in witness, d \in Strangers(Local(alog), witness), d.seq > Min(Seqs(alog))
  PROVE  ReconcileAnchor(alog, witness) = "broken"
<1> DEFINE local == Local(alog)
           S == Numbers(local)
           lo == Min(S)
           hi == Max(S)
<1>1. alog \in Seq(Entries(F) \union {Torn}) /\ d.seq \in Nat
  BY DEF StreamTyped
<1>2. S = Seqs(alog)
  BY <1>1, LocalEntries
<1>3. S # {} /\ witness # {}
  BY DEF Shared, Confirmed, Named, Numbers
<1>4. lo \in Nat /\ hi \in Nat /\ d.seq > lo
  BY <1>1, <1>2, <1>3, SeqsBounds
<1> HIDE DEF lo, hi, local, S
<1>5. d.seq \in lo .. hi \/ d.seq > hi
  BY <1>1, <1>4
<1>6. d \in Orphans(local, witness) \/ d \in AheadOfWindow(local, witness)
  BY <1>5 DEF Orphans, AheadOfWindow, lo, hi, S, local
<1>7. Broken(local, witness)
  BY <1>6 DEF Broken
<1> QED
  BY <1>3, <1>7 DEF ReconcileAnchor, local

-----------------------------------------------------------------------------
(* The chain's own invariant.                                              *)

\* While nothing was removed the stream is sound and asks for publications
\* that were made.
Untouched == \E F : F \subseteq 1 .. published /\ StreamInv(F)

ChainInv ==
  /\ published \in Nat
  /\ StreamTyped(Nat) /\ Exclusive
  /\ removed = {} => Untouched /\ ChainSound

LEMMA ChainInitHolds ==
  ASSUME CInit
  PROVE  ChainInv
<1>1. AInit /\ published = 0
  BY DEF CInit
<1>2. StreamInv({}) /\ StreamInv(Nat)
  BY <1>1, AInitSound
<1>3. ChainSound
  BY <1>1 DEF AInit, ChainSound, SoundChain, OneNumber, Row, Known, Groups
<1>4. Untouched
  BY <1>2 DEF Untouched
<1> QED
  BY <1>1, <1>2, <1>3, <1>4 DEF ChainInv, StreamInv

\* A step of the stream that leaves the publications alone.
LEMMA StreamMoves ==
  ASSUME ChainInv, UNCHANGED <<published, removed>>, StreamTyped(Nat)', Exclusive',
         \A F : StreamInv(F) /\ ChainSound => StreamInv(F)' /\ ChainSound'
  PROVE  ChainInv'
<1>1. ASSUME removed = {} PROVE Untouched' /\ ChainSound'
  <2>1. PICK F : F \subseteq 1 .. published /\ StreamInv(F)
    BY <1>1 DEF ChainInv, Untouched
  <2>2. StreamInv(F)' /\ ChainSound'
    BY <1>1, <2>1 DEF ChainInv
  <2> QED
    BY <2>1, <2>2 DEF Untouched
<1> QED
  BY <1>1 DEF ChainInv

\* The stream stands still.
LEMMA StreamRests ==
  ASSUME ChainInv, UNCHANGED <<avars, published, removed>>
  PROVE  ChainInv'
<1>1. UNCHANGED <<alog, witness, dispatch, busy, faults, evicted>>
  BY DEF avars
<1>2. StreamTyped(Nat)' /\ Exclusive'
  BY <1>1 DEF ChainInv, StreamTyped, Exclusive
<1>3. ASSUME NEW F, StreamInv(F) PROVE StreamInv(F)'
  BY <1>1, <1>3, SameStream DEF StreamInv, StreamTyped
<1>4. ChainSound => ChainSound'
  BY <1>1 DEF ChainSound
<1> QED
  BY <1>2, <1>3, <1>4, StreamMoves

LEMMA HousekeepingKeeps ==
  ASSUME ChainInv, AnchorHousekeeping
  PROVE  ChainInv'
<1>1. /\ (Classified(alog) /\ WorkOff(Publisher)) \/ UNCHANGED avars
      /\ UNCHANGED <<published, removed>> /\ Publisher \in Threads
  BY ChainAssumption DEF AnchorHousekeeping
<1>2. CASE Classified(alog) /\ WorkOff(Publisher)
  <2>1. StreamTyped(Nat)' /\ Exclusive'
    BY <1>1, <1>2, WorkOffTyped DEF ChainInv
  <2>2. ASSUME NEW F, StreamInv(F), ChainSound PROVE StreamInv(F)' /\ ChainSound'
    BY <1>1, <1>2, <2>2, WorkOffKeeps, WorkOffChain
  <2> QED
    BY <1>1, <2>1, <2>2, StreamMoves
<1>3. CASE UNCHANGED avars
  BY <1>1, <1>3, StreamRests
<1> QED
  BY <1>1, <1>2, <1>3

LEMMA StreamStepKeeps ==
  ASSUME ChainInv, StreamStep
  PROVE  ChainInv'
<1>1. AnchorStep(Publisher) /\ UNCHANGED <<published, removed>> /\ Publisher \in Threads
  BY ChainAssumption DEF StreamStep, chainVars
<1>2. StreamTyped(Nat)' /\ Exclusive'
  BY <1>1, AnchorStepTyped DEF ChainInv
<1>3. ASSUME NEW F, StreamInv(F), ChainSound PROVE StreamInv(F)' /\ ChainSound'
  BY <1>1, <1>3, AnchorStepKeeps, AnchorStepChain
<1> QED
  BY <1>1, <1>2, <1>3, StreamMoves

LEMMA RestartKeeps ==
  ASSUME ChainInv, Restart
  PROVE  ChainInv'
<1>1. ACrash /\ UNCHANGED <<faults, published, removed>>
  BY DEF Restart
<1>2. StreamTyped(Nat)' /\ Exclusive'
  BY <1>1 DEF ChainInv, StreamTyped, Exclusive, ACrash
<1>3. ASSUME NEW F, StreamInv(F), ChainSound PROVE StreamInv(F)' /\ ChainSound'
  <2>1. faults' \in Nat
    BY <1>1, <1>3 DEF StreamInv, StreamTyped
  <2> QED
    BY <1>1, <1>3, <2>1, ACrashKeeps, ACrashChain
<1> QED
  BY <1>1, <1>2, <1>3, StreamMoves

LEMMA RecordKeeps ==
  ASSUME ChainInv, RecordAnchorEntry
  PROVE  ChainInv'
<1>1. /\ published' = published + 1 /\ UNCHANGED removed /\ Publisher \in Threads
      /\ \/ UNCHANGED avars
         \/ /\ Classified(alog)
            /\ OpenAnchor(Publisher, published + 1) \/ OpenBlocked(published + 1)
  BY ChainAssumption DEF RecordAnchorEntry, OpenRefused
<1>2. PICK id : id = published + 1
  OBVIOUS
<1>3. /\ published \in Nat /\ published' \in Nat /\ id \in Nat /\ id \in 1 .. published'
      /\ 1 .. published \subseteq 1 .. published' /\ id \notin 1 .. published
  BY <1>1, <1>2 DEF ChainInv
<1>4. CASE UNCHANGED avars
  <2>1. UNCHANGED <<alog, witness, dispatch, busy, faults, evicted>>
    BY <1>4 DEF avars
  <2>2. StreamTyped(Nat)' /\ Exclusive'
    BY <2>1 DEF ChainInv, StreamTyped, Exclusive
  <2>3. ASSUME removed = {} PROVE Untouched' /\ ChainSound'
    <3>1. PICK F : F \subseteq 1 .. published /\ StreamInv(F)
      BY <2>3 DEF ChainInv, Untouched
    <3>2. StreamInv(F)'
      BY <2>1, <3>1, SameStream DEF StreamInv, StreamTyped
    <3>3. F \subseteq 1 .. published'
      BY <1>3, <3>1
    <3>4. ChainSound'
      BY <2>1, <2>3 DEF ChainInv, ChainSound
    <3> QED
      BY <3>2, <3>3, <3>4 DEF Untouched
  <2> QED
    BY <1>1, <1>3, <2>2, <2>3 DEF ChainInv
<1>5. CASE Classified(alog) /\ (OpenAnchor(Publisher, id) \/ OpenBlocked(id))
  <2>1. PICK next \in Works(Nat) : Opens(Publisher, next, id)
    BY <1>1, <1>3, <1>5, EntryOpened DEF ChainInv
  <2>2. StreamTyped(Nat)' /\ Exclusive'
    BY <1>1, <2>1, OpensTyped DEF ChainInv
  <2>3. ASSUME removed = {} PROVE Untouched' /\ ChainSound'
    <3>1. PICK F : F \subseteq 1 .. published /\ StreamInv(F)
      BY <2>3 DEF ChainInv, Untouched
    <3>2. PICK G : G = F \union {id}
      OBVIOUS
    <3>3. /\ id \in G /\ F \subseteq G /\ G \subseteq 1 .. published' /\ id \notin F
      BY <1>3, <3>1, <3>2
    <3>4. StreamInv(G)
      BY <3>1, <3>3, StreamGrows
    <3>5. PICK x \in Works(G) : Opens(Publisher, x, id)
      BY <1>1, <1>5, <3>3, <3>4, EntryOpened DEF StreamInv
    <3>6. StreamInv(G)'
      BY <1>1, <3>3, <3>4, <3>5, OpensKeeps
    <3>7. ChainSound'
      BY <1>1, <2>3, <3>1, <3>3, <3>5, OpensChain DEF ChainInv
    <3> QED
      BY <3>3, <3>6, <3>7 DEF Untouched
  <2> QED
    BY <1>1, <1>3, <2>2, <2>3 DEF ChainInv
<1> QED
  BY <1>1, <1>2, <1>4, <1>5

LEMMA RemoveKeeps ==
  ASSUME ChainInv, RemoveGroup
  PROVE  ChainInv'
<1>1. PICK g \in Seqs(alog) :
        /\ alog' = WithoutGroups(alog, {g})
        /\ removed' = removed \union {Holds(Latest(alog, g))}
        /\ UNCHANGED <<witness, dispatch, busy, faults, evicted, published>>
  BY DEF RemoveGroup
<1>2. StreamTyped(Nat)
  BY DEF ChainInv
<1>3. alog' \in Seq(Entries(Nat) \union {Torn})
  BY <1>1, <1>2, FilterTyped DEF StreamTyped
<1>4. StreamTyped(Nat)'
  BY <1>1, <1>2, <1>3 DEF StreamTyped
<1> QED
  BY <1>1, <1>4 DEF ChainInv, Exclusive

\* While nothing was removed the numbers of the publications are one row, each
\* of one publication, and the witness holds only what is on record or older.
THEOREM ChainAnchorInvariant == CSpec => []ChainInv
<1>1. CInit => ChainInv
  BY ChainInitHolds
<1>2. ChainInv /\ [CNext]_cvars => ChainInv'
  <2> SUFFICES ASSUME ChainInv, [CNext]_cvars PROVE ChainInv'
    OBVIOUS
  <2>1. CASE AnchorHousekeeping
    BY <2>1, HousekeepingKeeps
  <2>2. CASE RecordAnchorEntry
    BY <2>2, RecordKeeps
  <2>3. CASE NoPublication
    BY <2>3, StreamRests DEF NoPublication
  <2>4. CASE StreamStep
    BY <2>4, StreamStepKeeps
  <2>5. CASE Restart
    BY <2>5, RestartKeeps
  <2>6. CASE RemoveGroup
    BY <2>6, RemoveKeeps
  <2>7. CASE UNCHANGED cvars
    BY <2>7, StreamRests DEF cvars, chainVars
  <2> QED
    BY <2>1, <2>2, <2>3, <2>4, <2>5, <2>6, <2>7 DEF CNext
<1> QED
  BY <1>1, <1>2, PTL DEF CSpec

\* Reconciliation accuses no log that nobody touched and finds a confirmed
\* publication that was removed (ReconcileAnchor, walkAnchorUnion).
THEOREM ReconciliationSound == CSpec => []ReconcileSound
<1>1. ChainInv => ReconcileSound
  <2> SUFFICES ASSUME ChainInv PROVE ReconcileSound
    OBVIOUS
  <2>1. ASSUME removed = {}, evicted = {}, NEW items \in SUBSET witness
        PROVE  ReconcileAnchor(alog, items) # "broken"
    <3>1. PICK F : StreamInv(F)
      BY <2>1 DEF ChainInv, Untouched
    <3>2. ChainSound
      BY <2>1 DEF ChainInv
    <3> QED
      BY <2>1, <3>1, <3>2, UntouchedNotBroken
  <2>2. ASSUME Classified(alog), Shared(Local(alog), witness) # {},
               NEW d \in removed \intersect witness,
               d \in Strangers(Local(alog), witness), d.seq > Min(Seqs(alog))
        PROVE  ReconcileAnchor(alog, witness) = "broken"
    <3>1. StreamTyped(Nat) /\ d \in witness
      BY DEF ChainInv
    <3> QED
      BY <2>2, <3>1, RemovalFound
  <2> QED
    BY <2>1, <2>2 DEF ReconcileSound
<1> QED
  BY <1>1, ChainAnchorInvariant, PTL
=============================================================================
