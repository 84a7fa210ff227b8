-------------------------- MODULE PublicationProofs --------------------------
(***************************************************************************)
(* Proofs about the history export (ExportPublication): the chains it      *)
(* writes verify, the view of destructions is honest, evidence leaves only *)
(* on the record, and the directory implements PublicationWindow.          *)
(***************************************************************************)
EXTENDS ExportPublication, LogTheorems

-----------------------------------------------------------------------------
(* The destruction log.                                                    *)

Files == {"artifact", "manifest"}
Refs == [id : Nat, digest : Nat]
Kinds == {"snapshot_retention", "ledger_compaction", "verification_compaction", "self_compaction"}
LineStates == {"intended", "completed", "aborted"}
Digests == Nat \X (LineStates \union {"none"})
DLines == [group : Nat \ {0}, kind : Kinds, targets : SUBSET (Refs \union Nat),
           state : LineStates, prev : Digests]

LastOf(log) == log[Len(log)]

\* An intent starts the next group and points to the line before it; a closing
\* line follows the intent it closes.
Shaped(log) ==
  \A i \in DOMAIN log :
    IF log[i].state = "intended"
    THEN i > 1 => log[i].group = log[i - 1].group + 1 /\ log[i].prev = LineDigest(log[i - 1])
    ELSE /\ i > 1 /\ log[i - 1].state = "intended"
         /\ log[i] = [log[i - 1] EXCEPT !.state = log[i].state]

LEMMA LineFacts ==
  ASSUME NEW l \in DLines
  PROVE  l # Torn /\ l.group \in Nat /\ l.group > 0 /\ l.state \in LineStates
BY DEF DLines, Torn

LEMMA LineIn ==
  ASSUME NEW log \in Seq(DLines), NEW i \in DOMAIN log
  PROVE  log[i] \in DLines /\ log[i].group \in Nat /\ log[i].group > 0 /\ log[i].state \in LineStates
<1>1. log[i] \in DLines
  BY LenProperties
<1> QED
  BY <1>1, LineFacts

\* A closing line keeps everything but the state.
LEMMA ClosedLine ==
  ASSUME NEW l \in DLines, NEW s \in LineStates, NEW c, c = [l EXCEPT !.state = s]
  PROVE  /\ c \in DLines /\ c.group = l.group /\ c.kind = l.kind /\ c.targets = l.targets
         /\ c.prev = l.prev /\ c.state = s
BY DEF DLines

LEMMA ReadLines ==
  ASSUME NEW log \in Seq(DLines \union {Torn}), Classified(log)
  PROVE  log \in Seq(DLines)
<1>1. DOMAIN log = 1 .. Len(log) /\ Len(log) \in Nat
  BY LenProperties
<1>2. \A i \in DOMAIN log : log[i] \in DLines
  BY <1>1 DEF Classified
<1>3. log = [i \in 1 .. Len(log) |-> log[i]]
  BY <1>1
<1> QED
  BY <1>1, <1>2, <1>3

LEMMA LinesClassified ==
  ASSUME NEW log \in Seq(DLines)
  PROVE  Classified(log) /\ log \in Seq(DLines \union {Torn})
<1>1. DOMAIN log = 1 .. Len(log) /\ Len(log) \in Nat
  BY LenProperties
<1> QED
  BY <1>1, LineFacts DEF Classified

\* Between two lines of a shaped log the groups go up by at most one a line, and
\* a group has its intent and at most one closing line behind it.
Steps(log, i, j) ==
  /\ log[i].group <= log[j].group
  /\ log[i].group = log[j].group => /\ j = i + 1 /\ log[i].state = "intended" /\ log[j].state # "intended"
                                    /\ log[j] = [log[i] EXCEPT !.state = log[j].state]

LEMMA ShapedSteps ==
  ASSUME NEW log \in Seq(DLines), Shaped(log), NEW i \in DOMAIN log, NEW j \in DOMAIN log, i < j
  PROVE  Steps(log, i, j)
<1>1. DOMAIN log = 1 .. Len(log) /\ Len(log) \in Nat /\ i \in Nat /\ j \in Nat
  BY LenProperties
<1> DEFINE Bad == {k \in i + 1 .. j : ~ Steps(log, i, k)}
<1>2. Bad = {}
  <2> SUFFICES ASSUME Bad # {} PROVE FALSE
    OBVIOUS
  <2>1. Bad \in SUBSET Nat
    BY <1>1
  <2>2. PICK k \in Bad : \A y \in Bad : k <= y
    <3> HIDE DEF Bad
    <3> QED
      BY <2>1, Least
  <2>3. k \in i + 1 .. j /\ ~ Steps(log, i, k) /\ k \in DOMAIN log /\ k - 1 \in DOMAIN log
    BY <1>1, <2>2
  <2>4. log[k] \in DLines /\ log[k - 1] \in DLines /\ log[i] \in DLines
    BY <2>3
  <2>5. k - 1 = i \/ Steps(log, i, k - 1)
    <3> SUFFICES ASSUME k - 1 # i, ~ Steps(log, i, k - 1) PROVE FALSE
      OBVIOUS
    <3>1. k - 1 \in i + 1 .. j
      BY <1>1, <2>3
    <3>2. k - 1 \in Bad
      BY <3>1
    <3> QED
      BY <1>1, <2>2, <2>3, <3>2
  <2>6. IF log[k].state = "intended"
        THEN log[k].group = log[k - 1].group + 1
        ELSE /\ log[k - 1].state = "intended"
             /\ log[k] = [log[k - 1] EXCEPT !.state = log[k].state]
    BY <1>1, <2>3 DEF Shaped
  <2>7. /\ log[k].group \in Nat /\ log[k - 1].group \in Nat /\ log[i].group \in Nat
        /\ log[k].state # "intended" => log[k].group = log[k - 1].group
    BY <2>4, <2>6 DEF DLines
  <2>8. CASE k - 1 = i
    <3>1. k = i + 1
      BY <1>1, <2>3, <2>8
    <3> QED
      BY <2>3, <2>6, <2>7, <2>8, <3>1 DEF Steps
  <2>9. CASE Steps(log, i, k - 1) /\ k - 1 # i
    <3>1. log[i].group <= log[k - 1].group
      BY <2>9 DEF Steps
    <3>2. log[k].state # "intended" => log[i].group # log[k - 1].group
      BY <2>6, <2>9 DEF Steps
    <3>3. log[i].group < log[k].group
      <4>1. log[k].state = "intended" => log[k].group = log[k - 1].group + 1
        BY <2>6
      <4> QED
        BY <2>7, <3>1, <3>2, <4>1
    <3> QED
      BY <2>3, <2>7, <3>3 DEF Steps
  <2> QED
    BY <2>5, <2>8, <2>9
<1>3. j \in i + 1 .. j
  BY <1>1
<1> QED
  BY <1>2, <1>3

\* The group of the last line; a log without lines has none.
Top(log) == IF log = <<>> THEN 0 ELSE LastOf(log).group

LEMMA LastLineIn ==
  ASSUME NEW L, NEW log \in Seq(L), log # <<>>
  PROVE  Len(log) \in DOMAIN log /\ LastOf(log) \in L /\ LastOf(log) = log[Len(log)]
<1>1. DOMAIN log = 1 .. Len(log) /\ Len(log) \in Nat /\ Len(log) # 0
  BY LenProperties, EmptySeq
<1> QED
  BY <1>1 DEF LastOf

LEMMA ShapedUpward ==
  ASSUME NEW log \in Seq(DLines), Shaped(log)
  PROVE  Upward(log)
<1>1. DOMAIN log = 1 .. Len(log) /\ Len(log) \in Nat
  BY LenProperties
<1> SUFFICES ASSUME NEW j \in DOMAIN log, \A i \in 1 .. j - 1 : log[i].group # log[j].group,
                    NEW i \in 1 .. j - 1
             PROVE  log[i].group < log[j].group
  BY DEF Upward
<1>2. i \in DOMAIN log /\ i < j /\ log[i].group # log[j].group
  BY <1>1
<1>3. log[i].group <= log[j].group
  BY <1>2, ShapedSteps DEF Steps
<1>4. log[i].group \in Nat /\ log[j].group \in Nat
  BY <1>2, LineIn
<1> QED
  BY <1>2, <1>3, <1>4

LEMMA TopGroup ==
  ASSUME NEW log \in Seq(DLines), Shaped(log)
  PROVE  /\ MaxGroup(log) = Top(log) /\ Top(log) \in Nat
         /\ \A i \in DOMAIN log : log[i].group <= Top(log)
<1>1. DOMAIN log = 1 .. Len(log) /\ Len(log) \in Nat
  BY LenProperties
<1>2. CASE log = <<>>
  BY <1>1, <1>2, EmptySeq DEF MaxGroup, Top
<1>3. CASE log # <<>>
  <2> DEFINE t == LastOf(log).group
             P(g) == \A h \in Groups(log) : h <= g
  <2>1. Len(log) \in DOMAIN log /\ LastOf(log) = log[Len(log)] /\ LastOf(log) \in DLines
    BY <1>3, LastLineIn
  <2>2. t \in Groups(log) /\ t \in Nat
    BY <2>1 DEF Groups, DLines
  <2>3. ASSUME NEW i \in DOMAIN log PROVE log[i].group <= t
    <3>1. CASE i = Len(log)
      BY <2>1, <2>2, <3>1
    <3>2. CASE i # Len(log)
      <4>1. i < Len(log)
        BY <1>1, <3>2
      <4> QED
        BY <2>1, <4>1, ShapedSteps DEF Steps
    <3> QED
      BY <3>1, <3>2
  <2>4. P(t)
    BY <2>3 DEF Groups
  <2>5. \A g \in Groups(log) : g \in Nat
    BY LineIn DEF Groups
  <2>6. \A g \in Groups(log) : P(g) => g = t
    <3> SUFFICES ASSUME NEW g \in Groups(log), P(g) PROVE g = t
      OBVIOUS
    <3>1. t <= g /\ g <= t
      BY <2>2, <2>4
    <3> QED
      BY <2>2, <2>5, <3>1
  <2>7. MaxGroup(log) = CHOOSE g \in Groups(log) : P(g)
    BY <1>3 DEF MaxGroup
  <2>8. MaxGroup(log) = t
    <3> HIDE DEF P, t
    <3> QED
      BY <2>2, <2>4, <2>6, <2>7, Zenon
  <2> QED
    BY <1>3, <2>2, <2>3, <2>8 DEF Top
<1> QED
  BY <1>2, <1>3

LEMMA RunOf ==
  ASSUME NEW log \in Seq(DLines), Shaped(log), NEW i \in DOMAIN log
  PROVE  /\ RunStart(log, i) = IF log[i].state = "intended" THEN i ELSE i - 1
         /\ log[i].state # "intended" => i > 1
<1> DEFINE P(j) == /\ \A k \in j .. i : log[k].group = log[i].group
                   /\ j = 1 \/ log[j - 1].group # log[i].group
           s == IF log[i].state = "intended" THEN i ELSE i - 1
<1>1. DOMAIN log = 1 .. Len(log) /\ Len(log) \in Nat /\ i \in Nat /\ i >= 1
  BY LenProperties
<1>2. log[i].state # "intended" => /\ i > 1 /\ log[i - 1].state = "intended"
                                   /\ log[i - 1].group = log[i].group
  <2>1. SUFFICES ASSUME log[i].state # "intended"
        PROVE /\ i > 1 /\ log[i - 1].state = "intended" /\ log[i - 1].group = log[i].group
    OBVIOUS
  <2>2. /\ i > 1 /\ log[i - 1].state = "intended"
        /\ log[i] = [log[i - 1] EXCEPT !.state = log[i].state]
    BY <2>1 DEF Shaped
  <2>3. log[i - 1] \in DLines
    BY <1>1, <2>2
  <2> QED
    BY <2>2, <2>3 DEF DLines
<1>3. \A j \in 1 .. i - 1 : log[j].group = log[i].group => j = i - 1 /\ log[i].state # "intended"
  <2> TAKE j \in 1 .. i - 1
  <2>1. j \in DOMAIN log /\ j < i
    BY <1>1
  <2>2. log[j].group = log[i].group => i = j + 1 /\ log[i].state # "intended"
    BY <2>1, ShapedSteps DEF Steps
  <2> QED
    BY <1>1, <2>1, <2>2
<1>4. s \in 1 .. i /\ P(s)
  <2>1. CASE log[i].state = "intended"
    <3>1. s = i
      BY <2>1
    <3>2. \A k \in i .. i : k = i
      BY <1>1
    <3>3. i = 1 \/ log[i - 1].group # log[i].group
      BY <1>1, <1>3, <2>1
    <3> QED
      BY <1>1, <3>1, <3>2, <3>3
  <2>2. CASE log[i].state # "intended"
    <3>1. s = i - 1
      BY <2>2
    <3>2. \A k \in i - 1 .. i : k = i \/ k = i - 1
      BY <1>1
    <3>3. i - 1 = 1 \/ log[i - 1 - 1].group # log[i].group
      <4> SUFFICES ASSUME i - 1 # 1, log[i - 1 - 1].group = log[i].group PROVE FALSE
        OBVIOUS
      <4>1. i - 1 - 1 \in 1 .. i - 1
        BY <1>1, <1>2, <2>2
      <4>2. i - 1 - 1 = i - 1
        BY <1>3, <4>1
      <4> QED
        BY <1>1, <4>2
    <3> QED
      BY <1>1, <1>2, <2>2, <3>1, <3>2, <3>3
  <2> QED
    BY <2>1, <2>2
<1>5. \A j \in 1 .. i : P(j) => j = s
  <2> SUFFICES ASSUME NEW j \in 1 .. i, P(j) PROVE j = s
    OBVIOUS
  <2>1. log[j].group = log[i].group
    BY <1>1
  <2>2. CASE j = i
    <3>1. log[i].state = "intended"
      BY <1>1, <1>2, <2>2
    <3> QED
      BY <2>2, <3>1
  <2>3. CASE j # i
    <3>1. j \in 1 .. i - 1
      BY <1>1, <2>3
    <3> QED
      BY <1>3, <2>1, <3>1
  <2> QED
    BY <2>2, <2>3
<1>6. RunStart(log, i) = CHOOSE j \in 1 .. i : P(j)
  BY DEF RunStart
<1>7. RunStart(log, i) = s
  <2> HIDE DEF P, s
  <2> QED
    BY <1>4, <1>5, <1>6, Zenon
<1> QED
  BY <1>2, <1>7

LEMMA ShapedChain ==
  ASSUME NEW log \in Seq(DLines), Shaped(log)
  PROVE  ChainHolds(log)
<1>1. DOMAIN log = 1 .. Len(log) /\ Len(log) \in Nat
  BY LenProperties
<1> SUFFICES ASSUME NEW i \in DOMAIN log, NEW j, j = RunStart(log, i), j > 1
             PROVE  log[i].prev = LineDigest(log[j - 1])
  BY DEF ChainHolds
<1>2. CASE log[i].state = "intended"
  <2>1. j = i
    BY <1>2, RunOf
  <2> QED
    BY <1>2, <2>1 DEF Shaped
<1>3. CASE log[i].state # "intended"
  <2>1. j = i - 1 /\ i > 1
    BY <1>3, RunOf
  <2>2. j \in DOMAIN log
    BY <1>1, <2>1
  <2>3. log[j].state = "intended" /\ log[i] = [log[j] EXCEPT !.state = log[i].state]
    BY <1>3, <2>1 DEF Shaped
  <2>4. log[j].prev = LineDigest(log[j - 1])
    BY <2>2, <2>3 DEF Shaped
  <2>5. log[i].prev = log[j].prev
    BY <2>2, <2>3, LineIn, ClosedLine
  <2> QED
    BY <2>4, <2>5
<1> QED
  BY <1>2, <1>3

LEMMA ShapedContinuous ==
  ASSUME NEW log \in Seq(DLines), Shaped(log)
  PROVE  Continuous(log)
<1>1. DOMAIN log = 1 .. Len(log) /\ Len(log) \in Nat
  BY LenProperties
<1> SUFFICES ASSUME NEW g \in Groups(log), g # MaxGroup(log)
             PROVE  g + 1 \in Groups(log)
  BY DEF Continuous
<1>2. PICK i \in DOMAIN log : log[i].group = g /\ IsLast(log, i)
  BY LastLine
<1>3. i # Len(log)
  <2> SUFFICES ASSUME i = Len(log) PROVE FALSE
    OBVIOUS
  <2>1. log # <<>>
    BY <1>1
  <2>2. MaxGroup(log) = log[Len(log)].group
    BY <2>1, TopGroup DEF Top, LastOf
  <2> QED
    BY <1>2, <2>2
<1>4. i + 1 \in DOMAIN log /\ i + 1 > i /\ i + 1 - 1 = i /\ i + 1 > 1
  BY <1>1, <1>3
<1>5. log[i + 1].group # log[i].group
  BY <1>2, <1>4 DEF IsLast
<1>6. log[i + 1].state = "intended"
  <2> SUFFICES ASSUME log[i + 1].state # "intended" PROVE FALSE
    OBVIOUS
  <2>1. log[i + 1] = [log[i + 1 - 1] EXCEPT !.state = log[i + 1].state]
    BY <1>4 DEF Shaped
  <2>2. log[i + 1].group = log[i].group
    BY <1>4, <2>1, LineIn, ClosedLine
  <2> QED
    BY <1>5, <2>2
<1>7. log[i + 1].group = g + 1
  BY <1>2, <1>4, <1>6 DEF Shaped
<1> QED
  BY <1>4, <1>7 DEF Groups

\* Group g: its intent at place i and perhaps a closing line behind it.
Closed(log, g, i) ==
  /\ i + 1 \in DOMAIN log /\ log[i + 1].state \in {"completed", "aborted"}
  /\ log[i + 1].group = g /\ log[i + 1].kind = log[i].kind /\ log[i + 1].targets = log[i].targets
  /\ LinesOf(log, g) = <<log[i], log[i + 1]>>
GroupAt(log, g, i) ==
  /\ i \in DOMAIN log /\ log[i].group = g /\ log[i].state = "intended"
  /\ \/ /\ LinesOf(log, g) = <<log[i]>>
        /\ \A j \in DOMAIN log : log[j].group = g => j = i
     \/ /\ Closed(log, g, i)
        /\ \A j \in DOMAIN log : log[j].group = g => j \in {i, i + 1}

LEMMA GroupLines ==
  ASSUME NEW log \in Seq(DLines), Shaped(log), NEW g \in Groups(log)
  PROVE  \E i \in DOMAIN log : GroupAt(log, g, i)
<1>1. DOMAIN log = 1 .. Len(log) /\ Len(log) \in Nat
  BY LenProperties
<1> DEFINE i == FirstAt(log, g)
           S == {k \in DOMAIN log : log[k].group = g}
<1>2. i \in DOMAIN log /\ log[i].group = g /\ \A j \in 1 .. i - 1 : log[j].group # g
  BY FirstLine
<1>3. log[i].state = "intended"
  <2> SUFFICES ASSUME log[i].state # "intended" PROVE FALSE
    OBVIOUS
  <2>1. i > 1 /\ log[i] = [log[i - 1] EXCEPT !.state = log[i].state]
    BY <1>2 DEF Shaped
  <2>2. i - 1 \in DOMAIN log /\ i - 1 \in 1 .. i - 1
    BY <1>1, <1>2, <2>1
  <2>3. log[i - 1].group = log[i].group
    BY <1>2, <2>1, <2>2, LineIn, ClosedLine
  <2> QED
    BY <1>2, <2>2, <2>3
<1> HIDE DEF i
<1>4. \A j \in DOMAIN log : log[j].group = g => j = i \/ (j = i + 1 /\ Steps(log, i, j))
  <2> SUFFICES ASSUME NEW j \in DOMAIN log, log[j].group = g, j # i
               PROVE  j = i + 1 /\ Steps(log, i, j)
    OBVIOUS
  <2>1. i < j
    BY <1>1, <1>2
  <2>2. Steps(log, i, j)
    BY <1>2, <2>1, ShapedSteps
  <2> QED
    BY <1>2, <2>2 DEF Steps
<1>5. LinesOf(log, g) = LinesAt(log, S)
  BY DEF LinesOf
<1>6. CASE i + 1 \in DOMAIN log /\ log[i + 1].group = g
  <2> DEFINE k == i - 1
             m == i + 1
  <2>1. k \in Nat /\ m \in Nat /\ k <= m /\ m - k = 2 /\ k + 1 = i /\ k + 2 = i + 1
    BY <1>1, <1>2
  <2>2. S = k + 1 .. m
    BY <1>1, <1>2, <1>4, <1>6
  <2>3. LinesAt(log, k + 1 .. m) = [n \in 1 .. m - k |-> log[k + n]]
    <3> HIDE DEF k, m, S
    <3>1. k \in Nat /\ m \in Nat /\ k <= m
      BY <2>1
    <3>2. \A a, b \in Nat : a <= b => LinesAt(log, a + 1 .. b) = [n \in 1 .. b - a |-> log[a + n]]
      BY LinesAtSuffix, Zenon
    <3> QED
      BY <3>1, <3>2, Zenon
  <2>4. LinesOf(log, g) = <<log[i], log[i + 1]>>
    <3>1. LinesOf(log, g) = [n \in 1 .. 2 |-> log[k + n]]
      <4> HIDE DEF k, m, S
      <4> QED
        BY <1>5, <2>1, <2>2, <2>3
    <3> QED
      BY <2>1, <3>1
  <2>5. Steps(log, i, i + 1)
    BY <1>1, <1>2, <1>4, <1>6
  <2>6. log[i + 1].state # "intended" /\ log[i + 1] = [log[i] EXCEPT !.state = log[i + 1].state]
    BY <1>2, <1>6, <2>5 DEF Steps
  <2>7. log[i + 1].state \in {"completed", "aborted"}
    BY <1>6, <2>6, LineIn DEF LineStates
  <2>8. log[i + 1].kind = log[i].kind /\ log[i + 1].targets = log[i].targets
    BY <1>2, <1>6, <2>6, LineIn, ClosedLine
  <2>9. Closed(log, g, i)
    BY <1>6, <2>4, <2>7, <2>8 DEF Closed
  <2> QED
    BY <1>2, <1>3, <1>4, <2>9 DEF GroupAt
<1>7. CASE ~ (i + 1 \in DOMAIN log /\ log[i + 1].group = g)
  <2> DEFINE k == i - 1
             m == i
  <2>1. k \in Nat /\ m \in Nat /\ k <= m /\ m - k = 1 /\ k + 1 = i
    BY <1>1, <1>2
  <2>2. S = k + 1 .. m
    BY <1>1, <1>2, <1>4, <1>7
  <2>3. LinesAt(log, k + 1 .. m) = [n \in 1 .. m - k |-> log[k + n]]
    <3> HIDE DEF k, m, S
    <3>1. k \in Nat /\ m \in Nat /\ k <= m
      BY <2>1
    <3>2. \A a, b \in Nat : a <= b => LinesAt(log, a + 1 .. b) = [n \in 1 .. b - a |-> log[a + n]]
      BY LinesAtSuffix, Zenon
    <3> QED
      BY <3>1, <3>2, Zenon
  <2>4. LinesOf(log, g) = <<log[i]>>
    <3>1. LinesOf(log, g) = [n \in 1 .. 1 |-> log[k + n]]
      <4> HIDE DEF k, m, S
      <4> QED
        BY <1>5, <2>1, <2>2, <2>3
    <3> QED
      BY <2>1, <3>1
  <2>5. \A j \in DOMAIN log : log[j].group = g => j = i
    BY <1>4, <1>7
  <2> QED
    BY <1>2, <1>3, <2>4, <2>5 DEF GroupAt
<1> QED
  BY <1>6, <1>7

\* What a reader makes of a group.
Reads(log, g, i) ==
  /\ ~ GroupConflict(log, g)
  /\ LinesOf(log, g)[1] = log[i]
  /\ GroupState(log, g) = "completed" => Closed(log, g, i) /\ log[i + 1].state = "completed"
  /\ GroupState(log, g) # "completed" => \A j \in DOMAIN log : log[j].group = g => log[j].state # "completed"

LEMMA GroupReads ==
  ASSUME NEW log \in Seq(DLines), NEW g, NEW i, GroupAt(log, g, i)
  PROVE  Reads(log, g, i)
<1> DEFINE ls == LinesOf(log, g)
<1>1. CASE LinesOf(log, g) = <<log[i]>> /\ \A j \in DOMAIN log : log[j].group = g => j = i
  <2>1. Len(ls) = 1 /\ ls[1] = log[i] /\ log[i].state = "intended"
    BY <1>1 DEF GroupAt
  <2>2. ~ GroupConflict(log, g) /\ GroupState(log, g) = "intended"
    BY <2>1 DEF GroupConflict, GroupState
  <2> QED
    BY <1>1, <2>1, <2>2 DEF Reads
<1>2. CASE Closed(log, g, i) /\ \A j \in DOMAIN log : log[j].group = g => j \in {i, i + 1}
  <2>1. /\ Len(ls) = 2 /\ ls[1] = log[i] /\ ls[2] = log[i + 1] /\ log[i].state = "intended"
        /\ ls[2].state \in {"completed", "aborted"} /\ ls[2].targets = ls[1].targets
    BY <1>2 DEF GroupAt, Closed
  <2>2. ~ GroupConflict(log, g)
    BY <2>1 DEF GroupConflict
  <2>3. GroupState(log, g) = log[i + 1].state
    BY <2>1, <2>2 DEF GroupState
  <2> QED
    BY <1>2, <2>1, <2>2, <2>3 DEF Reads
<1> QED
  BY <1>1, <1>2 DEF GroupAt

-----------------------------------------------------------------------------
(* The writes of the destruction log, seen as changes of its set of lines. *)

Lines(log) == {log[i] : i \in DOMAIN log}

\* new is log with the line l at its end.
Longer(log, l, new) ==
  /\ DOMAIN new = 1 .. Len(log) + 1 /\ Len(new) = Len(log) + 1 /\ new # <<>>
  /\ new[Len(log) + 1] = l /\ \A i \in DOMAIN log : new[i] = log[i]
  /\ Lines(new) = Lines(log) \union {l} /\ LastOf(new) = l
  /\ Groups(new) = Groups(log) \union {l.group}

\* l opens a group, or closes the group g that o opened.
Intent(log, l, kind, T) ==
  /\ l \in DLines /\ l.group = Top(log) + 1 /\ l.kind = kind /\ l.targets = T /\ l.state = "intended"
Closing(log, o, l, g, s) ==
  /\ o \in DLines /\ o \in Lines(log) /\ o.group = g
  /\ l \in DLines /\ l.group = g /\ l.kind = o.kind /\ l.targets = o.targets /\ l.state = s

LEMMA AppendedLog ==
  ASSUME NEW L, NEW log \in Seq(L), NEW l, NEW new, new = Append(log, l)
  PROVE  Longer(log, l, new)
<1>1. DOMAIN log = 1 .. Len(log) /\ Len(log) \in Nat
  BY LenProperties
<1>2. log \in Seq(L \union {l}) /\ l \in L \union {l}
  BY <1>1
<1>3. /\ Len(new) = Len(log) + 1 /\ new # <<>> /\ new \in Seq(L \union {l})
      /\ new[Len(log) + 1] = l /\ \A i \in 1 .. Len(log) : new[i] = log[i]
  BY <1>2, AppendProperties
<1>4. DOMAIN new = 1 .. Len(log) + 1
  BY <1>3, LenProperties
<1>5. new[Len(log) + 1] = l /\ \A i \in DOMAIN log : new[i] = log[i]
  BY <1>1, <1>3
<1>6. \A i \in DOMAIN new : i \in DOMAIN log \/ i = Len(log) + 1
  BY <1>1, <1>4
<1>7. \A i \in DOMAIN log : i \in DOMAIN new
  BY <1>1, <1>4
<1>8. Len(log) + 1 \in DOMAIN new
  BY <1>1, <1>4
<1>9. Lines(new) = Lines(log) \union {l}
  BY <1>5, <1>6, <1>7, <1>8 DEF Lines
<1>10. Groups(new) = Groups(log) \union {l.group}
  BY <1>5, <1>6, <1>7, <1>8 DEF Groups
<1> QED
  BY <1>3, <1>4, <1>5, <1>9, <1>10 DEF LastOf, Longer

LEMMA IntentShaped ==
  ASSUME NEW log \in Seq(DLines), Shaped(log), NEW kind \in Kinds, NEW T \in SUBSET (Refs \union Nat),
         NEW l, l = IntentLine(log, kind, T), NEW new, new = Append(log, l)
  PROVE  Intent(log, l, kind, T) /\ new \in Seq(DLines) /\ Shaped(new)
<1>1. DOMAIN log = 1 .. Len(log) /\ Len(log) \in Nat
  BY LenProperties
<1>2. MaxGroup(log) = Top(log) /\ Top(log) \in Nat
  BY TopGroup
<1>3. TailDigest(log) \in Digests
  <2>1. CASE log = <<>>
    BY <2>1 DEF TailDigest, Digests, Origin
  <2>2. CASE log # <<>>
    <3>1. LastOf(log) \in DLines
      BY <2>2, LastLineIn
    <3> QED
      BY <2>2, <3>1 DEF TailDigest, Digests, LineDigest, DLines, LastOf
  <2> QED
    BY <2>1, <2>2
<1>4. /\ l.group = Top(log) + 1 /\ l.kind = kind /\ l.targets = T /\ l.state = "intended"
      /\ l.prev = TailDigest(log)
  BY <1>2 DEF IntentLine
<1>5. l \in DLines
  <2>1. Top(log) + 1 \in Nat \ {0}
    BY <1>2
  <2> QED
    BY <1>2, <1>3, <2>1 DEF IntentLine, DLines, LineStates
<1>6. new \in Seq(DLines)
  BY <1>5, AppendProperties
<1>7. Shaped(new)
  <2>1. DOMAIN new = 1 .. Len(log) + 1 /\ new[Len(log) + 1] = l /\ \A i \in DOMAIN log : new[i] = log[i]
    BY AppendedLog DEF Longer
  <2> SUFFICES ASSUME NEW i \in DOMAIN new
               PROVE  IF new[i].state = "intended"
                      THEN i > 1 => new[i].group = new[i - 1].group + 1 /\ new[i].prev = LineDigest(new[i - 1])
                      ELSE /\ i > 1 /\ new[i - 1].state = "intended"
                           /\ new[i] = [new[i - 1] EXCEPT !.state = new[i].state]
    BY DEF Shaped
  <2>2. CASE i \in DOMAIN log
    <3>1. new[i] = log[i] /\ (i > 1 => new[i - 1] = log[i - 1])
      BY <1>1, <2>1, <2>2
    <3> QED
      BY <2>2, <3>1 DEF Shaped
  <2>3. CASE i = Len(log) + 1
    <3>1. i > 1 => /\ log # <<>> /\ i - 1 = Len(log) /\ new[i - 1] = LastOf(log)
      <4>1. SUFFICES ASSUME i > 1 PROVE log # <<>> /\ i - 1 = Len(log) /\ new[i - 1] = LastOf(log)
        OBVIOUS
      <4>2. i - 1 = Len(log) /\ i - 1 \in DOMAIN log
        BY <1>1, <2>3, <4>1
      <4> QED
        BY <1>1, <2>1, <4>2, EmptySeq DEF LastOf
    <3>2. i > 1 => Top(log) = LastOf(log).group /\ TailDigest(log) = LineDigest(LastOf(log))
      BY <3>1 DEF Top, TailDigest, LastOf
    <3> QED
      BY <1>4, <2>1, <2>3, <3>1, <3>2
  <2> QED
    BY <1>1, <2>1, <2>2, <2>3
<1> QED
  BY <1>4, <1>5, <1>6, <1>7 DEF Intent

\* A group that may be closed is the intent at the end of the log.
LEMMA TailIntent ==
  ASSUME NEW log \in Seq(DLines), Shaped(log), NEW g, Closable(log, g)
  PROVE  /\ log # <<>> /\ LastOf(log).group = g /\ LastOf(log).state = "intended"
         /\ LinesOf(log, g)[1] = LastOf(log) /\ LastOf(log) \in Lines(log)
<1>1. DOMAIN log = 1 .. Len(log) /\ Len(log) \in Nat
  BY LenProperties
<1>2. Len(LinesOf(log, g)) = 1 /\ TailDigest(log) = LineDigest(LinesOf(log, g)[1])
  BY DEF Closable
<1>3. g \in Groups(log)
  <2> SUFFICES ASSUME g \notin Groups(log) PROVE FALSE
    OBVIOUS
  <2>1. {i \in DOMAIN log : log[i].group = g} = {}
    BY DEF Groups
  <2>2. Cardinality({}) = 0
    BY FS_EmptySet
  <2>3. LinesOf(log, g) = [n \in 1 .. 0 |-> log[Place({}, n)]]
    BY <2>1, <2>2 DEF LinesOf, LinesAt
  <2>4. Len(LinesOf(log, g)) = 0
    BY <2>3
  <2> QED
    BY <1>2, <2>4
<1>4. PICK i \in DOMAIN log : GroupAt(log, g, i)
  BY <1>3, GroupLines
<1>5. LinesOf(log, g) = <<log[i]>> /\ (\A j \in DOMAIN log : log[j].group = g => j = i)
  <2> SUFFICES ASSUME Closed(log, g, i) PROVE FALSE
    BY <1>4 DEF GroupAt
  <2> DEFINE len == Len(LinesOf(log, g))
  <2>1. len = 2
    BY DEF Closed
  <2>2. len = 1
    BY <1>2
  <2> HIDE DEF len
  <2> QED
    BY <2>1, <2>2
<1>6. log # <<>>
  BY <1>1, EmptySeq
<1>7. Len(log) \in DOMAIN log /\ LastOf(log) = log[Len(log)]
  BY <1>6, LastLineIn
<1>8. <<LastOf(log).group, LastOf(log).state>> = <<log[i].group, log[i].state>>
  BY <1>2, <1>5, <1>6 DEF TailDigest, LineDigest, LastOf
<1>9. LastOf(log).group = g /\ LastOf(log).state = "intended"
  BY <1>4, <1>8 DEF GroupAt
<1>10. Len(log) = i
  BY <1>5, <1>7, <1>9
<1> QED
  BY <1>5, <1>6, <1>7, <1>9, <1>10 DEF Lines

LEMMA ClosingShaped ==
  ASSUME NEW log \in Seq(DLines), Shaped(log), NEW g, Closable(log, g),
         NEW s \in {"completed", "aborted"},
         NEW l, l = ClosingLine(log, g, s), NEW new, new = Append(log, l)
  PROVE  /\ Closing(log, LastOf(log), l, g, s) /\ new \in Seq(DLines) /\ Shaped(new)
         /\ log # <<>>
<1>1. DOMAIN log = 1 .. Len(log) /\ Len(log) \in Nat
  BY LenProperties
<1>2. /\ log # <<>> /\ LastOf(log).group = g /\ LastOf(log).state = "intended"
      /\ LinesOf(log, g)[1] = LastOf(log) /\ LastOf(log) \in Lines(log)
  BY TailIntent
<1>3. LastOf(log) \in DLines /\ Len(log) \in DOMAIN log /\ LastOf(log) = log[Len(log)]
  BY <1>2, LastLineIn
<1>4. l = [LastOf(log) EXCEPT !.state = s] /\ s \in LineStates
  BY <1>2 DEF ClosingLine, LineStates
<1>5. /\ l \in DLines /\ l.group = LastOf(log).group /\ l.kind = LastOf(log).kind
      /\ l.targets = LastOf(log).targets /\ l.state = s
  BY <1>3, <1>4, ClosedLine
<1>6. new \in Seq(DLines)
  BY <1>5, AppendProperties
<1>7. Shaped(new)
  <2>1. DOMAIN new = 1 .. Len(log) + 1 /\ new[Len(log) + 1] = l /\ \A i \in DOMAIN log : new[i] = log[i]
    BY AppendedLog DEF Longer
  <2> SUFFICES ASSUME NEW i \in DOMAIN new
               PROVE  IF new[i].state = "intended"
                      THEN i > 1 => new[i].group = new[i - 1].group + 1 /\ new[i].prev = LineDigest(new[i - 1])
                      ELSE /\ i > 1 /\ new[i - 1].state = "intended"
                           /\ new[i] = [new[i - 1] EXCEPT !.state = new[i].state]
    BY DEF Shaped
  <2>2. CASE i \in DOMAIN log
    <3>1. new[i] = log[i] /\ (i > 1 => new[i - 1] = log[i - 1])
      BY <1>1, <2>1, <2>2
    <3> QED
      BY <2>2, <3>1 DEF Shaped
  <2>3. CASE i = Len(log) + 1
    <3>1. i > 1 /\ i - 1 = Len(log)
      BY <1>1, <1>3, <2>3
    <3>2. new[i - 1] = LastOf(log) /\ new[i] = l
      BY <1>3, <2>1, <2>3, <3>1
    <3> QED
      BY <1>2, <1>4, <1>5, <3>1, <3>2
  <2> QED
    BY <1>1, <2>1, <2>2, <2>3
<1> QED
  BY <1>2, <1>3, <1>5, <1>6, <1>7 DEF Closing

LEMMA CompactedShaped ==
  ASSUME NEW log \in Seq(DLines), Shaped(log), log # <<>>, NEW D, D \subseteq Groups(log),
         DropsLowest(log, D), NEW new, new = WithoutGroups(log, D)
  PROVE  /\ new \in Seq(DLines) /\ Shaped(new) /\ new # <<>> /\ LastOf(new) = LastOf(log)
         /\ Lines(new) \subseteq Lines(log)
         /\ (\E g \in Groups(new) : g <= 1) => Lines(new) = Lines(log)
<1>1. DOMAIN log = 1 .. Len(log) /\ Len(log) \in Nat
  BY LenProperties
<1> DEFINE K == {i \in DOMAIN log : log[i].group \notin D}
<1>2. PICK f \in K : \A y \in K : f <= y
  <2>1. K # {}
    BY DEF DropsLowest, Groups
  <2>2. K \in SUBSET Nat
    BY <1>1
  <2> HIDE DEF K
  <2> QED
    BY <2>1, <2>2, Least
<1>3. f \in DOMAIN log /\ f \in Nat /\ f >= 1 /\ f <= Len(log) /\ log[f].group \notin D
  BY <1>1, <1>2
<1>4. \A i \in DOMAIN log : i < f => log[i].group \in D
  BY <1>1, <1>2
<1>5. \A i \in DOMAIN log : i >= f => log[i].group \notin D
  <2> SUFFICES ASSUME NEW i \in DOMAIN log, i >= f, log[i].group \in D PROVE FALSE
    OBVIOUS
  <2>1. i > f
    BY <1>1, <1>3
  <2>2. log[f].group <= log[i].group
    BY <1>3, <2>1, ShapedSteps DEF Steps
  <2>3. log[i].group < log[f].group
    BY <1>3 DEF DropsLowest, Groups
  <2>4. log[i].group \in Nat /\ log[f].group \in Nat
    BY <1>3, LineIn
  <2> QED
    BY <2>2, <2>3, <2>4
<1> DEFINE k == f - 1
           m == Len(log)
<1>6. k \in Nat /\ m \in Nat /\ k <= m /\ m - k \in Nat /\ m - k >= 1 /\ k + 1 = f
  BY <1>1, <1>3
<1>7. K = k + 1 .. m
  BY <1>1, <1>3, <1>4, <1>5
<1>8. new = [n \in 1 .. m - k |-> log[k + n]]
  <2> HIDE DEF k, m
  <2>1. new = LinesAt(log, k + 1 .. m)
    BY <1>7 DEF WithoutGroups
  <2> QED
    BY <1>6, <2>1, LinesAtSuffix
<1>9. \A n \in 1 .. m - k : k + n \in DOMAIN log
  BY <1>1, <1>6
<1> HIDE DEF k, m, K
<1>10. new \in Seq(DLines)
  <2>1. \A n \in 1 .. m - k : log[k + n] \in DLines
    BY <1>9, LineIn
  <2> QED
    BY <1>6, <1>8, <2>1
<1>11. Len(new) = m - k /\ DOMAIN new = 1 .. m - k /\ new # <<>>
  <2>1. DOMAIN new = 1 .. m - k
    BY <1>8
  <2>2. DOMAIN new = 1 .. Len(new) /\ Len(new) \in Nat
    BY <1>10, LenProperties
  <2>3. Len(new) = m - k
    BY <1>6, <1>8
  <2> QED
    BY <1>6, <1>10, <2>1, <2>3, EmptySeq
<1>12. LastOf(new) = LastOf(log)
  <2>1. new[m - k] = log[k + (m - k)] /\ k + (m - k) = m
    BY <1>6, <1>8
  <2> QED
    BY <1>11, <2>1 DEF LastOf, m
<1>13. Lines(new) \subseteq Lines(log)
  BY <1>8, <1>9, <1>11 DEF Lines
<1>14. log[f].state = "intended"
  <2> SUFFICES ASSUME log[f].state # "intended" PROVE FALSE
    OBVIOUS
  <2>1. f > 1 /\ log[f] = [log[f - 1] EXCEPT !.state = log[f].state]
    BY <1>3 DEF Shaped
  <2>2. f - 1 \in DOMAIN log /\ f - 1 < f
    BY <1>1, <1>3, <2>1
  <2>3. log[f - 1].group = log[f].group
    BY <1>3, <2>1, <2>2, LineIn, ClosedLine
  <2> QED
    BY <1>3, <1>4, <2>2, <2>3
<1>15. Shaped(new)
  <2> SUFFICES ASSUME NEW i \in DOMAIN new
               PROVE  IF new[i].state = "intended"
                      THEN i > 1 => new[i].group = new[i - 1].group + 1 /\ new[i].prev = LineDigest(new[i - 1])
                      ELSE /\ i > 1 /\ new[i - 1].state = "intended"
                           /\ new[i] = [new[i - 1] EXCEPT !.state = new[i].state]
    BY DEF Shaped
  <2> DEFINE j == k + i
  <2>1. i \in 1 .. m - k
    BY <1>11
  <2>2. j \in DOMAIN log /\ new[i] = log[j] /\ i \in Nat
    BY <1>8, <1>9, <2>1
  <2>3. CASE i = 1
    <3>1. j = f
      BY <1>6, <2>3
    <3> QED
      BY <1>14, <2>2, <2>3, <3>1
  <2>4. CASE i # 1
    <3>1. i > 1 /\ i - 1 \in 1 .. m - k /\ j - 1 = k + (i - 1) /\ j > 1
      BY <1>6, <2>1, <2>4
    <3>2. new[i - 1] = log[j - 1]
      BY <1>8, <3>1
    <3> HIDE DEF j
    <3> QED
      BY <2>2, <3>1, <3>2 DEF Shaped
  <2> QED
    BY <2>3, <2>4
<1>16. ASSUME NEW g \in Groups(new), g <= 1
       PROVE  Lines(new) = Lines(log)
  <2>1. PICK i \in DOMAIN new : new[i].group = g
    BY DEF Groups
  <2>2. i \in 1 .. m - k
    BY <1>11, <2>1
  <2>3. new[i] = log[k + i] /\ k + i \in DOMAIN log /\ k + i >= f
    BY <1>6, <1>8, <1>9, <2>2
  <2>4. log[k + i].group = g /\ log[k + i].group > 0 /\ log[k + i].group \in Nat /\ log[k + i].group \notin D
    BY <1>5, <2>1, <2>3, LineIn
  <2>5. D = {}
    <3> SUFFICES ASSUME NEW d \in D PROVE FALSE
      OBVIOUS
    <3>1. d < g
      BY <2>3, <2>4 DEF DropsLowest, Groups
    <3>2. PICK e \in DOMAIN log : log[e].group = d
      BY DEF Groups
    <3>3. d \in Nat /\ d > 0
      BY <3>2, LineIn
    <3> QED
      BY <1>16, <2>4, <3>1, <3>3
  <2>6. f = 1
    <3>1. 1 \in DOMAIN log
      BY <1>1, <1>3
    <3> QED
      BY <1>3, <1>4, <2>5, <3>1
  <2>7. k = 0
    BY <1>6, <2>6
  <2>8. new = log
    <3>1. new = [n \in 1 .. Len(log) |-> log[n]]
      BY <1>1, <1>8, <2>7 DEF m
    <3> QED
      BY <1>1, <3>1
  <2> QED
    BY <2>8
<1> QED
  BY <1>10, <1>11, <1>12, <1>13, <1>15, <1>16

\* The log records everything since the first group.
FullLog(log) == Classified(log) /\ (log = <<>> \/ \E g \in Groups(log) : g <= 1)

Selves == [by : {NoOne, "tick", "other"}, stage : {"none", "intent", "rewrite", "close"}, gone : SUBSET Nat]

\* What is known of the log while its own compaction is under way.
SelfOK(log, s) ==
  /\ s \in Selves
  /\ s.stage # "none" => Classified(log) /\ log # <<>>
  /\ s.stage \in {"intent", "rewrite"} => s.gone \subseteq Groups(log) /\ DropsLowest(log, s.gone)
  /\ s.stage \in {"rewrite", "close"} => LastOf(log).kind = "self_compaction"
LogOK(log) == log \in Seq(DLines \union {Torn}) /\ (Classified(log) => Shaped(log))
LogInv == LogOK(dlog) /\ SelfOK(dlog, self)

\* A log that can still be read has grown by at most the lines A; one that is
\* complete as well has lost nothing.
Logged(log, new, A) ==
  /\ Classified(new) => /\ Classified(log) /\ Lines(new) \subseteq Lines(log) \union A
                        /\ Top(new) >= Top(log)
  /\ FullLog(new) => FullLog(log) /\ Lines(new) = Lines(log) \union A

LEMMA ReadableLog ==
  ASSUME NEW log, LogOK(log), Classified(log)
  PROVE  log \in Seq(DLines) /\ Shaped(log) /\ Top(log) \in Nat /\ MaxGroup(log) = Top(log)
<1>1. log \in Seq(DLines) /\ Shaped(log)
  BY ReadLines DEF LogOK
<1> QED
  BY <1>1, TopGroup

LEMMA ShapedLogOK ==
  ASSUME NEW log \in Seq(DLines), Shaped(log)
  PROVE  LogOK(log) /\ Classified(log)
BY LinesClassified DEF LogOK

\* The log stays as it is.
LEMMA StayLogged ==
  ASSUME LogOK(dlog), UNCHANGED dlog
  PROVE  LogOK(dlog') /\ Logged(dlog, dlog', {})
<1>1. LogOK(dlog')
  BY DEF LogOK
<1>2. Classified(dlog) => Top(dlog) >= Top(dlog)
  BY ReadableLog
<1>3. Classified(dlog') = Classified(dlog) /\ Top(dlog') = Top(dlog) /\ Lines(dlog') = Lines(dlog)
      /\ FullLog(dlog') = FullLog(dlog)
  OBVIOUS
<1> HIDE DEF Classified, Top, Lines, FullLog
<1> QED
  BY <1>1, <1>2, <1>3 DEF Logged

LEMMA GrownLogged ==
  ASSUME NEW log \in Seq(DLines), Shaped(log), NEW l \in DLines, NEW new, new = Append(log, l),
         l.group = Top(log) + 1 \/ (log # <<>> /\ l.group = Top(log))
  PROVE  Logged(log, new, {l}) /\ Top(new) = l.group
<1>1. /\ new # <<>> /\ Lines(new) = Lines(log) \union {l} /\ LastOf(new) = l
      /\ Groups(new) = Groups(log) \union {l.group}
  <2>1. Longer(log, l, new)
    BY AppendedLog
  <2> QED
    BY <2>1 DEF Longer
<1>2. Top(new) = l.group
  BY <1>1 DEF Top
<1>3. Top(log) \in Nat /\ Classified(log)
  BY TopGroup, LinesClassified
<1>4. Top(new) >= Top(log)
  BY <1>2, <1>3
<1>5. ASSUME FullLog(new) PROVE FullLog(log)
  <2> SUFFICES ASSUME log # <<>> PROVE \E g \in Groups(log) : g <= 1
    BY <1>3 DEF FullLog
  <2>1. PICK g \in Groups(new) : g <= 1
    BY <1>1, <1>5 DEF FullLog
  <2>2. Top(log) = LastOf(log).group /\ Len(log) \in DOMAIN log /\ LastOf(log) = log[Len(log)]
    BY LastLineIn DEF Top
  <2>3. Top(log) \in Groups(log) /\ Top(log) > 0
    BY <2>2, LineIn DEF Groups
  <2>4. g \in Groups(log) \/ g = Top(log)
    BY <1>1, <1>3, <2>1, <2>3
  <2> QED
    BY <2>1, <2>3, <2>4
<1> QED
  BY <1>1, <1>2, <1>3, <1>4, <1>5 DEF Logged

LEMMA BeginLogged ==
  ASSUME LogInv, NEW kind \in Kinds, NEW T \in SUBSET (Refs \union Nat), BeginDestruction(kind, T),
         NEW l, l = IntentLine(dlog, kind, T)
  PROVE  /\ LogInv' /\ Logged(dlog, dlog', {l}) /\ Intent(dlog, l, kind, T)
         /\ Classified(dlog) /\ MaxGroup(dlog) = Top(dlog) /\ Top(dlog) \in Nat
         /\ dlog' # <<>> /\ Top(dlog') = Top(dlog) + 1
<1>1. Classified(dlog) /\ dlog' = Append(dlog, l) /\ self' = self /\ self.stage = "none"
  BY DEF BeginDestruction, Writable, Appended, WriteMuFree
<1>2. dlog \in Seq(DLines) /\ Shaped(dlog) /\ Top(dlog) \in Nat /\ MaxGroup(dlog) = Top(dlog)
  BY <1>1, ReadableLog DEF LogInv
<1>3. Intent(dlog, l, kind, T) /\ dlog' \in Seq(DLines) /\ Shaped(dlog')
  BY <1>1, <1>2, IntentShaped
<1>4. Logged(dlog, dlog', {l}) /\ Top(dlog') = l.group /\ dlog' # <<>>
  <2>1. l \in DLines /\ l.group = Top(dlog) + 1
    BY <1>3 DEF Intent
  <2>2. dlog' # <<>>
    BY <1>1, <1>2, AppendedLog DEF Longer
  <2> QED
    BY <1>1, <1>2, <2>1, <2>2, GrownLogged
<1>5. LogInv'
  BY <1>1, <1>3, ShapedLogOK DEF LogInv, SelfOK
<1> QED
  BY <1>1, <1>2, <1>3, <1>4, <1>5 DEF Intent

LEMMA TornLogged ==
  ASSUME LogInv, BeginTorn
  PROVE  LogInv' /\ Logged(dlog, dlog', {}) /\ ~ Classified(dlog')
<1>1. /\ Classified(dlog) /\ dlog' = Append(dlog, Torn) /\ self' = self /\ self.stage = "none"
      /\ dlog \in Seq(DLines \union {Torn}) /\ self \in Selves
  BY DEF BeginTorn, Writable, TornAppend, WriteMuFree, LogInv, LogOK, SelfOK
<1>2. Len(dlog) + 1 \in DOMAIN dlog' /\ dlog'[Len(dlog) + 1] = Torn
  <2>1. Len(dlog) \in Nat
    BY <1>1, LenProperties
  <2> QED
    BY <1>1, <2>1, AppendedLog DEF Longer
<1>3. ~ Classified(dlog')
  BY <1>2 DEF Classified
<1>4. dlog' \in Seq(DLines \union {Torn})
  BY <1>1, AppendProperties
<1> QED
  BY <1>1, <1>3, <1>4 DEF LogInv, LogOK, SelfOK, Logged, FullLog

LEMMA CloseLogged ==
  ASSUME LogInv, NEW a \in {"tick", "other"}, NEW g, NEW s \in {"completed", "aborted"},
         CompleteDestruction(a, g, s)
  PROVE  LogInv' /\ \E o, l : Closing(dlog, o, l, g, s) /\ Logged(dlog, dlog', {l})
<1> DEFINE l == ClosingLine(dlog, g, s)
           o == LastOf(dlog)
<1>1. Classified(dlog) /\ dlog' = Append(dlog, l) /\ Closable(dlog, g)
  BY DEF CompleteDestruction, Closable, Writable, Appended
<1>2. dlog \in Seq(DLines) /\ Shaped(dlog) /\ Top(dlog) \in Nat
  BY <1>1, ReadableLog DEF LogInv
<1> HIDE DEF l, o
<1>3. Closing(dlog, o, l, g, s) /\ dlog' \in Seq(DLines) /\ Shaped(dlog') /\ dlog # <<>>
  <2>1. l = ClosingLine(dlog, g, s)
    BY DEF l
  <2> QED
    BY <1>1, <1>2, <2>1, ClosingShaped DEF o
<1>4. l.group = Top(dlog) /\ l \in DLines
  BY <1>3 DEF Top, o, Closing
<1>5. Logged(dlog, dlog', {l})
  BY <1>1, <1>2, <1>3, <1>4, GrownLogged
<1>6. LogOK(dlog') /\ Classified(dlog')
  BY <1>3, ShapedLogOK
<1>7. dlog' # <<>>
  BY <1>1, <1>2, AppendedLog DEF Longer
<1> DEFINE D == DroppedGroups(dlog', DestructionCapacity - 1)
<1>8. D \subseteq Groups(dlog') /\ DropsLowest(dlog', D) /\ Groups(dlog') \subseteq Nat
  <2>1. DestructionCapacity - 1 \in Int
    BY DestructionConstants
  <2>2. \A i \in DOMAIN dlog' : dlog'[i].group \in Nat
    BY <1>3, LineIn
  <2>3. Upward(dlog')
    BY <1>3, ShapedUpward
  <2> QED
    BY <1>3, <2>1, <2>2, <2>3, DropsOldest DEF Groups
<1> HIDE DEF D
<1>9. self' \in {NoSelf, [by |-> a, stage |-> "intent", gone |-> D]}
  BY DEF CompleteDestruction, D
<1>10. SelfOK(dlog', self')
  <2>1. CASE self' = NoSelf
    BY <2>1 DEF SelfOK, NoSelf, Selves
  <2>2. CASE self' = [by |-> a, stage |-> "intent", gone |-> D]
    BY <1>6, <1>7, <1>8, <2>2 DEF SelfOK, Selves
  <2> QED
    BY <1>9, <2>1, <2>2
<1> QED
  BY <1>3, <1>5, <1>6, <1>10 DEF LogInv

\* A line of the log's own compaction.
SelfLine(log, l) ==
  /\ l \in DLines /\ l.kind = "self_compaction"
  /\ l.group > Top(log) \/ \E o \in Lines(log) : o.group = l.group /\ o.kind = "self_compaction"

LEMMA SelfIntentLogged ==
  ASSUME LogInv, SelfIntent
  PROVE  LogInv' /\ \E l : SelfLine(dlog, l) /\ Logged(dlog, dlog', {l})
<1> DEFINE D == self.gone
           l == IntentLine(dlog, "self_compaction", D)
<1>1. /\ Classified(dlog) /\ dlog' = Append(dlog, l) /\ self' = [self EXCEPT !.stage = "rewrite"]
      /\ self \in Selves /\ D \subseteq Groups(dlog) /\ DropsLowest(dlog, D) /\ dlog # <<>>
  BY DEF SelfIntent, Appended, LogInv, SelfOK
<1>2. dlog \in Seq(DLines) /\ Shaped(dlog) /\ Top(dlog) \in Nat
  BY <1>1, ReadableLog DEF LogInv
<1>3. D \in SUBSET (Refs \union Nat) /\ "self_compaction" \in Kinds
  BY <1>1 DEF Selves, Kinds
<1> HIDE DEF l, D
<1>4. Intent(dlog, l, "self_compaction", D) /\ dlog' \in Seq(DLines) /\ Shaped(dlog')
  <2>1. l = IntentLine(dlog, "self_compaction", D)
    BY DEF l
  <2> QED
    BY <1>1, <1>2, <1>3, <2>1, IntentShaped
<1>5. /\ l \in DLines /\ l.group = Top(dlog) + 1 /\ l.kind = "self_compaction"
  BY <1>4 DEF Intent
<1>6. Logged(dlog, dlog', {l})
  BY <1>1, <1>2, <1>5, GrownLogged
<1>7. dlog' # <<>> /\ LastOf(dlog') = l /\ Groups(dlog') = Groups(dlog) \union {l.group}
  <2>1. Longer(dlog, l, dlog')
    BY <1>1, <1>2, AppendedLog
  <2> QED
    BY <2>1 DEF Longer
<1>8. LogOK(dlog') /\ Classified(dlog')
  BY <1>4, ShapedLogOK
<1>9. DropsLowest(dlog', D)
  <2>1. \A g \in D : g \in Nat /\ g <= Top(dlog)
    <3> SUFFICES ASSUME NEW g \in D PROVE g \in Nat /\ g <= Top(dlog)
      OBVIOUS
    <3>1. PICK i \in DOMAIN dlog : dlog[i].group = g
      BY <1>1 DEF Groups
    <3> QED
      BY <1>2, <3>1, LineIn, TopGroup
  <2>2. \A g \in D : g < l.group
    BY <1>2, <1>5, <2>1
  <2> QED
    BY <1>1, <1>7, <2>2 DEF DropsLowest
<1>10. SelfOK(dlog', self')
  <2>1. self' \in Selves /\ self'.stage = "rewrite" /\ self'.gone = D
    BY <1>1 DEF Selves, D
  <2> QED
    BY <1>1, <1>5, <1>7, <1>8, <1>9, <2>1 DEF SelfOK
<1>11. SelfLine(dlog, l)
  BY <1>2, <1>5 DEF SelfLine
<1> QED
  BY <1>6, <1>8, <1>10, <1>11 DEF LogInv

LEMMA SelfRewriteLogged ==
  ASSUME LogInv, SelfRewrite
  PROVE  LogInv' /\ Logged(dlog, dlog', {})
<1>1. /\ Classified(dlog) /\ dlog' = WithoutGroups(dlog, self.gone)
      /\ self' = [self EXCEPT !.stage = "close"] /\ LastOf(dlog).kind = "self_compaction"
      /\ self \in Selves /\ self.gone \subseteq Groups(dlog) /\ DropsLowest(dlog, self.gone) /\ dlog # <<>>
  BY DEF SelfRewrite, LogInv, SelfOK
<1>2. dlog \in Seq(DLines) /\ Shaped(dlog) /\ Top(dlog) \in Nat
  BY <1>1, ReadableLog DEF LogInv
<1>3. /\ dlog' \in Seq(DLines) /\ Shaped(dlog') /\ dlog' # <<>> /\ LastOf(dlog') = LastOf(dlog)
      /\ Lines(dlog') \subseteq Lines(dlog)
      /\ (\E g \in Groups(dlog') : g <= 1) => Lines(dlog') = Lines(dlog)
  BY <1>1, <1>2, CompactedShaped
<1>4. LogOK(dlog') /\ Classified(dlog')
  BY <1>3, ShapedLogOK
<1>5. SelfOK(dlog', self')
  BY <1>1, <1>3, <1>4 DEF SelfOK, Selves
<1>6. Top(dlog') = Top(dlog) /\ Top(dlog') >= Top(dlog)
  BY <1>1, <1>2, <1>3 DEF Top
<1>7. ASSUME FullLog(dlog') PROVE FullLog(dlog) /\ Lines(dlog') = Lines(dlog)
  <2>1. PICK g \in Groups(dlog') : g <= 1
    BY <1>3, <1>7 DEF FullLog
  <2>2. Lines(dlog') = Lines(dlog)
    BY <1>3, <2>1
  <2>3. g \in Groups(dlog)
    BY <2>2 DEF Groups, Lines
  <2> QED
    BY <1>1, <2>1, <2>2, <2>3 DEF FullLog
<1> QED
  BY <1>1, <1>3, <1>4, <1>5, <1>6, <1>7 DEF LogInv, Logged

LEMMA SelfCloseLogged ==
  ASSUME LogInv, SelfClose
  PROVE  /\ LogInv'
         /\ Logged(dlog, dlog', {}) \/ \E l : SelfLine(dlog, l) /\ Logged(dlog, dlog', {l})
<1>1. /\ Classified(dlog) /\ self' = NoSelf /\ LastOf(dlog).kind = "self_compaction"
      /\ LogOK(dlog)
  BY DEF SelfClose, LogInv, SelfOK
<1>2. dlog \in Seq(DLines) /\ Shaped(dlog) /\ Top(dlog) \in Nat
  BY <1>1, ReadableLog
<1>3. \A log : SelfOK(log, NoSelf)
  BY DEF SelfOK, NoSelf, Selves
<1>4. CASE Closable(dlog, MaxGroup(dlog))
  <2> DEFINE l == ClosingLine(dlog, MaxGroup(dlog), "completed")
             g == MaxGroup(dlog)
  <2>1. dlog' = Append(dlog, l)
    BY <1>4 DEF SelfClose, Appended
  <2> HIDE DEF l, g
  <2>2. Closing(dlog, LastOf(dlog), l, g, "completed") /\ dlog' \in Seq(DLines) /\ Shaped(dlog') /\ dlog # <<>>
    <3>1. Closable(dlog, g) /\ l = ClosingLine(dlog, g, "completed")
      BY <1>4 DEF l, g
    <3> QED
      BY <1>2, <2>1, <3>1, ClosingShaped
  <2>3. l.group = Top(dlog) /\ l \in DLines
    BY <2>2 DEF Top, Closing
  <2>4. Logged(dlog, dlog', {l})
    BY <1>2, <2>1, <2>2, <2>3, GrownLogged
  <2>5. SelfLine(dlog, l)
    BY <1>1, <2>2 DEF SelfLine, Closing
  <2>6. LogInv'
    BY <1>1, <1>3, <2>2, ShapedLogOK DEF LogInv
  <2> QED
    BY <2>4, <2>5, <2>6
<1>5. CASE ~ Closable(dlog, MaxGroup(dlog))
  <2>1. UNCHANGED dlog
    BY <1>5 DEF SelfClose
  <2> QED
    BY <1>1, <1>3, <2>1, StayLogged DEF LogInv
<1> QED
  BY <1>4, <1>5

-----------------------------------------------------------------------------
(* The inductive invariant.                                                *)

ManRecords == [id : Nat, digest : Nat, prev : Nat, prevd : Nat, ok : BOOLEAN]
Units == [files : SUBSET Files, man : ManRecords]
EntryLines == [group : Nat \ {0}, digest : Nat, prev : Nat, prevd : Nat]
Recording == {"append", "observe", "rewrite", "close_ledger", "release"}
Early == {"allocate", "commit", "chain"}
Late == {"idle", "prune", "prune_begin", "remove"}
Lists == {<<>>, <<"artifact">>, <<"manifest">>, <<"artifact", "manifest">>}
Plans == {<<>>} \union UNION {[S -> Lists] : S \in SUBSET Snapshots}
Jobs == [at : Early \union {"link"} \union Recording \union Late, n : Nat, id : Nat,
         prev : ManRecords, entry : ManRecords, next : {"none", "link", "prune"},
         plan : Plans, todo : Lists, seq : Nat, failed : BOOLEAN]

Typed ==
  /\ wm \in Nat \union {Missing} /\ wmTmp \in BOOLEAN
  /\ unit \in [Snapshots -> Units]
  /\ ledger \in Seq(EntryLines \union {Torn})
  /\ job \in Jobs /\ (job.at \in Recording => job.next \in {"link", "prune"})
  /\ other \in [at : {"idle", "observe", "close", "release"}, seq : Nat]
  /\ ticks \in Nat /\ ticks <= MaxTicks /\ others \in Nat /\ errors \in Nat
  /\ outside \in SUBSET Refs /\ meddled \in Nat /\ intact \in BOOLEAN
  /\ minted \in Nat /\ high \in Nat /\ forgotten \in SUBSET Nat

\* The predecessor of the manifest that is being made has been chosen.
Chosen == job.at = "link" \/ (job.at \in Recording /\ job.next = "link")
Making == job.at \in Early \/ Chosen

\* Manifests stand in the order of their snapshots, and the one being made
\* will be the last.
Layout ==
  /\ \A k \in Snapshots : k > ticks => unit[k] = NoUnit
  /\ Making => job.n = ticks /\ ticks >= 1 /\ unit[job.n].files = {"artifact"}
  /\ \A n, k \in Published : n < k => unit[n].man.id < unit[k].man.id
  /\ Chosen => \A n \in Published : unit[n].man.id < job.id
  /\ job.at \in Early => job.prev = NoManifest

\* The watermark covers what was published, unless somebody replaced it.
Marked ==
  /\ wm <= ticks
  /\ job.at = "allocate" => wm < ticks
  /\ Making /\ job.at # "allocate" => 1 <= job.id /\ job.id <= ticks
  /\ intact => /\ wm >= high
               /\ job.at = "commit" => job.id = wm + 1
               /\ Making /\ job.at \notin {"allocate", "commit"} => job.id = wm /\ high < job.id

Left(todo) == {todo[i] : i \in DOMAIN todo}

\* The plan of the retention: the oldest snapshots, the first one under way.
Planned ==
  /\ job.at \in {"prune_begin", "remove"} =>
       /\ DOMAIN job.plan # {} /\ DOMAIN job.plan \subseteq Snapshots
       /\ \A k \in OnDisk, n \in DOMAIN job.plan : k <= n => k \in DOMAIN job.plan
       /\ \A n \in DOMAIN job.plan : job.plan[n] \in Lists /\ unit[n].files \subseteq Left(job.plan[n])
  /\ job.at = "remove" =>
       /\ job.n \in DOMAIN job.plan /\ \A k \in DOMAIN job.plan : job.n <= k
       /\ ~ job.failed => unit[job.n].files \subseteq Left(job.todo)

\* The manifests on disk, being recorded or committed to, and all references
\* to manifests in the directory, the ledger and the destruction log.
Mans == Manifests \union {m \in {job.entry} : job.at \in Recording}
                  \union {m \in {job.prev} : Chosen /\ job.prev # NoManifest}
Written == Lines(ledger) \ {Torn}
LineRef(l) == [id |-> l.group, digest |-> l.digest]
PrevRef(m) == [id |-> m.prev, digest |-> m.prevd]
Mentioned ==
  {Reference(m) : m \in Mans} \union {PrevRef(m) : m \in {n \in Mans : n.prev # 0}}
  \union {LineRef(l) : l \in Written} \union {PrevRef(l) : l \in {k \in Written : k.prev # 0}}
Named(log, r) == \E l \in Lines(log) : l.kind = "snapshot_retention" /\ r \in l.targets
Targeted == {r \in Refs \union Nat : Classified(dlog) /\ Named(dlog, r)}
AllRefs == Mentioned \union outside \union Targeted

\* No digest is given twice; with an untouched watermark no id either.
Distinct ==
  /\ \A n \in Snapshots : unit[n].man.digest <= minted
  /\ \A n, k \in Snapshots : unit[n].man.digest = unit[k].man.digest => n = k \/ unit[n].man.digest = 0
Numbered ==
  /\ \A r \in AllRefs : r \in Refs /\ 1 <= r.id /\ r.id <= high /\ 1 <= r.digest /\ r.digest <= minted
  /\ intact => \A r, s \in AllRefs : r.id = s.id => r = s
Rooted == \A m \in Mans \union Written : m.prev = 0 => m.prevd = 0

\* Who opened a group finds it as it was written.
Owns(log, seq, kind) ==
  Classified(log) =>
    /\ seq <= Top(log)
    /\ \A l \in Lines(log) : l.group = seq => l.kind = kind /\ l.state = "intended"
Retiring == job.at = "remove" /\ job.seq # 0
Owned ==
  /\ job.at \in {"rewrite", "close_ledger"} => Owns(dlog, job.seq, "ledger_compaction")
  /\ other.at = "close" => Owns(dlog, other.seq, "verification_compaction")
  /\ Retiring => Owns(dlog, job.seq, "snapshot_retention")
  /\ Retiring /\ Classified(dlog) =>
       \A l \in Lines(dlog) : l.group = job.seq => l.targets = {Reference(unit[job.n].man)}

\* A completed retention names nothing that is on disk or was taken from
\* outside.
DiskRefs == {Reference(unit[n].man) : n \in Published}
Washed ==
  /\ Classified(dlog) =>
       \A l \in Lines(dlog) : l.kind = "snapshot_retention" /\ l.state = "completed" =>
         l.targets \intersect (DiskRefs \union outside) = {}
  /\ DiskRefs \intersect outside = {}
  /\ Retiring /\ ~ job.failed /\ "manifest" \notin Left(job.todo) =>
       Reference(unit[job.n].man) \notin outside

\* What leaves is on the record first.
Dropped(log, id) == \E l \in Lines(log) : l.kind = "ledger_compaction" /\ id \in l.targets
OnRecord ==
  /\ job.at = "remove" /\ job.seq = 0 /\ Classified(dlog) => job.n \notin Published
  /\ FullLog(dlog) =>
       /\ \A n \in Published : "artifact" \notin unit[n].files => Named(dlog, Reference(unit[n].man))
       /\ \A id \in forgotten : Dropped(dlog, id)
       /\ job.at = "rewrite" => \A id \in Dropping : Dropped(dlog, id)
       /\ Retiring => Named(dlog, Reference(unit[job.n].man))
Traced == FullLog(dlog) => \A r \in Mentioned : r \in DiskRefs \union outside \/ Named(dlog, r)

\* The ledger has one line for an id and is there when somebody relies on it.
Ledgered ==
  /\ \A i, j \in DOMAIN ledger :
       ledger[i] # Torn /\ ledger[j] # Torn /\ ledger[i].group = ledger[j].group => i = j
  /\ job.at \in Recording \ {"append"} => Classified(ledger) /\ ledger # <<>>
  /\ (job.at = "link" /\ job.prev # NoManifest) \/ (\E m \in Manifests : m.prev # 0) =>
       (Classified(ledger) => ledger # <<>>)

\* What nobody outside has disturbed is one chain, and the ledger records it
\* upwards.
Chained ==
  /\ \A m \in Mans : m.ok /\ m.prev < m.id
  /\ \A l \in Written : l.prev < l.group
  /\ \A m, p \in Manifests : p.id < m.id =>
       \E q \in Manifests : Reference(q) = PrevRef(m) /\ p.id <= q.id
  /\ Chosen => \/ Manifests = {} /\ job.prev = NoManifest
               \/ job.prev \in Manifests /\ \A p \in Manifests : p.id <= job.prev.id
  /\ Manifests # {} => \E m \in Manifests : m.id = high
  /\ job.at \in Recording => job.entry.id = high
  /\ Classified(ledger) => Ascending(ledger)
Honest == meddled = 0 => intact /\ outside = {} /\ Chained

PInv ==
  /\ Typed /\ LogInv /\ Layout /\ Marked /\ Planned /\ Distinct /\ Numbered /\ Rooted
  /\ Owned /\ Washed /\ OnRecord /\ Traced /\ Ledgered /\ Honest

-----------------------------------------------------------------------------
(* The parts of the state, one by one.                                     *)

LEMMA JobParts ==
  ASSUME Typed
  PROVE  /\ job.at \in Early \union {"link"} \union Recording \union Late
         /\ job.n \in Nat /\ job.id \in Nat /\ job.prev \in ManRecords /\ job.entry \in ManRecords
         /\ job.next \in {"none", "link", "prune"} /\ job.plan \in Plans /\ job.todo \in Lists
         /\ job.seq \in Nat /\ job.failed \in BOOLEAN
BY DEF Typed, Jobs

LEMMA UnitParts ==
  ASSUME Typed, NEW n \in Snapshots
  PROVE  /\ unit[n] \in Units /\ unit[n].files \in SUBSET Files /\ unit[n].man \in ManRecords
         /\ unit[n].man.id \in Nat /\ unit[n].man.digest \in Nat /\ unit[n].man.prev \in Nat
         /\ unit[n].man.prevd \in Nat /\ unit[n].man.ok \in BOOLEAN
BY DEF Typed, Units, ManRecords

LEMMA SnapshotFacts ==
  /\ Snapshots \subseteq Nat /\ NoManifest \in ManRecords /\ NoUnit \in Units
  /\ \A n \in Snapshots : 1 <= n /\ n <= MaxTicks
  /\ \A n \in Nat : 1 <= n /\ n <= MaxTicks => n \in Snapshots
BY ExportConstants DEF Snapshots, NoManifest, ManRecords, NoUnit, Units

LEMMA IdleJob ==
  /\ NoJob \in Jobs /\ NoJob.at = "idle" /\ NoJob.prev = NoManifest
BY SnapshotFacts DEF NoJob, Jobs, Late, Plans, Lists, NoManifest

\* Reference and PrevRef on records.
LEMMA RefFacts ==
  ASSUME NEW m \in ManRecords
  PROVE  /\ Reference(m) \in Refs /\ Reference(m).id = m.id /\ Reference(m).digest = m.digest
         /\ PrevRef(m) \in Refs /\ PrevRef(m).id = m.prev /\ PrevRef(m).digest = m.prevd
BY DEF ManRecords, Reference, PrevRef, Refs

LEMMA LineRefFacts ==
  ASSUME NEW l \in EntryLines
  PROVE  /\ LineRef(l) \in Refs /\ LineRef(l).id = l.group /\ LineRef(l).digest = l.digest
         /\ PrevRef(l) \in Refs /\ PrevRef(l).id = l.prev /\ PrevRef(l).digest = l.prevd
         /\ l # Torn /\ l.group \in Nat /\ l.group > 0 /\ l.prev \in Nat /\ l.digest \in Nat /\ l.prevd \in Nat
BY DEF EntryLines, LineRef, PrevRef, Refs, Torn

LEMMA WrittenLines ==
  ASSUME Typed
  PROVE  Written \subseteq EntryLines
<1>1. ledger \in Seq(EntryLines \union {Torn})
  BY DEF Typed
<1>2. \A i \in DOMAIN ledger : ledger[i] \in EntryLines \union {Torn}
  BY <1>1
<1> QED
  BY <1>2 DEF Written, Lines

LEMMA MansTyped ==
  ASSUME Typed
  PROVE  Mans \subseteq ManRecords /\ Manifests \subseteq Mans
<1>1. Manifests \subseteq ManRecords
  BY UnitParts DEF Manifests, Published
<1>2. job.entry \in ManRecords /\ job.prev \in ManRecords
  BY JobParts
<1> QED
  BY <1>1, <1>2 DEF Mans

\* The lists of files that are left to remove.
LEMMA ListFacts ==
  ASSUME NEW todo \in Lists
  PROVE  /\ Left(todo) \in SUBSET Files
         /\ todo = <<>> => Left(todo) = {}
         /\ todo # <<>> => /\ Head(todo) \in Files /\ Tail(todo) \in Lists
                           /\ Left(Tail(todo)) = Left(todo) \ {Head(todo)}
<1>1. CASE todo = <<>>
  BY <1>1 DEF Left
<1>2. CASE todo = <<"artifact">>
  <2>1. Left(todo) = {"artifact"}
    BY <1>2 DEF Left
  <2>2. Head(todo) = "artifact" /\ Tail(todo) = <<>> /\ Left(<<>>) = {}
    BY <1>2 DEF Left
  <2> QED
    BY <1>2, <2>1, <2>2 DEF Files, Lists
<1>3. CASE todo = <<"manifest">>
  <2>1. Left(todo) = {"manifest"}
    BY <1>3 DEF Left
  <2>2. Head(todo) = "manifest" /\ Tail(todo) = <<>> /\ Left(<<>>) = {}
    BY <1>3 DEF Left
  <2> QED
    BY <1>3, <2>1, <2>2 DEF Files, Lists
<1>4. CASE todo = <<"artifact", "manifest">>
  <2>1. Left(todo) = {"artifact", "manifest"}
    BY <1>4 DEF Left
  <2>2. Head(todo) = "artifact" /\ Tail(todo) = <<"manifest">> /\ Left(<<"manifest">>) = {"manifest"}
    BY <1>4 DEF Left
  <2> QED
    BY <1>4, <2>1, <2>2 DEF Files, Lists
<1> QED
  BY <1>1, <1>2, <1>3, <1>4 DEF Lists

LEMMA ListingFacts ==
  ASSUME NEW fs \in SUBSET Files
  PROVE  Listing(fs) \in Lists /\ fs \subseteq Left(Listing(fs))
<1>1. Listing(fs) = IF "artifact" \in fs
                    THEN IF "manifest" \in fs THEN <<"artifact", "manifest">> ELSE <<"artifact">>
                    ELSE IF "manifest" \in fs THEN <<"manifest">> ELSE <<>>
  <2>1. <<"artifact">> \in Seq(Files) /\ <<"manifest">> \in Seq(Files) /\ <<>> \in Seq(Files)
        /\ "manifest" \in Files
    BY DEF Files
  <2>2. Append(<<"artifact">>, "manifest") = <<"artifact">> \o <<"manifest">>
    BY <2>1, AppendIsConcat
  <2>3. Append(<<"artifact">>, "manifest") = <<"artifact", "manifest">>
    <3> DEFINE a == Append(<<"artifact">>, "manifest")
               b == <<"artifact", "manifest">>
               s == <<"artifact">>
    <3>1. Len(s) = 1 /\ s[1] = "artifact"
      OBVIOUS
    <3>2. a \in Seq(Files) /\ Len(a) = Len(s) + 1 /\ a[1] = s[1] /\ a[Len(s) + 1] = "manifest"
      BY <2>1, <3>1, AppendProperties
    <3>3. b \in Seq(Files) /\ Len(b) = 2 /\ b[1] = "artifact" /\ b[2] = "manifest"
      BY DEF Files
    <3> HIDE DEF a, b, s
    <3>4. Len(a) = 2 /\ a[1] = "artifact" /\ a[2] = "manifest"
      BY <3>1, <3>2
    <3>5. \A i \in 1 .. Len(a) : a[i] = b[i]
      BY <3>3, <3>4
    <3>6. a = b
      BY <3>2, <3>3, <3>4, <3>5, SeqEqual
    <3> QED
      BY <3>6 DEF a, b
  <2>4. /\ <<"artifact">> \o <<>> = <<"artifact">> /\ <<>> \o <<"manifest">> = <<"manifest">>
        /\ <<>> \o <<>> = <<>>
    BY <2>1, ConcatEmptySeq
  <2> QED
    BY <2>2, <2>3, <2>4 DEF Listing
<1>2. /\ Left(<<"artifact">>) = {"artifact"} /\ Left(<<"manifest">>) = {"manifest"}
      /\ Left(<<"artifact", "manifest">>) = {"artifact", "manifest"} /\ Left(<<>>) = {}
  BY DEF Left
<1> QED
  BY <1>1, <1>2 DEF Files, Lists

-----------------------------------------------------------------------------
(* Steps that leave the directory alone.                                   *)

\* The job goes on without choosing or recording anything new.
Eased ==
  /\ job' \in Jobs /\ (job'.at \in Recording => job'.next \in {"link", "prune"})
  /\ job'.at \in Early => job.at \in Early /\ job'.n = job.n /\ job'.prev = job.prev
  /\ Chosen' => Chosen /\ job'.id = job.id /\ job'.n = job.n /\ job'.prev = job.prev
  /\ job'.at \in Recording => job.at \in Recording /\ job'.entry = job.entry

LEMMA PlaceFacts ==
  /\ "allocate" \in Early /\ "commit" \in Early /\ "chain" \in Early
  /\ \A a \in Early : a # "link" /\ a \notin Recording /\ a \notin Late
  /\ \A a \in Recording : a # "link" /\ a \notin Late /\ a \notin Early
  /\ \A a \in Late : a # "link" /\ a \notin Recording /\ a \notin Early
BY DEF Early, Recording, Late

LEMMA ChosenPlaces ==
  /\ Chosen => job.at \notin Early /\ job.at \notin Late /\ Making
  /\ job.at \in Early => Making /\ ~ Chosen
  /\ job.at \in Late => ~ Making /\ ~ Chosen
BY PlaceFacts DEF Chosen, Making

LEMMA MansShrink ==
  ASSUME Manifests' \subseteq Manifests, Eased
  PROVE  Mans' \subseteq Mans
BY DEF Mans, Eased

\* The tick counter moves only while no manifest is being made.
Ticking == ticks' \in Nat /\ ticks' >= ticks /\ (Making' => ticks' = ticks)

LEMMA EasingOn ==
  ASSUME Typed, Layout, Honest, Eased, Ticking, UNCHANGED <<unit, outside, meddled, intact, high>>,
         Honest => (meddled = 0 => /\ \A l \in Written' : l.prev < l.group
                                   /\ Classified(ledger') => Ascending(ledger'))
  PROVE  Layout' /\ Honest'
<1>1. Published' = Published /\ Manifests' = Manifests
  BY DEF Published, Manifests
<1>2. Mans' \subseteq Mans
  BY <1>1, MansShrink
<1>3. Chosen' => Chosen /\ job'.id = job.id /\ job'.n = job.n /\ job'.prev = job.prev
  BY DEF Eased
<1>4. job'.at \in Early => job.at \in Early /\ job'.n = job.n /\ job'.prev = job.prev
  BY DEF Eased
<1>5. Making' => Making /\ job'.n = job.n /\ ticks' = ticks
  BY <1>3, <1>4 DEF Making, Ticking
<1>6. Layout'
  <2>1. \A k \in Snapshots : k > ticks' => unit'[k] = NoUnit
    <3>1. \A k \in Snapshots : k > ticks' => k > ticks
      BY SnapshotFacts DEF Typed, Ticking
    <3> QED
      BY <3>1 DEF Layout
  <2>2. Making' => job'.n = ticks' /\ ticks' >= 1 /\ unit'[job'.n].files = {"artifact"}
    BY <1>5 DEF Layout
  <2>3. \A n, k \in Published' : n < k => unit'[n].man.id < unit'[k].man.id
    BY <1>1 DEF Layout
  <2>4. Chosen' => \A n \in Published' : unit'[n].man.id < job'.id
    BY <1>1, <1>3 DEF Layout
  <2>5. job'.at \in Early => job'.prev = NoManifest
    BY <1>4 DEF Layout
  <2> QED
    BY <2>1, <2>2, <2>3, <2>4, <2>5 DEF Layout
<1>7. Honest'
  <2> SUFFICES ASSUME meddled' = 0 PROVE intact' /\ outside' = {} /\ Chained'
    BY DEF Honest
  <2>1. intact /\ outside = {} /\ Chained
    BY DEF Honest
  <2>2. job'.at \in Recording => job'.entry.id = high'
    BY <2>1 DEF Chained, Eased
  <2>3. (\A l \in Written' : l.prev < l.group) /\ (Classified(ledger') => Ascending(ledger'))
    OBVIOUS
  <2>4. high' = high /\ intact' = intact /\ outside' = outside
    OBVIOUS
  <2>5. Chosen' => \/ Manifests' = {} /\ job'.prev = NoManifest
                   \/ job'.prev \in Manifests' /\ \A p \in Manifests' : p.id <= job'.prev.id
    BY <1>1, <1>3, <2>1 DEF Chained
  <2>6. \A m \in Mans' : m.ok /\ m.prev < m.id
    BY <1>1, <1>2, <2>1 DEF Chained
  <2>7. /\ \A m, p \in Manifests' : p.id < m.id =>
             \E q \in Manifests' : Reference(q) = PrevRef(m) /\ p.id <= q.id
        /\ Manifests' # {} => \E m \in Manifests' : m.id = high'
    BY <1>1, <2>1, <2>4 DEF Chained
  <2> QED
    BY <2>1, <2>2, <2>3, <2>4, <2>5, <2>6, <2>7 DEF Chained
<1> QED
  BY <1>6, <1>7

LEMMA Easing ==
  ASSUME Typed, Layout, Honest, Eased, Ticking, UNCHANGED <<unit, historyVars, ledger>>
  PROVE  Layout' /\ Honest'
<1>1. Written' = Written
  BY DEF Written, Lines
<1>2. Honest => (meddled = 0 => /\ \A l \in Written' : l.prev < l.group
                                /\ Classified(ledger') => Ascending(ledger'))
  BY <1>1 DEF Honest, Chained
<1> QED
  BY <1>2, EasingOn DEF historyVars

LEMMA MarkedEasing ==
  ASSUME Marked, Eased, job'.at \in Early => job' = job, UNCHANGED <<wm, ticks, intact, high>>
  PROVE  Marked'
<1>1. Chosen' => Chosen /\ job'.id = job.id
  BY DEF Eased
<1>2. job'.at \in Early => job' = job
  OBVIOUS
<1>3. Making' => /\ Making /\ job'.id = job.id
                 /\ job'.at \in Early \/ Chosen'
  BY <1>1, <1>2 DEF Making
<1>4. job'.at \in {"allocate", "commit"} => job' = job
  BY <1>2, PlaceFacts
<1>5. Making' /\ job'.at # "allocate" => Making /\ job.at # "allocate" /\ job'.id = job.id
  BY <1>1, <1>2, <1>3, ChosenPlaces, PlaceFacts
<1>6. Making' /\ job'.at \notin {"allocate", "commit"} =>
        Making /\ job.at \notin {"allocate", "commit"} /\ job'.id = job.id
  BY <1>1, <1>2, <1>3, ChosenPlaces, PlaceFacts
<1>7. job'.at = "allocate" => wm' < ticks'
  BY <1>4 DEF Marked
<1>8. intact' /\ job'.at = "commit" => job'.id = wm' + 1
  BY <1>4 DEF Marked
<1>9. Making' /\ job'.at # "allocate" => 1 <= job'.id /\ job'.id <= ticks'
  BY <1>5 DEF Marked
<1>10. intact' => (Making' /\ job'.at \notin {"allocate", "commit"} => job'.id = wm' /\ high' < job'.id)
  BY <1>6 DEF Marked
<1>11. wm' <= ticks' /\ (intact' => wm' >= high')
  BY DEF Marked
<1> QED
  BY <1>7, <1>8, <1>9, <1>10, <1>11 DEF Marked

\* References only become fewer.
LEMMA NumberedStep ==
  ASSUME Numbered, AllRefs' \subseteq AllRefs, high' = high, minted' = minted, intact' => intact
  PROVE  Numbered'
BY DEF Numbered

LEMMA MentionedShrinks ==
  ASSUME Mans' \subseteq Mans, Written' \subseteq Written
  PROVE  Mentioned' \subseteq Mentioned
<1> SUFFICES ASSUME NEW r \in Mentioned' PROVE r \in Mentioned
  OBVIOUS
<1>1. \/ \E m \in Mans' : r = Reference(m)
      \/ \E m \in Mans' : m.prev # 0 /\ r = PrevRef(m)
      \/ \E l \in Written' : r = LineRef(l)
      \/ \E l \in Written' : l.prev # 0 /\ r = PrevRef(l)
  BY DEF Mentioned
<1>2. \/ \E m \in Mans : r = Reference(m)
      \/ \E m \in Mans : m.prev # 0 /\ r = PrevRef(m)
      \/ \E l \in Written : r = LineRef(l)
      \/ \E l \in Written : l.prev # 0 /\ r = PrevRef(l)
  BY <1>1
<1> QED
  BY <1>2 DEF Mentioned

LEMMA TargetedGrows ==
  ASSUME NEW A, NEW S, Logged(dlog, dlog', A),
         \A l \in A : l.kind = "snapshot_retention" => l.targets \subseteq S
  PROVE  Targeted' \subseteq Targeted \union S
<1> SUFFICES ASSUME NEW r \in Targeted', r \notin S PROVE r \in Targeted
  OBVIOUS
<1>1. Classified(dlog') /\ r \in Refs \union Nat
  BY DEF Targeted
<1>2. PICK l \in Lines(dlog') : l.kind = "snapshot_retention" /\ r \in l.targets
  BY DEF Targeted, Named
<1>3. Classified(dlog) /\ l \in Lines(dlog) \union A
  BY <1>1, <1>2 DEF Logged
<1>4. l \in Lines(dlog)
  BY <1>2, <1>3
<1> QED
  BY <1>1, <1>2, <1>3, <1>4 DEF Targeted, Named

LEMMA RefsOfDisk ==
  DiskRefs \subseteq Mentioned
BY DEF DiskRefs, Mentioned, Mans, Manifests

\* A line that does not belong to a group somebody of this kind has open.
Foreign(log, l, kind) ==
  \/ l.group > Top(log)
  \/ \E o \in Lines(log) : o.group = l.group /\ o.kind # kind

LEMMA OwnsKept ==
  ASSUME LogInv, NEW A, NEW seq \in Nat, NEW kind, Owns(dlog, seq, kind), Logged(dlog, dlog', A), LogInv',
         \A l \in A : l \in DLines /\ Foreign(dlog, l, kind)
  PROVE  Owns(dlog', seq, kind) /\ (Classified(dlog') => \A l \in Lines(dlog') : l.group = seq => l \in Lines(dlog))
<1> SUFFICES ASSUME Classified(dlog')
             PROVE  /\ seq <= Top(dlog')
                    /\ \A l \in Lines(dlog') : l.group = seq => /\ l \in Lines(dlog) /\ l.kind = kind
                                                               /\ l.state = "intended"
  BY DEF Owns
<1>1. Classified(dlog) /\ Lines(dlog') \subseteq Lines(dlog) \union A /\ Top(dlog') >= Top(dlog)
  BY DEF Logged
<1>2. Top(dlog) \in Nat /\ Top(dlog') \in Nat
  BY <1>1, ReadableLog DEF LogInv
<1>3. seq <= Top(dlog) /\ \A l \in Lines(dlog) : l.group = seq => l.kind = kind /\ l.state = "intended"
  BY <1>1 DEF Owns
<1>4. \A l \in A : l.group # seq
  <2> SUFFICES ASSUME NEW l \in A, l.group = seq PROVE FALSE
    OBVIOUS
  <2>1. l.group > Top(dlog) \/ \E o \in Lines(dlog) : o.group = l.group /\ o.kind # kind
    BY DEF Foreign
  <2> QED
    BY <1>2, <1>3, <2>1
<1> QED
  BY <1>1, <1>2, <1>3, <1>4

LEMMA NamedKept ==
  ASSUME NEW A, Logged(dlog, dlog', A), FullLog(dlog')
  PROVE  FullLog(dlog) /\ Lines(dlog) \subseteq Lines(dlog') /\ A \subseteq Lines(dlog')
BY DEF Logged

\* The manifests on disk stay as they are.
SamePublished == Published' = Published /\ \A n \in Published : unit'[n] = unit[n]

LEMMA SameManifests ==
  ASSUME SamePublished
  PROVE  Manifests' = Manifests /\ DiskRefs' = DiskRefs
BY DEF SamePublished, Manifests, DiskRefs

LEMMA SameUnits ==
  ASSUME UNCHANGED unit
  PROVE  SamePublished
BY DEF SamePublished, Published

\* A step of the log with no new reference: what does not depend on where
\* exactly the job is.
LEMMA LogStep ==
  ASSUME PInv, SamePublished, Mentioned' \subseteq Mentioned,
         UNCHANGED <<outside, high, minted, intact>>, NEW A, Logged(dlog, dlog', A),
         \A l \in A : l.kind = "snapshot_retention" => l.targets \subseteq AllRefs
  PROVE  Numbered' /\ Traced'
<1>1. DiskRefs' = DiskRefs
  BY SameManifests
<1>2. Targeted' \subseteq Targeted \union AllRefs
  BY TargetedGrows
<1>3. AllRefs' \subseteq AllRefs
  BY <1>2 DEF AllRefs
<1>4. Numbered'
  BY <1>3, NumberedStep DEF PInv
<1>5. Traced'
  <2> SUFFICES ASSUME FullLog(dlog'), NEW r \in Mentioned', r \notin DiskRefs' \union outside'
               PROVE  Named(dlog', r)
    BY DEF Traced
  <2>1. FullLog(dlog) /\ Lines(dlog) \subseteq Lines(dlog')
    BY NamedKept
  <2>2. Named(dlog, r)
    BY <1>1, <2>1 DEF PInv, Traced
  <2> QED
    BY <2>1, <2>2 DEF Named
<1> QED
  BY <1>4, <1>5

\* A line that is neither a retention nor a compaction of the ledger, and does
\* not belong to a group of these.
Aside(l) ==
  /\ l \in DLines /\ l.kind \notin {"snapshot_retention", "ledger_compaction"}
  /\ Foreign(dlog, l, "snapshot_retention") /\ Foreign(dlog, l, "ledger_compaction")

\* A step of the log that the tick does not take.
LEMMA AsideStep ==
  ASSUME PInv, UNCHANGED <<job, unit, wm, ticks, historyVars, ledger>>, Typed', LogInv',
         NEW A, Logged(dlog, dlog', A), \A l \in A : Aside(l),
         other'.at = "close" => Owns(dlog', other'.seq, "verification_compaction")
  PROVE  PInv'
<1>1. Eased
  <2>1. Typed /\ job' = job
    BY DEF PInv
  <2>2. job' \in Jobs /\ (job'.at \in Recording => job'.next \in {"link", "prune"})
    BY <2>1 DEF Typed
  <2>3. Chosen' = Chosen
    BY <2>1 DEF Chosen
  <2> QED
    BY <2>1, <2>2, <2>3 DEF Eased
<1>2. /\ Distinct' /\ Numbered' /\ Rooted' /\ Traced'
      /\ DiskRefs' = DiskRefs /\ Published' = Published /\ Manifests' = Manifests
  <2>1. SamePublished /\ Manifests' = Manifests /\ DiskRefs' = DiskRefs
    BY SameUnits, SameManifests
  <2>2. Mans' = Mans /\ Written' = Written
    BY <2>1 DEF Mans, Chosen, Written, Lines
  <2>3. Mentioned' \subseteq Mentioned /\ Rooted'
    BY <2>2, MentionedShrinks DEF PInv, Rooted
  <2>4. Numbered' /\ Traced'
    BY <2>1, <2>3, LogStep DEF Aside, historyVars
  <2>5. Distinct'
    BY DEF PInv, Distinct, historyVars
  <2> QED
    BY <2>1, <2>3, <2>4, <2>5 DEF SamePublished
<1>10. Marked' /\ Layout' /\ Honest'
  <2>1. Ticking
    BY DEF Ticking, PInv, Typed
  <2> QED
    BY <1>1, <2>1, MarkedEasing, Easing DEF PInv, historyVars
<1>3. /\ outside' = outside /\ unit' = unit /\ ledger' = ledger /\ forgotten' = forgotten /\ job' = job
  BY DEF historyVars
<1>4. Planned'
  BY <1>3 DEF PInv, Planned, OnDisk
<1>5. Ledgered'
  BY <1>2, <1>3 DEF PInv, Ledgered
<1>6. job.seq \in Nat /\ LogInv
  BY JobParts DEF PInv
<1>7. Owned'
  <2>1. \A l \in A : l \in DLines /\ Foreign(dlog, l, "ledger_compaction") /\ Foreign(dlog, l, "snapshot_retention")
    BY DEF Aside
  <2>2. job'.at \in {"rewrite", "close_ledger"} => Owns(dlog', job.seq, "ledger_compaction")
    BY <1>3, <1>6, <2>1, OwnsKept DEF PInv, Owned
  <2>3. Retiring' => /\ Owns(dlog', job.seq, "snapshot_retention")
                     /\ Classified(dlog') => \A l \in Lines(dlog') : l.group = job.seq => l \in Lines(dlog)
    BY <1>3, <1>6, <2>1, OwnsKept DEF PInv, Owned, Retiring
  <2>4. Retiring' /\ Classified(dlog') =>
          \A l \in Lines(dlog') : l.group = job'.seq => l.targets = {Reference(unit'[job'.n].man)}
    BY <1>3, <2>3 DEF PInv, Owned, Retiring, Logged
  <2> QED
    BY <1>3, <2>2, <2>3, <2>4 DEF Owned
<1>8. Washed'
  <2>1. Classified(dlog') => \A l \in Lines(dlog') : l.kind = "snapshot_retention" => l \in Lines(dlog)
    BY DEF Logged, Aside
  <2>2. Classified(dlog') => Classified(dlog)
    BY DEF Logged
  <2>3. Retiring' = Retiring
    BY <1>3 DEF Retiring
  <2> QED
    BY <1>2, <1>3, <2>1, <2>2, <2>3 DEF PInv, Washed
<1>9. OnRecord'
  <2>1. Classified(dlog') => Classified(dlog)
    BY DEF Logged
  <2>2. Retiring' = Retiring /\ Dropping' = Dropping
    BY <1>3 DEF Retiring, Dropping
  <2>3. job'.at = "remove" /\ job'.seq = 0 /\ Classified(dlog') => job'.n \notin Published'
    BY <1>2, <1>3, <2>1 DEF PInv, OnRecord
  <2>4. ASSUME FullLog(dlog')
        PROVE  /\ \A n \in Published' : "artifact" \notin unit'[n].files => Named(dlog', Reference(unit[n].man))
               /\ \A id \in forgotten' : Dropped(dlog', id)
               /\ job'.at = "rewrite" => \A id \in Dropping' : Dropped(dlog', id)
               /\ Retiring' => Named(dlog', Reference(unit[job.n].man))
    <3>1. FullLog(dlog) /\ Lines(dlog) \subseteq Lines(dlog')
      BY <2>4, NamedKept
    <3>2. /\ \A n \in Published : "artifact" \notin unit[n].files => Named(dlog, Reference(unit[n].man))
          /\ \A id \in forgotten : Dropped(dlog, id)
          /\ job.at = "rewrite" => \A id \in Dropping : Dropped(dlog, id)
          /\ Retiring => Named(dlog, Reference(unit[job.n].man))
      BY <3>1 DEF PInv, OnRecord
    <3>3. \A r : Named(dlog, r) => \E l \in Lines(dlog') : l.kind = "snapshot_retention" /\ r \in l.targets
      BY <3>1 DEF Named
    <3>4. \A id : Dropped(dlog, id) => \E l \in Lines(dlog') : l.kind = "ledger_compaction" /\ id \in l.targets
      BY <3>1 DEF Dropped
    <3>5. \A n \in Published' : "artifact" \notin unit'[n].files => Named(dlog', Reference(unit[n].man))
      BY <1>2, <1>3, <3>2, <3>3 DEF Named
    <3>6. (\A id \in forgotten' : Dropped(dlog', id)) /\ (job'.at = "rewrite" => \A id \in Dropping' : Dropped(dlog', id))
      BY <1>3, <2>2, <3>2, <3>4 DEF Dropped
    <3>7. Retiring' => Named(dlog', Reference(unit[job.n].man))
      BY <1>3, <2>2, <3>2, <3>3 DEF Named
    <3> QED
      BY <3>5, <3>6, <3>7
  <2> QED
    BY <2>3, <2>4 DEF OnRecord
<1> QED
  BY <1>2, <1>4, <1>5, <1>7, <1>8, <1>9, <1>10 DEF PInv

\* Whoever opens a group owns it.
OpensGroup(log, new, seq, kind, T) ==
  /\ seq \in Nat /\ seq # 0 /\ Owns(new, seq, kind) /\ Classified(log)
  /\ \A l \in Lines(new) : l.group = seq => l.targets = T
  /\ \E l : Intent(log, l, kind, T) /\ Logged(log, new, {l})

LEMMA Opened ==
  ASSUME LogInv, NEW kind \in Kinds, NEW T \in SUBSET (Refs \union Nat), BeginDestruction(kind, T),
         NEW seq, seq = MaxGroup(dlog) + 1
  PROVE  LogInv' /\ OpensGroup(dlog, dlog', seq, kind, T)
<1> DEFINE l == IntentLine(dlog, kind, T)
<1>1. /\ LogInv' /\ Logged(dlog, dlog', {l}) /\ Intent(dlog, l, kind, T)
      /\ Classified(dlog) /\ MaxGroup(dlog) = Top(dlog) /\ Top(dlog) \in Nat
      /\ dlog' # <<>> /\ Top(dlog') = Top(dlog) + 1
  <2> HIDE DEF l
  <2>1. l = IntentLine(dlog, kind, T)
    BY DEF l
  <2> QED
    BY <2>1, BeginLogged
<1> HIDE DEF l
<1>2. l.group = Top(dlog) + 1 /\ l.kind = kind /\ l.targets = T /\ l.state = "intended"
  BY <1>1 DEF Intent
<1>3. \A k \in Lines(dlog) : k.group # seq
  <2> SUFFICES ASSUME NEW i \in DOMAIN dlog PROVE dlog[i].group # seq
    BY DEF Lines
  <2>1. dlog \in Seq(DLines) /\ Shaped(dlog)
    BY <1>1, ReadableLog DEF LogInv
  <2>2. dlog[i].group <= Top(dlog) /\ dlog[i].group \in Nat
    BY <2>1, TopGroup, LineIn
  <2> QED
    BY <1>1, <2>2
<1>4. Classified(dlog') => Lines(dlog') \subseteq Lines(dlog) \union {l}
  BY <1>1 DEF Logged
<1>5. dlog' = Append(dlog, l) /\ dlog \in Seq(DLines)
  BY <1>1, ReadableLog DEF BeginDestruction, Appended, l, LogInv
<1>6. Lines(dlog') = Lines(dlog) \union {l}
  <2>1. Longer(dlog, l, dlog')
    BY <1>5, AppendedLog
  <2> QED
    BY <2>1 DEF Longer
<1>7. \A k \in Lines(dlog') : k.group = seq => k = l
  BY <1>3, <1>6
<1>8. seq <= Top(dlog') /\ seq \in Nat /\ seq # 0
  BY <1>1
<1>9. Owns(dlog', seq, kind)
  BY <1>2, <1>7, <1>8 DEF Owns
<1>10. \A k \in Lines(dlog') : k.group = seq => k.targets = T
  BY <1>2, <1>7
<1> QED
  BY <1>1, <1>8, <1>9, <1>10 DEF OpensGroup

LEMMA IntentForeign ==
  ASSUME NEW l, NEW kind, NEW T, NEW k, Intent(dlog, l, kind, T), Top(dlog) \in Nat
  PROVE  l \in DLines /\ Foreign(dlog, l, k)
BY DEF Intent, Foreign

LEMMA LogTyped ==
  ASSUME PInv
  PROVE  /\ LogInv /\ LogOK(dlog) /\ SelfOK(dlog, self)
         /\ Classified(dlog) => Top(dlog) \in Nat /\ Writable(dlog)
<1>1. LogInv /\ LogOK(dlog) /\ SelfOK(dlog, self)
  BY DEF PInv, LogInv
<1>2. ASSUME Classified(dlog) PROVE Top(dlog) \in Nat /\ Writable(dlog)
  BY <1>1, <1>2, ReadableLog, ShapedChain DEF Writable
<1> QED
  BY <1>1, <1>2

-----------------------------------------------------------------------------
(* The other goroutine and the compaction of the log itself.               *)

LEMMA OtherOpenStep ==
  ASSUME PInv, OtherOpen
  PROVE  PInv'
<1>1. /\ UNCHANGED <<dlog, self, job, unit, wm, ticks, historyVars, ledger>>
      /\ other' = [at |-> "observe", seq |-> 0] /\ others' = others + 1
      /\ wmTmp' = wmTmp /\ errors' = errors
  BY DEF OtherOpen, dirVars
<1>2. Typed'
  BY <1>1 DEF PInv, Typed, historyVars
<1>3. Logged(dlog, dlog', {})
  BY <1>1, LogTyped, StayLogged
<1>4. LogInv'
  BY <1>1 DEF PInv, LogInv
<1> QED
  BY <1>1, <1>2, <1>3, <1>4, AsideStep

LEMMA OtherObserveStep ==
  ASSUME PInv, OtherObserve
  PROVE  PInv'
<1>1. /\ UNCHANGED <<job, unit, wm, ticks, historyVars, ledger>>
      /\ others' = others /\ wmTmp' = wmTmp /\ errors' = errors
  BY DEF OtherObserve, dirVars, boundVars
<1>2. CASE BeginDestruction("verification_compaction", {others})
           /\ other' = [at |-> "close", seq |-> MaxGroup(dlog) + 1]
  <2> DEFINE seq == MaxGroup(dlog) + 1
  <2>1. {others} \in SUBSET (Refs \union Nat) /\ "verification_compaction" \in Kinds
    BY DEF PInv, Typed, Kinds
  <2> HIDE DEF seq
  <2>8. seq = MaxGroup(dlog) + 1
    BY DEF seq
  <2>9. LogInv' /\ OpensGroup(dlog, dlog', seq, "verification_compaction", {others})
    BY <1>2, <2>1, <2>8, LogTyped, Opened
  <2>2. /\ seq \in Nat /\ Owns(dlog', seq, "verification_compaction") /\ Classified(dlog)
        /\ \E l : Intent(dlog, l, "verification_compaction", {others}) /\ Logged(dlog, dlog', {l})
    BY <2>9 DEF OpensGroup
  <2>3. PICK l : Intent(dlog, l, "verification_compaction", {others}) /\ Logged(dlog, dlog', {l})
    BY <2>2
  <2>4. Aside(l)
    BY <2>2, <2>3, LogTyped, IntentForeign DEF Intent, Aside
  <2>5. other'.at = "close" /\ other'.seq = seq
    BY <1>2 DEF seq
  <2>6. Typed'
    BY <1>1, <1>2, <2>2 DEF PInv, Typed, historyVars, seq
  <2>7. Owns(dlog', other'.seq, "verification_compaction")
    BY <2>2, <2>5
  <2> QED
    BY <1>1, <2>2, <2>3, <2>4, <2>5, <2>6, <2>7, <2>9, AsideStep
<1>3. CASE BeginRefused /\ other' = [at |-> "release", seq |-> 0]
  <2>1. UNCHANGED <<dlog, self>>
    BY <1>3 DEF BeginRefused
  <2>2. Typed'
    BY <1>1, <1>3 DEF PInv, Typed, historyVars
  <2>3. Logged(dlog, dlog', {})
    BY <2>1, LogTyped, StayLogged
  <2>4. LogInv'
    BY <2>1 DEF PInv, LogInv
  <2> QED
    BY <1>1, <1>3, <2>2, <2>3, <2>4, AsideStep
<1> QED
  BY <1>2, <1>3 DEF OtherObserve

LEMMA OtherCloseStep ==
  ASSUME PInv, OtherClose
  PROVE  PInv'
<1>1. /\ UNCHANGED <<job, unit, wm, ticks, historyVars, ledger>>
      /\ others' = others /\ wmTmp' = wmTmp /\ errors' = errors
      /\ other' = [at |-> "release", seq |-> 0] /\ other.at = "close"
  BY DEF OtherClose, OtherAt, dirVars, boundVars
<1>2. Typed'
  BY <1>1 DEF PInv, Typed, historyVars
<1>3. CASE CompleteDestruction("other", other.seq, "completed")
  <2>1. LogInv' /\ \E o, l : Closing(dlog, o, l, other.seq, "completed") /\ Logged(dlog, dlog', {l})
    BY <1>3, LogTyped, CloseLogged
  <2>2. PICK o, l : Closing(dlog, o, l, other.seq, "completed") /\ Logged(dlog, dlog', {l})
    BY <2>1
  <2>3. Classified(dlog)
    BY <1>3 DEF CompleteDestruction, Closable, Writable
  <2>4. o.kind = "verification_compaction"
    BY <1>1, <2>2, <2>3 DEF PInv, Owned, Owns, Closing
  <2>5. Aside(l)
    BY <2>2, <2>4 DEF Closing, Aside, Foreign
  <2> QED
    BY <1>1, <1>2, <2>1, <2>2, <2>5, AsideStep
<1>4. CASE CompleteRefused(other.seq)
  <2>1. UNCHANGED <<dlog, self>>
    BY <1>4 DEF CompleteRefused
  <2>2. Logged(dlog, dlog', {}) /\ LogInv'
    BY <2>1, LogTyped, StayLogged DEF LogInv
  <2> QED
    BY <1>1, <1>2, <2>2, AsideStep
<1> QED
  BY <1>3, <1>4 DEF OtherClose

LEMMA OtherReleaseStep ==
  ASSUME PInv, OtherRelease
  PROVE  PInv'
<1>1. /\ UNCHANGED <<dlog, self, job, unit, wm, ticks, historyVars, ledger>>
      /\ others' = others /\ wmTmp' = wmTmp /\ errors' = errors
      /\ other' = [at |-> "idle", seq |-> 0]
  BY DEF OtherRelease, dirVars, boundVars
<1>2. Typed'
  BY <1>1 DEF PInv, Typed, historyVars
<1>3. Logged(dlog, dlog', {}) /\ LogInv'
  BY <1>1, LogTyped, StayLogged DEF LogInv
<1> QED
  BY <1>1, <1>2, <1>3, AsideStep

LEMMA SelfCompactionStep ==
  ASSUME PInv, SelfCompaction
  PROVE  PInv'
<1>1. /\ UNCHANGED <<job, unit, wm, ticks, historyVars, ledger>>
      /\ others' = others /\ wmTmp' = wmTmp /\ errors' = errors /\ other' = other
  BY DEF SelfCompaction, dirVars, boundVars
<1>2. Typed'
  BY <1>1 DEF PInv, Typed, historyVars
<1>3. /\ LogInv'
      /\ Logged(dlog, dlog', {}) \/ \E l : SelfLine(dlog, l) /\ Logged(dlog, dlog', {l})
  BY LogTyped, SelfIntentLogged, SelfRewriteLogged, SelfCloseLogged DEF SelfCompaction
<1>4. other.seq \in Nat /\ LogInv
  BY LogTyped DEF PInv, Typed
<1>5. CASE Logged(dlog, dlog', {})
  <2>1. other'.at = "close" => Owns(dlog', other'.seq, "verification_compaction")
    <3> SUFFICES ASSUME other.at = "close" PROVE Owns(dlog', other.seq, "verification_compaction")
      BY <1>1
    <3>1. Owns(dlog, other.seq, "verification_compaction")
      BY DEF PInv, Owned
    <3> QED
      BY <1>3, <1>4, <1>5, <3>1, OwnsKept
  <2> QED
    BY <1>1, <1>2, <1>3, <1>5, <2>1, AsideStep
<1>6. CASE \E l : SelfLine(dlog, l) /\ Logged(dlog, dlog', {l})
  <2>1. PICK l : SelfLine(dlog, l) /\ Logged(dlog, dlog', {l})
    BY <1>6
  <2>2. Aside(l) /\ Foreign(dlog, l, "verification_compaction")
    BY <2>1 DEF SelfLine, Aside, Foreign
  <2>3. other'.at = "close" => Owns(dlog', other'.seq, "verification_compaction")
    <3> SUFFICES ASSUME other.at = "close" PROVE Owns(dlog', other.seq, "verification_compaction")
      BY <1>1
    <3>1. Owns(dlog, other.seq, "verification_compaction")
      BY DEF PInv, Owned
    <3> QED
      BY <1>3, <1>4, <2>1, <2>2, <3>1, OwnsKept DEF Aside
  <2> QED
    BY <1>1, <1>2, <1>3, <2>1, <2>2, <2>3, AsideStep
<1> QED
  BY <1>3, <1>5, <1>6

-----------------------------------------------------------------------------
(* The tick, where it leaves the directory alone.                          *)

\* A step of the tick that ends outside the retention.
LEMMA TickFrame ==
  ASSUME PInv, Layout', Honest', Distinct', Rooted', SamePublished, Mentioned' \subseteq Mentioned,
         UNCHANGED <<outside, high, minted, intact>>,
         Typed', LogInv', Marked', Ledgered', NEW A, Logged(dlog, dlog', A),
         \A l \in A : l \in DLines /\ l.kind # "snapshot_retention"
                      /\ Foreign(dlog, l, "verification_compaction"),
         other' = other \/ other'.at # "close", job'.at \notin {"prune_begin", "remove"},
         job'.at \in {"rewrite", "close_ledger"} => Owns(dlog', job'.seq, "ledger_compaction"),
         FullLog(dlog') => \A id \in forgotten' : Dropped(dlog', id),
         job'.at = "rewrite" /\ FullLog(dlog') => \A id \in Dropping' : Dropped(dlog', id)
  PROVE  PInv'
<1>1. Numbered' /\ Traced'
  BY LogStep
<1>2. /\ DiskRefs' = DiskRefs /\ Published' = Published /\ Manifests' = Manifests
      /\ \A n \in Published : unit'[n] = unit[n]
  BY SameManifests DEF SamePublished
<1>3. Planned'
  BY DEF Planned
<1>4. ~ Retiring'
  BY DEF Retiring
<1>5. Owned'
  <2>1. other'.at = "close" => Owns(dlog', other'.seq, "verification_compaction")
    <3> SUFFICES ASSUME other'.at = "close", other' = other PROVE Owns(dlog', other.seq, "verification_compaction")
      OBVIOUS
    <3>1. Owns(dlog, other.seq, "verification_compaction")
      BY DEF PInv, Owned
    <3>2. other.seq \in Nat /\ LogInv
      BY DEF PInv, Typed
    <3> QED
      BY <3>1, <3>2, OwnsKept
  <2> QED
    BY <1>4, <2>1 DEF Owned
<1>6. Washed'
  <2>1. Classified(dlog') => \A l \in Lines(dlog') : l.kind = "snapshot_retention" => l \in Lines(dlog)
    BY DEF Logged
  <2>2. Classified(dlog') => Classified(dlog)
    BY DEF Logged
  <2> QED
    BY <1>2, <1>4, <2>1, <2>2 DEF PInv, Washed
<1>7. OnRecord'
  <2>1. ASSUME FullLog(dlog')
        PROVE  \A n \in Published' : "artifact" \notin unit'[n].files => Named(dlog', Reference(unit'[n].man))
    <3>1. FullLog(dlog) /\ Lines(dlog) \subseteq Lines(dlog')
      BY <2>1, NamedKept
    <3>2. \A n \in Published : "artifact" \notin unit[n].files => Named(dlog, Reference(unit[n].man))
      BY <3>1 DEF PInv, OnRecord
    <3>3. \A r : Named(dlog, r) => Named(dlog', r)
      BY <3>1 DEF Named
    <3> QED
      BY <1>2, <3>2, <3>3
  <2> QED
    BY <1>4, <2>1 DEF OnRecord
<1> QED
  BY <1>1, <1>3, <1>5, <1>6, <1>7 DEF PInv

\* What a compaction of the ledger dropped stays on record.
LEMMA ForgottenKept ==
  ASSUME PInv, NEW A, Logged(dlog, dlog', A), forgotten' = forgotten
  PROVE  FullLog(dlog') => \A id \in forgotten' : Dropped(dlog', id)
<1> SUFFICES ASSUME FullLog(dlog'), NEW id \in forgotten PROVE Dropped(dlog', id)
  OBVIOUS
<1>1. FullLog(dlog) /\ Lines(dlog) \subseteq Lines(dlog')
  BY NamedKept
<1>2. Dropped(dlog, id)
  BY <1>1 DEF PInv, OnRecord
<1> QED
  BY <1>1, <1>2 DEF Dropped

LEMMA TickLogStep ==
  ASSUME PInv, Eased, Ticking, UNCHANGED <<unit, historyVars, ledger>>,
         Typed', LogInv', Marked', Ledgered', NEW A, Logged(dlog, dlog', A),
         \A l \in A : l \in DLines /\ l.kind # "snapshot_retention"
                      /\ Foreign(dlog, l, "verification_compaction"),
         other' = other \/ other'.at # "close", job'.at \notin {"prune_begin", "remove"},
         job'.at \in {"rewrite", "close_ledger"} => Owns(dlog', job'.seq, "ledger_compaction"),
         job'.at = "rewrite" /\ FullLog(dlog') => \A id \in Dropping : Dropped(dlog', id)
  PROVE  PInv'
<1>1. SamePublished /\ Manifests' = Manifests
  BY SameUnits, SameManifests
<1>2. Mans' \subseteq Mans /\ Written' = Written /\ Dropping' = Dropping
  BY <1>1, MansShrink DEF Written, Lines, Dropping
<1>3. Layout' /\ Honest'
  BY Easing DEF PInv
<1>4. Mentioned' \subseteq Mentioned /\ Rooted'
  BY <1>2, MentionedShrinks DEF PInv, Rooted
<1>5. Distinct'
  BY DEF PInv, Distinct, historyVars
<1>6. FullLog(dlog') => \A id \in forgotten' : Dropped(dlog', id)
  BY ForgottenKept DEF historyVars
<1> QED
  BY <1>1, <1>2, <1>3, <1>4, <1>5, <1>6, TickFrame DEF historyVars

\* The job as it is, but at another place.
LEMMA GotoJob ==
  ASSUME Typed, NEW place \in Early \union {"link"} \union Recording \union Late, Goto(place)
  PROVE  /\ job' \in Jobs /\ job'.at = place /\ job'.n = job.n /\ job'.id = job.id /\ job'.prev = job.prev
         /\ job'.entry = job.entry /\ job'.next = job.next /\ job'.seq = job.seq /\ job'.plan = job.plan
         /\ job'.todo = job.todo /\ job'.failed = job.failed
BY DEF Typed, Goto, Jobs

\* Recording goes on, or comes to an end.
LEMMA RecordingOn ==
  ASSUME Typed, job.at \in Recording, job' \in Jobs, job'.at \in Recording \union {job.next},
         job'.n = job.n, job'.id = job.id, job'.prev = job.prev, job'.entry = job.entry, job'.next = job.next
  PROVE  Eased /\ job'.at \notin {"prune_begin", "remove"} /\ job'.at \notin Early
<1>1. job.next \in {"link", "prune"}
  BY DEF Typed
<1>2. job'.at \notin Early /\ job'.at \notin {"prune_begin", "remove"}
  BY <1>1 DEF Recording, Early
<1>3. Chosen' => Chosen
  BY <1>1 DEF Chosen, Recording
<1> QED
  BY <1>1, <1>2, <1>3 DEF Eased

LEMMA TickingStays ==
  ASSUME Typed, ticks' = ticks
  PROVE  Ticking
BY DEF Typed, Ticking

LEMMA RecordingLedgered ==
  ASSUME PInv, job.at \in Recording \ {"append"}, UNCHANGED <<unit, ledger>>
  PROVE  Ledgered'
BY DEF PInv, Ledgered

LEMMA LedgerObserveStep ==
  ASSUME PInv, LedgerObserve
  PROVE  PInv'
<1> USE DEF Recording
<1>1. /\ UNCHANGED <<unit, wm, wmTmp, ticks, historyVars, ledger, other, others>>
      /\ job.at = "observe"
  BY DEF LedgerObserve, TickAt, dirVars
<1>2. Typed /\ LogInv /\ Marked /\ Ledgered'
  BY <1>1, RecordingLedgered DEF PInv
<1>3. job.next \in {"link", "prune"} /\ job.at \in Recording
  BY <1>1, <1>2 DEF Typed
<1>4. Ticking
  BY <1>1, <1>2, TickingStays
<1>5. ASSUME Goto(job.next), errors' \in Nat, LogInv', Logged(dlog, dlog', {})
      PROVE  PInv'
  <2>1. job.next \in Early \union {"link"} \union Recording \union Late
    BY <1>3 DEF Late
  <2>2. /\ job' \in Jobs /\ job'.at = job.next /\ job'.n = job.n /\ job'.id = job.id /\ job'.prev = job.prev
        /\ job'.entry = job.entry /\ job'.next = job.next
    BY <1>2, <1>5, <2>1, GotoJob
  <2>3. Eased
    BY <1>2, <1>3, <2>2, RecordingOn
  <2>4. Typed'
    BY <1>1, <1>2, <1>5, <2>2, <1>3 DEF Typed, historyVars
  <2>5. Marked'
    BY <1>1, <1>2, <1>3, <2>2, <2>3, MarkedEasing DEF historyVars, Early
  <2>6. job'.at \notin {"prune_begin", "remove", "rewrite", "close_ledger"}
    BY <1>3, <2>2
  <2> QED
    BY <1>1, <1>2, <1>4, <1>5, <2>3, <2>4, <2>5, <2>6, TickLogStep
<1>6. CASE /\ BeginDestruction("ledger_compaction", Dropping)
           /\ job' = [job EXCEPT !.at = "rewrite", !.seq = MaxGroup(dlog) + 1]
           /\ UNCHANGED <<windowMu, errors>>
  <2> DEFINE seq == MaxGroup(dlog) + 1
  <2>1. Dropping \in SUBSET (Refs \union Nat) /\ "ledger_compaction" \in Kinds
    <3>1. ledger \in Seq(EntryLines \union {Torn})
      BY <1>2 DEF Typed
    <3>2. \A i \in DOMAIN ledger : ledger[i].group \in Nat
      BY <3>1 DEF EntryLines, Torn
    <3> QED
      BY <3>2 DEF Dropping, DroppedGroups, Groups, Kinds
  <2>2. seq = MaxGroup(dlog) + 1
    OBVIOUS
  <2> HIDE DEF seq
  <2>3. LogInv' /\ OpensGroup(dlog, dlog', seq, "ledger_compaction", Dropping)
    BY <1>2, <1>6, <2>1, <2>2, Opened
  <2>4. seq \in Nat /\ Owns(dlog', seq, "ledger_compaction") /\ Classified(dlog)
    BY <2>3 DEF OpensGroup
  <2>5. PICK l : Intent(dlog, l, "ledger_compaction", Dropping) /\ Logged(dlog, dlog', {l})
    BY <2>3 DEF OpensGroup
  <2>6. /\ job' \in Jobs /\ job'.at = "rewrite" /\ job'.n = job.n /\ job'.id = job.id /\ job'.prev = job.prev
        /\ job'.entry = job.entry /\ job'.next = job.next /\ job'.seq = seq
    BY <1>2, <1>6, <2>2, <2>4 DEF Typed, Jobs
  <2>7. Eased
    BY <1>2, <1>3, <2>6, RecordingOn
  <2>8. Typed'
    BY <1>1, <1>2, <1>3, <1>6, <2>6 DEF Typed, historyVars
  <2>9. Marked'
    BY <1>1, <1>2, <2>6, <2>7, MarkedEasing DEF historyVars, Early
  <2>10. l \in DLines /\ l.kind # "snapshot_retention" /\ Foreign(dlog, l, "verification_compaction")
    BY <2>4, <2>5, LogTyped, IntentForeign DEF Intent
  <2>11. FullLog(dlog') => \A id \in Dropping : Dropped(dlog', id)
    <3> SUFFICES ASSUME FullLog(dlog'), NEW id \in Dropping PROVE Dropped(dlog', id)
      OBVIOUS
    <3>1. l \in Lines(dlog')
      BY <2>5, NamedKept
    <3> QED
      BY <2>5, <3>1 DEF Intent, Dropped
  <2> QED
    BY <1>1, <1>2, <1>4, <2>3, <2>4, <2>5, <2>6, <2>7, <2>8, <2>9, <2>10, <2>11, TickLogStep
<1>7. CASE BeginRefused /\ Goto(job.next) /\ UNCHANGED errors
  <2>1. Logged(dlog, dlog', {}) /\ LogInv'
    BY <1>2, <1>7, StayLogged DEF BeginRefused, LogInv
  <2> QED
    BY <1>2, <1>5, <1>7, <2>1 DEF Typed
<1>8. CASE BeginTorn /\ Goto(job.next) /\ errors' = errors + 1
  BY <1>2, <1>5, <1>8, TornLogged DEF Typed
<1> QED
  BY <1>6, <1>7, <1>8 DEF LedgerObserve

LEMMA LedgerCloseStep ==
  ASSUME PInv, LedgerClose
  PROVE  PInv'
<1>1. /\ UNCHANGED <<unit, wm, wmTmp, ticks, historyVars, ledger, other, others, errors>>
      /\ job.at = "close_ledger" /\ Goto("release")
  BY DEF LedgerClose, TickAt, dirVars, boundVars
<1>2. Typed /\ LogInv /\ Marked /\ Ledgered'
  BY <1>1, RecordingLedgered DEF PInv, Recording
<1>3. job.at \in Recording /\ Ticking
  BY <1>1, <1>2, TickingStays DEF Recording
<1>4. /\ job' \in Jobs /\ job'.at = "release" /\ job'.n = job.n /\ job'.id = job.id /\ job'.prev = job.prev
      /\ job'.entry = job.entry /\ job'.next = job.next
  BY <1>1, <1>2, GotoJob DEF Recording
<1>5. Eased
  BY <1>2, <1>3, <1>4, RecordingOn DEF Recording
<1>6. Typed'
  BY <1>1, <1>2, <1>3, <1>4 DEF Typed, historyVars
<1>7. Marked'
  BY <1>1, <1>2, <1>3, <1>4, <1>5, MarkedEasing DEF historyVars, Early
<1>8. CASE CompleteDestruction("tick", job.seq, "completed")
  <2>1. LogInv' /\ \E o, l : Closing(dlog, o, l, job.seq, "completed") /\ Logged(dlog, dlog', {l})
    BY <1>2, <1>8, CloseLogged
  <2>2. PICK o, l : Closing(dlog, o, l, job.seq, "completed") /\ Logged(dlog, dlog', {l})
    BY <2>1
  <2>3. Classified(dlog)
    BY <1>8 DEF CompleteDestruction, Closable, Writable
  <2>4. o.kind = "ledger_compaction"
    BY <1>1, <2>2, <2>3 DEF PInv, Owned, Owns, Closing
  <2>5. l \in DLines /\ l.kind # "snapshot_retention" /\ Foreign(dlog, l, "verification_compaction")
    BY <2>2, <2>4 DEF Closing, Foreign
  <2> QED
    BY <1>1, <1>2, <1>3, <1>4, <1>5, <1>6, <1>7, <2>1, <2>2, <2>5, TickLogStep
<1>9. CASE CompleteRefused(job.seq)
  <2>1. UNCHANGED <<dlog, self>>
    BY <1>9 DEF CompleteRefused
  <2>2. Logged(dlog, dlog', {}) /\ LogInv'
    BY <1>2, <2>1, StayLogged DEF LogInv
  <2> QED
    BY <1>1, <1>2, <1>3, <1>4, <1>5, <1>6, <1>7, <2>2, TickLogStep
<1> QED
  BY <1>8, <1>9 DEF LedgerClose

LEMMA LedgerReleaseStep ==
  ASSUME PInv, LedgerRelease
  PROVE  PInv'
<1>1. /\ UNCHANGED <<dlog, self, unit, wm, wmTmp, ticks, historyVars, ledger, other, others, errors>>
      /\ job.at = "release" /\ Goto(job.next)
  BY DEF LedgerRelease, TickAt, dirVars, boundVars
<1>2. Typed /\ LogInv /\ Marked /\ Ledgered'
  BY <1>1, RecordingLedgered DEF PInv, Recording
<1>3. job.at \in Recording /\ Ticking /\ job.next \in {"link", "prune"}
  BY <1>1, <1>2, TickingStays DEF Recording, Typed
<1>4. /\ job' \in Jobs /\ job'.at = job.next /\ job'.n = job.n /\ job'.id = job.id /\ job'.prev = job.prev
      /\ job'.entry = job.entry /\ job'.next = job.next
  BY <1>1, <1>2, <1>3, GotoJob DEF Late
<1>5. Eased
  BY <1>2, <1>3, <1>4, RecordingOn DEF Recording
<1>6. Typed'
  BY <1>1, <1>2, <1>3, <1>4 DEF Typed, historyVars
<1>7. Marked'
  BY <1>1, <1>2, <1>3, <1>4, <1>5, MarkedEasing DEF historyVars, Early
<1>8. Logged(dlog, dlog', {}) /\ LogInv'
  BY <1>1, <1>2, StayLogged DEF LogInv
<1>9. job'.at \notin {"prune_begin", "remove", "rewrite", "close_ledger"}
  BY <1>3, <1>4
<1> QED
  BY <1>1, <1>2, <1>3, <1>5, <1>6, <1>7, <1>8, <1>9, TickLogStep

LEMMA TickSkippedStep ==
  ASSUME PInv, TickSkipped
  PROVE  PInv'
<1>1. /\ UNCHANGED <<dlog, self, unit, wm, wmTmp, historyVars, ledger, job, other, others, errors>>
      /\ job.at = "idle" /\ ticks' = ticks + 1 /\ ticks < MaxTicks
  BY DEF TickSkipped, TickAt, dirVars
<1>2. Typed /\ LogInv /\ Marked /\ Ledgered /\ MaxTicks \in Nat
  BY ExportConstants DEF PInv
<1>3. job' = job /\ job'.at \in Late /\ ~ Making' /\ ~ Chosen'
  BY <1>1 DEF Late, Making, Chosen, Early, Recording
<1>4. Ticking
  BY <1>1, <1>2, <1>3 DEF Typed, Ticking
<1>5. Eased
  BY <1>2, <1>3, PlaceFacts DEF Eased, Typed
<1>6. Typed'
  BY <1>1, <1>2 DEF Typed, historyVars
<1>7. Marked'
  <2>1. wm' <= ticks'
    BY <1>1, <1>2 DEF Marked, Typed, Missing
  <2>2. intact' => wm' >= high'
    BY <1>1, <1>2 DEF Marked, historyVars
  <2> QED
    BY <1>1, <1>3, <2>1, <2>2 DEF Marked
<1>8. Logged(dlog, dlog', {}) /\ LogInv'
  BY <1>1, <1>2, StayLogged DEF LogInv
<1>9. Ledgered'
  BY <1>1, <1>2 DEF Ledgered, Manifests, Published
<1> QED
  BY <1>1, <1>4, <1>5, <1>6, <1>7, <1>8, <1>9, TickLogStep

\* The tick gives up what it was doing.
LEMMA GivenUp ==
  ASSUME PInv, job' \in Jobs, job'.at \in {"idle", "prune"},
         UNCHANGED <<dlog, self, unit, wm, ticks, historyVars, ledger, other, others>>,
         wmTmp' \in BOOLEAN, errors' \in Nat
  PROVE  PInv'
<1>1. Typed /\ LogInv /\ Marked /\ Ledgered /\ Ticking
  BY TickingStays DEF PInv
<1>2. job'.at \in Late /\ ~ Making' /\ ~ Chosen'
  BY DEF Late, Making, Chosen, Early, Recording
<1>3. Eased
  BY <1>2, PlaceFacts DEF Eased
<1>4. Typed'
  BY <1>1, <1>2, PlaceFacts DEF Typed, historyVars
<1>5. Marked'
  BY <1>1, <1>2, <1>3, MarkedEasing, PlaceFacts DEF historyVars
<1>6. Ledgered'
  BY <1>1, <1>2, PlaceFacts DEF Ledgered, Manifests, Published
<1>7. Logged(dlog, dlog', {}) /\ LogInv'
  BY <1>1, StayLogged DEF LogInv
<1> QED
  BY <1>1, <1>3, <1>4, <1>5, <1>6, <1>7, TickLogStep

LEMMA CrashStep ==
  ASSUME PInv, Crash
  PROVE  PInv'
<1>1. /\ UNCHANGED <<dlog, wmTmp, unit, ledger, ticks, others, historyVars>>
      /\ errors' = errors + 1 /\ self' = NoSelf /\ job' = NoJob
      /\ other' = [at |-> "idle", seq |-> 0]
      /\ wm' = IF wm = Missing /\ Published = {} THEN 0 ELSE wm
  BY DEF Crash, DCrash
<1>2. Typed /\ LogInv /\ Marked /\ Ledgered /\ Ticking
  BY <1>1, TickingStays DEF PInv
<1>3. job' \in Jobs /\ job'.at = "idle" /\ job'.at \in Late
  BY <1>1, IdleJob DEF Late
<1>4. ~ Making' /\ ~ Chosen'
  BY <1>3 DEF Making, Chosen, Early, Recording
<1>5. Eased
  BY <1>3, <1>4, PlaceFacts DEF Eased
<1>6. Typed'
  <2>1. wm' \in Nat \union {Missing} /\ errors' \in Nat
    BY <1>1, <1>2 DEF Typed
  <2> QED
    BY <1>1, <1>2, <1>3, <2>1, PlaceFacts DEF Typed, historyVars
<1>7. Marked'
  <2>1. wm' <= ticks'
    BY <1>1, <1>2 DEF Marked, Typed
  <2>2. intact' => wm' >= high'
    BY <1>1, <1>2 DEF Marked, historyVars, Typed, Missing
  <2> QED
    BY <1>3, <1>4, <2>1, <2>2 DEF Marked
<1>8. Ledgered'
  BY <1>1, <1>2, <1>3, PlaceFacts DEF Ledgered, Manifests, Published
<1>9. Logged(dlog, dlog', {}) /\ LogInv'
  BY <1>1, <1>2, StayLogged DEF LogInv, SelfOK, NoSelf, Selves
<1> QED
  BY <1>1, <1>2, <1>3, <1>5, <1>6, <1>7, <1>8, <1>9, TickLogStep

LEMMA AllocateWriteStep ==
  ASSUME PInv, AllocateWrite
  PROVE  PInv'
<1>1. /\ UNCHANGED <<dlog, self, wm, unit, ledger, other, ticks, others, errors, historyVars>>
      /\ job.at = "allocate"
  BY DEF AllocateWrite, TickAt, boundVars
<1>2. Typed /\ LogInv /\ Marked /\ Ledgered /\ Ticking
  BY <1>1, TickingStays DEF PInv
<1>3. CASE Goto("prune") /\ UNCHANGED wmTmp
  <2>1. job' \in Jobs /\ job'.at = "prune"
    BY <1>2, <1>3, GotoJob DEF Late
  <2> QED
    BY <1>1, <1>2, <1>3, <2>1, GivenUp DEF Typed
<1>4. CASE job' = [job EXCEPT !.at = "commit", !.id = wm + 1] /\ wmTmp' = TRUE /\ wm # Missing
  <2>1. wm \in Nat
    BY <1>2, <1>4 DEF Typed
  <2>2. /\ job' \in Jobs /\ job'.at = "commit" /\ job'.id = wm + 1 /\ job'.n = job.n
        /\ job'.prev = job.prev
    <3> DEFINE w == wm + 1
               place == "commit"
    <3>1. w \in Nat /\ place \in Early
      BY <2>1 DEF Early
    <3>2. job' = [job EXCEPT !.at = place, !.id = w]
      BY <1>4
    <3> HIDE DEF w, place
    <3>3. job' \in Jobs /\ job'.at = place /\ job'.id = w /\ job'.n = job.n /\ job'.prev = job.prev
      BY <1>2, <3>1, <3>2 DEF Typed, Jobs
    <3> QED
      BY <3>3 DEF w, place
  <2>3. ~ Chosen' /\ Making' /\ Making
    BY <1>1, <2>2 DEF Chosen, Making, Early, Recording
  <2>4. Eased
    BY <1>1, <2>2, <2>3 DEF Eased, Recording, Early
  <2>5. Typed'
    BY <1>1, <1>2, <1>4, <2>2 DEF Typed, historyVars, Recording
  <2>6. Marked'
    <3>1. wm < ticks /\ ticks \in Nat
      BY <1>1, <1>2 DEF Marked, Typed
    <3>2. 1 <= wm + 1 /\ wm + 1 <= ticks
      BY <2>1, <3>1
    <3>3. intact' => wm' >= high'
      BY <1>1, <1>2 DEF Marked, historyVars
    <3>4. wm' <= ticks'
      BY <1>1, <1>2 DEF Marked
    <3> QED
      BY <1>1, <2>2, <3>2, <3>3, <3>4 DEF Marked
  <2>7. Ledgered'
    BY <1>1, <1>2, <2>2 DEF Ledgered, Manifests, Published, Recording
  <2>8. Logged(dlog, dlog', {}) /\ LogInv'
    BY <1>1, <1>2, StayLogged DEF LogInv
  <2> QED
    BY <1>1, <1>2, <2>2, <2>4, <2>5, <2>6, <2>7, <2>8, TickLogStep
<1> QED
  BY <1>3, <1>4 DEF AllocateWrite

LEMMA AllocateCommitStep ==
  ASSUME PInv, AllocateCommit
  PROVE  PInv'
<1>1. /\ UNCHANGED <<dlog, self, unit, ledger, other, ticks, others, errors, historyVars>>
      /\ job.at = "commit" /\ wm' = job.id /\ wmTmp' = FALSE /\ Goto("chain")
  BY DEF AllocateCommit, TickAt, boundVars
<1>2. Typed /\ LogInv /\ Marked /\ Ledgered /\ Ticking
  BY <1>1, TickingStays DEF PInv
<1>3. job' \in Jobs /\ job'.at = "chain" /\ job'.id = job.id /\ job'.n = job.n /\ job'.prev = job.prev
  BY <1>1, <1>2, GotoJob DEF Early
<1>4. ~ Chosen' /\ Making' /\ Making /\ job.id \in Nat
  BY <1>1, <1>2, <1>3, JobParts DEF Chosen, Making, Early, Recording
<1>5. Eased
  BY <1>1, <1>3, <1>4 DEF Eased, Recording, Early
<1>6. Typed'
  BY <1>1, <1>2, <1>3, <1>4 DEF Typed, historyVars, Recording
<1>7. Marked'
  <2>1. 1 <= job.id /\ job.id <= ticks /\ (intact => job.id = wm + 1 /\ wm >= high)
    BY <1>1, <1>2, <1>4 DEF Marked
  <2>2. intact => job.id >= high /\ high < job.id
    BY <1>2, <1>4, <2>1 DEF Typed, Missing
  <2>3. intact' = intact /\ high' = high /\ ticks' = ticks
    BY <1>1 DEF historyVars
  <2> QED
    BY <1>1, <1>3, <2>1, <2>2, <2>3 DEF Marked
<1>8. Ledgered'
  BY <1>1, <1>2, <1>3 DEF Ledgered, Manifests, Published, Recording
<1>9. Logged(dlog, dlog', {}) /\ LogInv'
  BY <1>1, <1>2, StayLogged DEF LogInv
<1> QED
  BY <1>1, <1>2, <1>3, <1>5, <1>6, <1>7, <1>8, <1>9, TickLogStep

-----------------------------------------------------------------------------
(* The new manifest and its predecessor.                                   *)

\* The newest of some manifests is one of them, and no other is newer.
LEMMA Maximal ==
  ASSUME NEW S, S \in SUBSET ManRecords, S # {}, NEW b \in Nat, \A m \in S : m.id <= b
  PROVE  Newest(S) \in S /\ \A n \in S : n.id <= Newest(S).id
<1> DEFINE T == {b - m.id : m \in S}
<1>1. \A m \in S : m.id \in Nat /\ m.id <= b /\ b - m.id \in Nat
  BY DEF ManRecords
<1>2. T \in SUBSET Nat /\ T # {}
  BY <1>1
<1>3. PICK x \in T : \A y \in T : x <= y
  BY <1>2, Least
<1>4. PICK m \in S : x = b - m.id
  BY <1>3
<1>5. \A n \in S : n.id <= m.id
  <2> SUFFICES ASSUME NEW n \in S PROVE n.id <= m.id
    OBVIOUS
  <2>1. x <= b - n.id
    BY <1>3
  <2> QED
    BY <1>1, <1>4, <2>1
<1> DEFINE Top0(n) == \A k \in S : k.id <= n.id
<1>6. Top0(m) /\ m \in S
  BY <1>4, <1>5
<1>7. Newest(S) = CHOOSE n \in S : Top0(n)
  BY DEF Newest
<1> HIDE DEF Top0
<1>8. Newest(S) \in S /\ Top0(Newest(S))
  BY <1>6, <1>7, Zenon
<1> QED
  BY <1>8 DEF Top0

\* What is known of the manifests on disk.
LEMMA DiskFacts ==
  ASSUME PInv
  PROVE  /\ Manifests \in SUBSET ManRecords
         /\ \A m \in Manifests : /\ Reference(m) \in AllRefs /\ m.id \in Nat /\ 1 <= m.id /\ m.id <= high
                                 /\ 1 <= m.digest /\ m.digest <= minted
<1>1. Manifests \in SUBSET ManRecords /\ Manifests \subseteq Mans
  BY MansTyped DEF PInv
<1>2. ASSUME NEW m \in Manifests
      PROVE  /\ Reference(m) \in AllRefs /\ m.id \in Nat /\ 1 <= m.id /\ m.id <= high
             /\ 1 <= m.digest /\ m.digest <= minted
  <2>1. Reference(m) \in AllRefs
    BY <1>1 DEF AllRefs, Mentioned
  <2>2. Reference(m).id = m.id /\ Reference(m).digest = m.digest /\ m.id \in Nat
    BY <1>1, RefFacts DEF ManRecords
  <2> QED
    BY <2>1, <2>2 DEF PInv, Numbered
<1> QED
  BY <1>1, <1>2

\* The predecessor is chosen.
LEMMA ChosenStep ==
  ASSUME PInv, job.at = "chain", job' \in Jobs, job'.at \in {"link", "append"}, Chosen', job'.n = job.n, job'.id = job.id,
         UNCHANGED <<dlog, self, unit, wm, wmTmp, ledger, other, ticks, others, errors, historyVars>>,
         Mans' = Manifests, \A m \in Manifests : m.id < job.id,
         job'.at = "link" => Manifests = {} /\ job'.prev = NoManifest,
         job'.at = "append" => /\ job'.next = "link" /\ job'.prev \in Manifests /\ job'.entry = job'.prev
                               /\ \A p \in Manifests : p.id <= job'.prev.id
  PROVE  PInv'
<1>1. Typed /\ LogInv /\ Marked /\ Ledgered /\ Layout /\ Honest
  BY DEF PInv
<1>2. SamePublished /\ Manifests' = Manifests /\ Published' = Published /\ Written' = Written
  BY SameUnits, SameManifests DEF SamePublished, Written, Lines
<1>3. Mans' \subseteq Mans
  BY <1>1, MansTyped
<1>4. Mentioned' \subseteq Mentioned /\ Rooted'
  BY <1>2, <1>3, MentionedShrinks DEF PInv, Rooted
<1>5. Making /\ Making' /\ job'.at \notin Early /\ job.at \in Early
  BY DEF Making, Early
<1>6. /\ outside' = outside /\ high' = high /\ minted' = minted /\ intact' = intact /\ meddled' = meddled
      /\ forgotten' = forgotten
  BY DEF historyVars
<1>7. Layout'
  <2>1. \A n \in Published : unit[n].man.id < job.id
    BY DEF Manifests
  <2> QED
    BY <1>1, <1>2, <1>5, <2>1 DEF Layout
<1>8. Honest'
  <2> SUFFICES ASSUME meddled = 0 PROVE intact' /\ outside' = {} /\ Chained'
    BY <1>6 DEF Honest
  <2>1. intact /\ outside = {} /\ Chained
    BY <1>1 DEF Honest
  <2>2. job'.at \in Recording => job'.entry.id = high
    <3> SUFFICES ASSUME job'.at = "append" PROVE job'.entry.id = high
      BY DEF Recording
    <3>1. PICK m \in Manifests : m.id = high
      BY <2>1 DEF Chained
    <3>2. m.id <= job'.prev.id /\ job'.prev.id <= high /\ job'.prev.id \in Nat
      BY DiskFacts
    <3> QED
      BY <1>1, <3>1, <3>2 DEF Typed
  <2>3. \/ Manifests' = {} /\ job'.prev = NoManifest
        \/ job'.prev \in Manifests' /\ \A p \in Manifests' : p.id <= job'.prev.id
    BY <1>2
  <2>4. /\ \A m \in Mans' : m.ok /\ m.prev < m.id
        /\ \A l \in Written' : l.prev < l.group
        /\ Classified(ledger') => Ascending(ledger')
    BY <1>2, <1>3, <2>1 DEF Chained
  <2>5. /\ \A m, p \in Manifests' : p.id < m.id =>
             \E q \in Manifests' : Reference(q) = PrevRef(m) /\ p.id <= q.id
        /\ Manifests' # {} => \E m \in Manifests' : m.id = high'
    BY <1>2, <1>6, <2>1 DEF Chained
  <2> QED
    BY <1>6, <2>1, <2>2, <2>3, <2>4, <2>5 DEF Chained
<1>9. Distinct'
  BY <1>6 DEF PInv, Distinct
<1>10. Typed'
  <2>1. job'.at \in Recording => job'.next \in {"link", "prune"}
    BY DEF Recording
  <2> QED
    BY <1>1, <1>6, <2>1 DEF Typed
<1>11. Marked'
  <2>1. /\ 1 <= job.id /\ job.id <= ticks /\ wm <= ticks
        /\ intact => wm >= high /\ job.id = wm /\ high < job.id
    BY <1>1, <1>5 DEF Marked
  <2> QED
    BY <1>6, <2>1 DEF Marked
<1>12. Ledgered'
  <2>1. job'.at \notin Recording \ {"append"}
    BY DEF Recording
  <2>2. ~ (job'.at = "link" /\ job'.prev # NoManifest)
    OBVIOUS
  <2> QED
    BY <1>1, <1>2, <2>1, <2>2 DEF Ledgered
<1>13. Logged(dlog, dlog', {}) /\ LogInv'
  BY <1>1, StayLogged DEF LogInv
<1>14. FullLog(dlog') => \A id \in forgotten' : Dropped(dlog', id)
  BY <1>6, <1>13, ForgottenKept
<1> QED
  BY <1>2, <1>4, <1>6, <1>7, <1>8, <1>9, <1>10, <1>11, <1>12, <1>13, <1>14, TickFrame

LEMMA ExtendChainStep ==
  ASSUME PInv, ExtendChain
  PROVE  PInv'
<1>1. /\ UNCHANGED <<dlog, self, unit, wm, wmTmp, ledger, other, ticks, others, errors, historyVars>>
      /\ job.at = "chain"
  BY DEF ExtendChain, TickAt, boundVars, dirVars
<1>2. Typed /\ Layout
  BY DEF PInv
<1>3. Manifests' = Manifests
  BY <1>1, SameUnits, SameManifests
<1>4. CASE PredecessorRefused(Manifests, job.id)
  <2>1. Goto("prune")
    BY <1>4 DEF ExtendChain, Goto
  <2>2. job' \in Jobs /\ job'.at = "prune"
    BY <1>2, <2>1, GotoJob DEF Late
  <2> QED
    BY <1>1, <1>2, <2>2, GivenUp DEF Typed
<1>5. CASE ~ PredecessorRefused(Manifests, job.id)
  <2>1. \A m \in Manifests : m.id < job.id
    BY <1>2, <1>5, DiskFacts, JobParts DEF PredecessorRefused
  <2>2. CASE Manifests = {}
    <3>1. Goto("link")
      BY <1>5, <2>2 DEF ExtendChain, Goto
    <3>2. job' \in Jobs /\ job'.at = "link" /\ job'.n = job.n /\ job'.id = job.id /\ job'.prev = job.prev
      BY <1>2, <3>1, GotoJob
    <3>3. job.prev = NoManifest
      BY <1>1, <1>2 DEF Layout, Early
    <3>4. Chosen' /\ Mans' = Manifests
      BY <1>3, <3>2, <3>3 DEF Chosen, Mans, Recording
    <3> QED
      BY <1>1, <2>1, <2>2, <3>2, <3>3, <3>4, ChosenStep
  <2>3. CASE Manifests # {}
    <3> DEFINE p == Newest(Manifests)
               place == "append"
    <3>1. job' = [job EXCEPT !.at = place, !.next = "link", !.prev = p, !.entry = p]
      BY <1>5, <2>3 DEF ExtendChain
    <3>2. p \in Manifests /\ \A n \in Manifests : n.id <= p.id
      BY <1>2, <2>3, DiskFacts, Maximal DEF Typed
    <3>3. p \in ManRecords
      BY <3>2, DiskFacts
    <3>4. place \in Recording
      BY DEF Recording
    <3> HIDE DEF p
    <3>5. /\ job' \in Jobs /\ job'.at = "append" /\ job'.n = job.n /\ job'.id = job.id /\ job'.prev = p
          /\ job'.entry = p /\ job'.next = "link"
      <4> HIDE DEF place
      <4>1. /\ job' \in Jobs /\ job'.at = place /\ job'.n = job.n /\ job'.id = job.id /\ job'.prev = p
            /\ job'.entry = p /\ job'.next = "link"
        BY <1>2, <3>1, <3>3, <3>4 DEF Typed, Jobs
      <4> QED
        BY <4>1 DEF place
    <3>6. Chosen' /\ Mans' = Manifests
      BY <1>3, <3>2, <3>5 DEF Chosen, Mans, Recording
    <3> QED
      BY <1>1, <2>1, <3>2, <3>5, <3>6, ChosenStep
  <2> QED
    BY <2>2, <2>3
<1> QED
  BY <1>4, <1>5

\* The manifest m appears in the snapshot n.
Linked(n, m) ==
  /\ n \in Snapshots /\ n \notin Published /\ Published' = Published \union {n}
  /\ unit'[n] = [files |-> {"artifact", "manifest"}, man |-> m]
  /\ \A k \in Snapshots : k # n => unit'[k] = unit[k]
  /\ m \in ManRecords /\ Manifests' = Manifests \union {m}
  /\ DiskRefs' = DiskRefs \union {Reference(m)}

LEMMA LinkedUnits ==
  ASSUME Typed, NEW n \in Snapshots, unit[n].files = {"artifact"}, NEW m \in ManRecords,
         unit' = [unit EXCEPT ![n] = [files |-> @.files \cup {"manifest"}, man |-> m]]
  PROVE  Linked(n, m) /\ unit' \in [Snapshots -> Units]
<1>1. unit \in [Snapshots -> Units]
  BY DEF Typed
<1>2. unit'[n] = [files |-> {"artifact", "manifest"}, man |-> m] /\ \A k \in Snapshots : k # n => unit'[k] = unit[k]
  BY <1>1
<1>3. unit' \in [Snapshots -> Units]
  <2>1. [files |-> unit[n].files \cup {"manifest"}, man |-> m] \in Units
    BY DEF Units, Files
  <2> QED
    BY <1>1, <2>1
<1>4. n \notin Published /\ Published' = Published \union {n}
  BY <1>2 DEF Published
<1>5. Manifests' = Manifests \union {m} /\ DiskRefs' = DiskRefs \union {Reference(m)}
  <2>1. unit'[n].man = m /\ \A k \in Published : unit'[k] = unit[k]
    BY <1>2, <1>4 DEF Published
  <2>2. Manifests' = {unit'[k].man : k \in Published'} /\ DiskRefs' = {Reference(unit'[k].man) : k \in Published'}
    BY DEF Manifests, DiskRefs
  <2> QED
    BY <1>4, <2>1, <2>2 DEF Manifests, DiskRefs
<1> QED
  BY <1>2, <1>3, <1>4, <1>5 DEF Linked

\* The manifest that is made: a fresh digest, and what it commits to is known.
LEMMA NewManifestFacts ==
  ASSUME PInv, job.at = "link"
  PROVE  /\ NewManifest \in ManRecords /\ NewManifest.id = job.id /\ NewManifest.digest = minted + 1
         /\ NewManifest.prev = job.prev.id /\ NewManifest.prevd = job.prev.digest /\ NewManifest.ok = TRUE
         /\ Reference(NewManifest).id = job.id /\ Reference(NewManifest).digest = minted + 1
         /\ Reference(NewManifest) \in Refs /\ PrevRef(NewManifest) = Reference(job.prev)
         /\ job.prev # NoManifest => job.prev.id # 0 /\ Reference(job.prev) \in Mentioned
         /\ job.prev = NoManifest => job.prev.id = 0 /\ job.prev.digest = 0
         /\ Reference(NewManifest) \notin AllRefs
<1>1. Typed /\ job.id \in Nat /\ minted \in Nat /\ job.prev \in ManRecords
  BY JobParts DEF PInv, Typed
<1>2. job.prev.id \in Nat /\ job.prev.digest \in Nat
  BY <1>1 DEF ManRecords
<1> DEFINE d == minted + 1
           w == NewManifest
<1>3. d \in Nat
  BY <1>1
<1>4. w = [id |-> job.id, digest |-> d, prev |-> job.prev.id, prevd |-> job.prev.digest, ok |-> TRUE]
  BY DEF NewManifest
<1> HIDE DEF d, w
<1>5. w \in ManRecords /\ w.id = job.id /\ w.digest = d /\ w.prev = job.prev.id /\ w.prevd = job.prev.digest /\ w.ok = TRUE
  BY <1>1, <1>2, <1>3, <1>4 DEF ManRecords
<1>6. /\ Reference(w) \in Refs /\ Reference(w).id = w.id /\ Reference(w).digest = w.digest
  BY <1>5, RefFacts
<1>7. PrevRef(w) = Reference(job.prev)
  BY <1>5 DEF PrevRef, Reference
<1>8. job.prev # NoManifest => job.prev.id # 0 /\ Reference(job.prev) \in Mentioned
  <2> SUFFICES ASSUME job.prev # NoManifest PROVE job.prev.id # 0 /\ Reference(job.prev) \in Mentioned
    OBVIOUS
  <2>1. job.prev \in Mans
    BY DEF Mans, Chosen
  <2>2. Reference(job.prev) \in Mentioned
    BY <2>1 DEF Mentioned
  <2>3. 1 <= Reference(job.prev).id
    BY <2>2 DEF PInv, Numbered, AllRefs
  <2> QED
    BY <1>1, <2>2, <2>3, RefFacts
<1>9. job.prev = NoManifest => job.prev.id = 0 /\ job.prev.digest = 0
  BY DEF NoManifest
<1>10. Reference(w) \notin AllRefs
  <2> SUFFICES ASSUME Reference(w) \in AllRefs PROVE FALSE
    OBVIOUS
  <2>1. Reference(w).digest <= minted
    BY DEF PInv, Numbered
  <2> QED
    BY <1>1, <1>5, <1>6, <2>1 DEF d
<1> QED
  BY <1>5, <1>6, <1>7, <1>8, <1>9, <1>10 DEF d, w

LEMMA LinkManifestStep ==
  ASSUME PInv, LinkManifest
  PROVE  PInv'
<1>1. /\ UNCHANGED <<dlog, self, wm, wmTmp, ledger, other, ticks, others, outside, meddled, intact, forgotten>>
      /\ job.at = "link"
  BY DEF LinkManifest, TickAt
<1>2. Typed /\ LogInv /\ Layout /\ Marked /\ Ledgered /\ Numbered /\ Honest /\ Chosen /\ Making
  BY <1>1 DEF PInv, Chosen, Making
<1>3. CASE errors' = errors + 1 /\ Goto("prune") /\ UNCHANGED <<unit, minted, high>>
  <2>1. job' \in Jobs /\ job'.at = "prune"
    BY <1>2, <1>3, GotoJob DEF Late
  <2> QED
    BY <1>1, <1>2, <1>3, <2>1, GivenUp DEF Typed, historyVars
<1> DEFINE w == NewManifest
           n0 == job.n
<1>4. CASE /\ unit' = [unit EXCEPT ![n0] = [files |-> @.files \cup {"manifest"}, man |-> w]]
           /\ minted' = minted + 1 /\ high' = (IF job.id > high THEN job.id ELSE high)
           /\ job' = [job EXCEPT !.at = "append", !.next = "prune", !.entry = w]
           /\ UNCHANGED errors
  <2>1. n0 = ticks /\ n0 \in Snapshots /\ unit[n0].files = {"artifact"}
    BY <1>2, SnapshotFacts DEF Layout, Typed
  <2>2. /\ w \in ManRecords /\ w.id = job.id /\ w.digest = minted + 1
        /\ w.prev = job.prev.id /\ w.prevd = job.prev.digest /\ w.ok = TRUE
        /\ Reference(w).id = job.id /\ Reference(w).digest = minted + 1
        /\ Reference(w) \in Refs /\ PrevRef(w) = Reference(job.prev)
        /\ job.prev # NoManifest => job.prev.id # 0 /\ Reference(job.prev) \in Mentioned
        /\ job.prev = NoManifest => job.prev.id = 0 /\ job.prev.digest = 0
        /\ Reference(w) \notin AllRefs
    BY <1>1, NewManifestFacts
  <2> HIDE DEF w, n0
  <2>3. Linked(n0, w) /\ unit' \in [Snapshots -> Units]
    BY <1>2, <1>4, <2>1, <2>2, LinkedUnits
  <2>4. /\ n0 \notin Published /\ Published' = Published \union {n0}
        /\ unit'[n0] = [files |-> {"artifact", "manifest"}, man |-> w]
        /\ \A k \in Snapshots : k # n0 => unit'[k] = unit[k]
        /\ Manifests' = Manifests \union {w} /\ DiskRefs' = DiskRefs \union {Reference(w)}
    BY <2>3 DEF Linked
  <2>5. /\ job' \in Jobs /\ job'.at = "append" /\ job'.next = "prune" /\ job'.entry = w
    <3> DEFINE place == "append"
    <3>1. place \in Recording /\ job' = [job EXCEPT !.at = place, !.next = "prune", !.entry = w]
      BY <1>4 DEF Recording
    <3> HIDE DEF place
    <3>2. job' \in Jobs /\ job'.at = place /\ job'.next = "prune" /\ job'.entry = w
      BY <1>2, <2>2, <3>1 DEF Typed, Jobs
    <3> QED
      BY <3>2 DEF place
  <2>6. ~ Chosen' /\ ~ Making' /\ ~ Retiring'
    BY <2>5 DEF Chosen, Making, Early, Retiring
  <2>7. Mans' = Manifests \union {w} /\ Written' = Written /\ Manifests \subseteq Mans
    BY <1>1, <2>4, <2>5, <2>6 DEF Mans, Recording, Written, Lines
  <2>8. Published \subseteq Snapshots /\ \A n \in Published : unit'[n] = unit[n] /\ n # n0
    BY <2>4 DEF Published
  <2>9. Mentioned' \subseteq Mentioned \union {Reference(w)}
    <3> SUFFICES ASSUME NEW r \in Mentioned', r # Reference(w) PROVE r \in Mentioned
      OBVIOUS
    <3>1. \/ \E m \in Mans' : r = Reference(m)
          \/ \E m \in Mans' : m.prev # 0 /\ r = PrevRef(m)
          \/ \E l \in Written' : r = LineRef(l)
          \/ \E l \in Written' : l.prev # 0 /\ r = PrevRef(l)
      BY DEF Mentioned
    <3>2. \/ \E m \in Mans : r = Reference(m)
          \/ \E m \in Mans : m.prev # 0 /\ r = PrevRef(m)
          \/ w.prev # 0 /\ r = PrevRef(w)
          \/ \E l \in Written : r = LineRef(l)
          \/ \E l \in Written : l.prev # 0 /\ r = PrevRef(l)
      BY <2>7, <3>1
    <3>3. w.prev # 0 => PrevRef(w) \in Mentioned
      BY <2>2
    <3> QED
      BY <3>2, <3>3 DEF Mentioned
  <2>10. AllRefs' \subseteq AllRefs \union {Reference(w)}
    <3>1. Targeted' = Targeted /\ outside' = outside
      BY <1>1 DEF Targeted, Named
    <3> QED
      BY <2>9, <3>1 DEF AllRefs
  <2>11. job.id \in Nat /\ high \in Nat /\ minted \in Nat /\ 1 <= job.id /\ (intact => high < job.id /\ job.id = wm)
    BY <1>1, <1>2, JobParts DEF Typed, Marked
  <2>12. high' \in Nat /\ high' >= high /\ high' >= job.id /\ (intact => high' = job.id)
    BY <1>4, <2>11
  <2>13. Numbered'
    <3>1. ASSUME NEW r \in AllRefs'
          PROVE  r \in Refs /\ 1 <= r.id /\ r.id <= high' /\ 1 <= r.digest /\ r.digest <= minted'
      <4>1. CASE r = Reference(w)
        BY <1>4, <2>2, <2>11, <2>12, <4>1
      <4>2. CASE r \in AllRefs
        <5>1. r \in Refs /\ 1 <= r.id /\ r.id <= high /\ 1 <= r.digest /\ r.digest <= minted
          BY <1>2, <4>2 DEF Numbered
        <5>2. r.id \in Nat /\ r.digest \in Nat
          BY <5>1 DEF Refs
        <5> QED
          BY <1>4, <2>11, <2>12, <5>1, <5>2
      <4> QED
        BY <2>10, <4>1, <4>2
    <3>2. ASSUME intact', NEW r \in AllRefs', NEW s \in AllRefs', r.id = s.id
          PROVE  r = s
      <4>1. intact /\ high < job.id
        BY <1>1, <2>11, <3>2
      <4>2. \A t \in AllRefs : t.id # job.id
        <5> SUFFICES ASSUME NEW t \in AllRefs PROVE t.id # job.id
          OBVIOUS
        <5>1. t \in Refs /\ t.id <= high
          BY <1>2 DEF Numbered
        <5>2. t.id \in Nat
          BY <5>1 DEF Refs
        <5> QED
          BY <2>11, <4>1, <5>1, <5>2
      <4>3. \A t, u \in AllRefs : t.id = u.id => t = u
        BY <1>2, <4>1 DEF Numbered
      <4> QED
        BY <2>2, <2>10, <3>2, <4>2, <4>3
    <3> QED
      BY <3>1, <3>2 DEF Numbered
  <2>14. Typed'
    <3>1. minted' \in Nat /\ high' \in Nat /\ errors' \in Nat
      BY <1>2, <1>4, <2>11, <2>12 DEF Typed
    <3> QED
      BY <1>1, <1>2, <2>3, <2>5, <3>1 DEF Typed
  <2>15. LogInv' /\ Logged(dlog, dlog', {})
    BY <1>1, <1>2, StayLogged DEF LogInv
  <2>16. Layout'
    <3>1. \A k \in Snapshots : k > ticks => unit'[k] = NoUnit /\ k # n0
      BY <1>2, <2>1, <2>4, SnapshotFacts DEF Layout
    <3>2. ASSUME NEW n \in Published', NEW k \in Published', n < k
          PROVE  unit'[n].man.id < unit'[k].man.id
      <4>1. CASE k = n0
        <5>1. n \in Published
          BY <2>1, <2>4, <3>2, <4>1, SnapshotFacts
        <5>2. unit[n].man.id < job.id
          BY <1>2, <5>1 DEF Layout
        <5>3. unit'[n] = unit[n] /\ unit'[k].man = w
          BY <2>4, <2>8, <4>1, <5>1
        <5> QED
          BY <2>2, <5>2, <5>3
      <4>2. CASE n = n0
        <5>1. k \in Snapshots /\ k > ticks
          BY <2>1, <2>4, <2>8, <3>2, <4>2
        <5>2. unit'[k].files = {}
          BY <3>1, <5>1 DEF NoUnit
        <5>3. "manifest" \in unit'[k].files
          BY <3>2 DEF Published
        <5> QED
          BY <5>2, <5>3
      <4>3. CASE n \in Published /\ k \in Published
        BY <1>2, <2>8, <3>2, <4>3 DEF Layout
      <4> QED
        BY <2>4, <4>1, <4>2, <4>3
    <3>3. job'.at \notin Early
      BY <2>5 DEF Early
    <3> QED
      BY <1>1, <2>6, <3>1, <3>2, <3>3 DEF Layout
  <2>17. Marked'
    <3>1. intact' => wm' >= high'
      BY <1>1, <2>11, <2>12
    <3>2. wm' <= ticks'
      BY <1>1, <1>2 DEF Marked
    <3> QED
      BY <2>5, <2>6, <3>1, <3>2 DEF Marked
  <2>18. Planned'
    BY <2>5 DEF Planned
  <2>19. Distinct'
    <3>1. /\ \A n \in Snapshots : unit[n].man.digest \in Nat /\ unit[n].man.digest <= minted
          /\ \A n, k \in Snapshots : unit[n].man.digest = unit[k].man.digest => n = k \/ unit[n].man.digest = 0
      BY <1>2, UnitParts DEF PInv, Distinct
    <3>2. unit'[n0].man.digest = minted + 1
      BY <2>2, <2>4
    <3>3. \A n \in Snapshots : unit'[n].man.digest <= minted + 1 /\ (n # n0 => unit'[n].man.digest # minted + 1)
      BY <2>4, <2>11, <3>1, <3>2
    <3>4. \A n, k \in Snapshots : unit'[n].man.digest = unit'[k].man.digest => n = k \/ unit'[n].man.digest = 0
      BY <2>4, <3>1, <3>2, <3>3
    <3> QED
      BY <1>4, <3>3, <3>4 DEF Distinct
  <2>20. Rooted'
    BY <2>2, <2>7 DEF PInv, Rooted
  <2>21. Owned'
    BY <1>1, <2>5, <2>6 DEF PInv, Owned
  <2>22. Washed'
    <3>1. Reference(w) \notin outside
      BY <2>2 DEF AllRefs
    <3>2. ASSUME Classified(dlog), NEW l \in Lines(dlog), l.kind = "snapshot_retention"
          PROVE  Reference(w) \notin l.targets
      BY <2>2, <3>2 DEF AllRefs, Targeted, Named
    <3> QED
      BY <1>1, <2>4, <2>6, <3>1, <3>2 DEF PInv, Washed
  <2>23. OnRecord'
    <3>1. ASSUME FullLog(dlog'), NEW n \in Published', "artifact" \notin unit'[n].files
          PROVE  Named(dlog', Reference(unit'[n].man))
      <4>1. n # n0 /\ n \in Published
        BY <2>4, <3>1
      <4>2. Named(dlog, Reference(unit[n].man)) /\ unit'[n] = unit[n]
        BY <1>1, <2>8, <3>1, <4>1 DEF PInv, OnRecord
      <4> QED
        BY <1>1, <4>2
    <3>2. FullLog(dlog') => \A id \in forgotten' : Dropped(dlog', id)
      BY <1>1, <2>15, ForgottenKept
    <3> QED
      BY <2>5, <2>6, <3>1, <3>2 DEF OnRecord
  <2>24. Traced'
    <3> SUFFICES ASSUME FullLog(dlog'), NEW r \in Mentioned', r \notin DiskRefs' \union outside'
                 PROVE  Named(dlog', r)
      BY DEF Traced
    <3>1. r \in Mentioned /\ r \notin DiskRefs \union outside
      BY <1>1, <2>4, <2>9
    <3>2. Named(dlog, r)
      BY <1>1, <3>1 DEF PInv, Traced
    <3> QED
      BY <1>1, <3>2
  <2>25. Ledgered'
    <3>1. job'.at \notin Recording \ {"append"} /\ job'.at # "link"
      BY <2>5
    <3>2. ASSUME NEW m \in Manifests', m.prev # 0, Classified(ledger) PROVE ledger # <<>>
      <4>1. CASE m \in Manifests
        BY <1>2, <3>2, <4>1 DEF Ledgered
      <4>2. CASE m = w
        BY <1>1, <1>2, <2>2, <3>2, <4>2 DEF Ledgered
      <4> QED
        BY <2>4, <3>2, <4>1, <4>2
    <3> QED
      BY <1>1, <1>2, <3>1, <3>2 DEF Ledgered
  <2>26. Honest'
    <3> SUFFICES ASSUME meddled = 0 PROVE intact' /\ outside' = {} /\ Chained'
      BY <1>1 DEF Honest
    <3>1. intact /\ outside = {} /\ Chained
      BY <1>2 DEF Honest
    <3>2. high' = job.id
      BY <2>12, <3>1
    <3>3. \A m \in Manifests : m.id < job.id /\ m.id \in Nat
      BY <1>2, DiskFacts DEF Layout, Manifests
    <3>4. \/ Manifests = {} /\ job.prev = NoManifest
          \/ job.prev \in Manifests /\ \A p \in Manifests : p.id <= job.prev.id
      BY <1>2, <3>1 DEF Chained
    <3>5. w.prev < w.id
      BY <2>2, <2>11, <3>3, <3>4
    <3>6. \A m \in Mans' : m.ok /\ m.prev < m.id
      BY <2>2, <2>7, <3>1, <3>5 DEF Chained
    <3>7. ASSUME NEW m \in Manifests', NEW p \in Manifests', p.id < m.id
          PROVE  \E q \in Manifests' : Reference(q) = PrevRef(m) /\ p.id <= q.id
      <4>1. CASE m = w
        <5>1. p \in Manifests
          BY <2>2, <2>4, <2>11, <3>7, <4>1
        <5>2. job.prev \in Manifests /\ p.id <= job.prev.id
          BY <3>4, <5>1
        <5> QED
          BY <2>2, <2>4, <4>1, <5>2
      <4>2. CASE m \in Manifests
        <5>1. p \in Manifests
          BY <2>2, <2>4, <2>11, <3>3, <3>7, <4>2
        <5> QED
          BY <2>4, <3>1, <3>7, <4>2, <5>1 DEF Chained
      <4> QED
        BY <2>4, <4>1, <4>2
    <3>8. \E m \in Manifests' : m.id = high'
      BY <2>2, <2>4, <3>2
    <3>9. job'.entry.id = high'
      BY <2>2, <2>5, <3>2
    <3>10. /\ \A l \in Written' : l.prev < l.group
           /\ Classified(ledger') => Ascending(ledger')
      BY <1>1, <2>7, <3>1 DEF Chained
    <3> QED
      BY <1>1, <2>6, <3>1, <3>6, <3>7, <3>8, <3>9, <3>10 DEF Chained
  <2> QED
    BY <2>13, <2>14, <2>15, <2>16, <2>17, <2>18, <2>19, <2>20, <2>21, <2>22, <2>23, <2>24, <2>25, <2>26 DEF PInv
<1> QED
  BY <1>3, <1>4 DEF LinkManifest

-----------------------------------------------------------------------------
(* The ledger of manifests.                                                *)

\* A compaction never drops every group.
LEMMA KeepsOne ==
  ASSUME NEW L, NEW log \in Seq(L), log # <<>>, NEW keep \in Int
  PROVE  \E g \in Groups(log) : g \notin DroppedGroups(log, keep)
<1> DEFINE F(g) == FirstAt(log, g)
           H(g) == {h \in Groups(log) : F(h) >= F(g)}
           n == Len(log)
           T == {n - F(g) : g \in Groups(log)}
<1>1. DOMAIN log = 1 .. n /\ n \in Nat /\ n # 0
  BY LenProperties, EmptySeq
<1>2. \A g \in Groups(log) : F(g) \in 1 .. n /\ log[F(g)].group = g
  BY <1>1, FirstLine
<1>3. Groups(log) # {}
  <2>1. 1 \in DOMAIN log
    BY <1>1
  <2> QED
    BY <2>1 DEF Groups
<1> HIDE DEF F, n
<1>4. \A g \in Groups(log) : n - F(g) \in Nat /\ F(g) \in Nat
  BY <1>1, <1>2
<1>5. T \in SUBSET Nat /\ T # {}
  BY <1>3, <1>4
<1>6. PICK x \in T : \A y \in T : x <= y
  BY <1>5, Least
<1>7. PICK u \in Groups(log) : x = n - F(u)
  BY <1>6
<1>8. \A h \in Groups(log) : F(h) <= F(u)
  <2> SUFFICES ASSUME NEW h \in Groups(log) PROVE F(h) <= F(u)
    OBVIOUS
  <2>1. x <= n - F(h)
    BY <1>6
  <2> QED
    BY <1>1, <1>4, <1>7, <2>1
<1>9. H(u) = {u}
  <2>1. \A h \in Groups(log) : F(h) >= F(u) => h = u
    <3> SUFFICES ASSUME NEW h \in Groups(log), F(h) >= F(u) PROVE h = u
      OBVIOUS
    <3>1. F(h) = F(u)
      BY <1>4, <1>8
    <3> QED
      BY <1>2, <3>1
  <2>2. F(u) >= F(u)
    BY <1>4
  <2> QED
    BY <2>1, <2>2
<1>10. Cardinality(H(u)) = 1
  BY <1>9, FS_Singleton
<1>11. DroppedGroups(log, keep) = {g \in Groups(log) : keep > 0 /\ Cardinality(H(g)) > keep}
  BY DEF DroppedGroups, F
<1> HIDE DEF H
<1>12. ~ (keep > 0 /\ Cardinality(H(u)) > keep)
  BY <1>10
<1> QED
  BY <1>11, <1>12

\* A step of the tick that writes the ledger.
LEMMA LedgerFrame ==
  ASSUME PInv, job.at \in Recording, job' \in Jobs, job'.at \in {job.next, "observe", "close_ledger"},
         job'.n = job.n, job'.id = job.id, job'.prev = job.prev, job'.entry = job.entry, job'.next = job.next,
         UNCHANGED <<dlog, self, unit, wm, wmTmp, ticks, other, others, outside, meddled, intact, minted, high>>,
         errors' \in Nat, forgotten' \in SUBSET Nat, ledger' \in Seq(EntryLines \union {Torn}), Ledgered',
         Written' \subseteq Written \union {EntryForManifest(job.entry)},
         meddled = 0 /\ Classified(ledger') => Ascending(ledger'),
         job'.at = "close_ledger" => Owns(dlog, job'.seq, "ledger_compaction"),
         FullLog(dlog) => \A id \in forgotten' : Dropped(dlog, id)
  PROVE  PInv'
<1>1. Typed /\ LogInv /\ Marked /\ Layout /\ Honest /\ Ticking /\ job.next \in {"link", "prune"}
  BY TickingStays DEF PInv, Typed
<1>2. Eased /\ job'.at \notin {"prune_begin", "remove"} /\ job'.at \notin Early
  BY <1>1, RecordingOn DEF Recording
<1>3. SamePublished /\ Manifests' = Manifests
  BY SameUnits, SameManifests
<1>4. Mans' \subseteq Mans /\ job.entry \in Mans /\ job.entry \in ManRecords
  BY <1>1, <1>2, <1>3, MansShrink, JobParts DEF Mans
<1> DEFINE l == EntryForManifest(job.entry)
<1>5. /\ l.prev = job.entry.prev /\ l.prevd = job.entry.prevd /\ l.group = job.entry.id
      /\ LineRef(l) = Reference(job.entry) /\ PrevRef(l) = PrevRef(job.entry)
  BY DEF EntryForManifest, LineRef, Reference, PrevRef
<1>6. LineRef(l) \in Mentioned /\ (l.prev # 0 => PrevRef(l) \in Mentioned)
  BY <1>4, <1>5 DEF Mentioned
<1> HIDE DEF l
<1>7. Written' \subseteq Written \union {l}
  BY DEF l
<1>8. Mentioned' \subseteq Mentioned
  <2> SUFFICES ASSUME NEW r \in Mentioned' PROVE r \in Mentioned
    OBVIOUS
  <2>1. \/ \E m \in Mans' : r = Reference(m)
        \/ \E m \in Mans' : m.prev # 0 /\ r = PrevRef(m)
        \/ \E k \in Written' : r = LineRef(k)
        \/ \E k \in Written' : k.prev # 0 /\ r = PrevRef(k)
    BY DEF Mentioned
  <2>2. \/ \E m \in Mans : r = Reference(m)
        \/ \E m \in Mans : m.prev # 0 /\ r = PrevRef(m)
        \/ \E k \in Written : r = LineRef(k)
        \/ \E k \in Written : k.prev # 0 /\ r = PrevRef(k)
        \/ r = LineRef(l) \/ (l.prev # 0 /\ r = PrevRef(l))
    BY <1>4, <1>7, <2>1
  <2> QED
    BY <1>6, <2>2 DEF Mentioned
<1>9. Rooted'
  BY <1>4, <1>5, <1>7 DEF PInv, Rooted
<1>10. Layout' /\ Honest'
  <2>1. ASSUME Honest, meddled = 0
        PROVE  /\ \A k \in Written' : k.prev < k.group
               /\ Classified(ledger') => Ascending(ledger')
    <3>1. Chained
      BY <2>1 DEF Honest
    <3>2. l.prev < l.group
      BY <1>4, <1>5, <3>1 DEF Chained
    <3> QED
      BY <1>7, <2>1, <3>1, <3>2 DEF Chained
  <2> QED
    BY <1>1, <1>2, <2>1, EasingOn
<1>11. Distinct'
  BY DEF PInv, Distinct
<1>12. Typed'
  BY <1>1, <1>2 DEF Typed, Eased
<1>13. Marked'
  BY <1>1, <1>2, MarkedEasing
<1>14. LogInv' /\ Logged(dlog, dlog', {})
  BY <1>1, StayLogged DEF LogInv
<1>15. job'.at # "rewrite" /\ (job'.at \in {"rewrite", "close_ledger"} => Owns(dlog', job'.seq, "ledger_compaction"))
  BY <1>1
<1>16. FullLog(dlog') => \A id \in forgotten' : Dropped(dlog', id)
  OBVIOUS
<1> QED
  BY <1>2, <1>3, <1>8, <1>9, <1>10, <1>11, <1>12, <1>13, <1>14, <1>15, <1>16, TickFrame

\* The line of an entry, and the ledger with it.
LEMMA NewEntry ==
  ASSUME PInv, job.at \in Recording, NEW l, l = EntryForManifest(job.entry)
  PROVE  l \in EntryLines /\ l.group = job.entry.id /\ l # Torn
<1>1. job.entry \in ManRecords /\ job.entry \in Mans
  BY JobParts DEF PInv, Mans
<1>2. Reference(job.entry) \in AllRefs
  BY <1>1 DEF AllRefs, Mentioned
<1>3. 1 <= Reference(job.entry).id
  BY <1>2 DEF PInv, Numbered
<1>4. Reference(job.entry).id = job.entry.id
  BY <1>1, RefFacts
<1>5. l \in EntryLines /\ l.group = job.entry.id
  BY <1>1, <1>3, <1>4 DEF EntryForManifest, EntryLines, ManRecords
<1> QED
  BY <1>5, LineRefFacts

LEMMA LinesBelowHigh ==
  ASSUME PInv, NEW i \in DOMAIN ledger, ledger[i] # Torn
  PROVE  ledger[i].group <= high /\ ledger[i].group \in Nat
<1>1. ledger[i] \in Written /\ ledger[i] \in EntryLines
  BY WrittenLines DEF PInv, Written, Lines
<1>2. LineRef(ledger[i]) \in AllRefs
  BY <1>1 DEF AllRefs, Mentioned
<1> QED
  BY <1>1, <1>2, LineRefFacts DEF PInv, Numbered

LEMMA LedgerAppendStep ==
  ASSUME PInv, LedgerAppend
  PROVE  PInv'
<1>1. /\ UNCHANGED <<dlog, self, unit, wm, wmTmp, ticks, other, others, errors, historyVars>>
      /\ job.at = "append" /\ job.at \in Recording
  BY DEF LedgerAppend, TickAt, boundVars, Recording
<1>2. Typed /\ LogInv /\ Marked /\ Ledgered /\ job.next \in {"link", "prune"} /\ Ticking
  BY <1>1, TickingStays DEF PInv, Typed
<1>3. ledger \in Seq(EntryLines \union {Torn}) /\ DOMAIN ledger = 1 .. Len(ledger) /\ Len(ledger) \in Nat
  BY <1>2, LenProperties DEF Typed
<1>4. CASE NothingToAppend(job.entry.id)
  <2>1. Goto(job.next) /\ ledger' = ledger
    BY <1>4 DEF LedgerAppend
  <2>2. /\ job' \in Jobs /\ job'.at = job.next /\ job'.n = job.n /\ job'.id = job.id /\ job'.prev = job.prev
        /\ job'.entry = job.entry /\ job'.next = job.next
    BY <1>2, <2>1, GotoJob DEF Late
  <2>3. Ledgered'
    <3>1. Classified(ledger) => ledger # <<>>
      <4> SUFFICES ASSUME Recorded(job.entry.id) PROVE ledger # <<>>
        BY <1>4 DEF NothingToAppend
      <4>1. \E i \in DOMAIN ledger : TRUE
        BY DEF Recorded, LedgerIds
      <4> QED
        BY <1>3, <4>1
    <3>2. job'.at \notin Recording
      BY <1>2, <2>2 DEF Recording
    <3> QED
      BY <1>2, <2>1, <3>1, <3>2 DEF Ledgered
  <2>4. Written' \subseteq Written \union {EntryForManifest(job.entry)}
    BY <2>1 DEF Written, Lines
  <2>5. meddled = 0 /\ Classified(ledger') => Ascending(ledger')
    BY <2>1 DEF PInv, Honest, Chained
  <2>6. FullLog(dlog) => \A id \in forgotten' : Dropped(dlog, id)
    BY <1>1 DEF PInv, OnRecord, historyVars
  <2>7. job'.at # "close_ledger"
    BY <1>2, <2>2
  <2> QED
    BY <1>1, <1>2, <1>3, <2>1, <2>2, <2>3, <2>4, <2>5, <2>6, <2>7, LedgerFrame DEF historyVars, Typed
<1> DEFINE l == EntryForManifest(job.entry)
<1>5. CASE ~ NothingToAppend(job.entry.id)
  <2>1. ledger' = Append(ledger, l) /\ Classified(ledger) /\ ~ Recorded(job.entry.id)
    BY <1>5 DEF LedgerAppend, NothingToAppend, Appended
  <2>2. l \in EntryLines /\ l.group = job.entry.id /\ l # Torn
    BY <1>1, NewEntry
  <2> HIDE DEF l
  <2>3. Longer(ledger, l, ledger') /\ ledger' \in Seq(EntryLines \union {Torn})
    BY <1>3, <2>1, <2>2, AppendedLog, AppendProperties
  <2>4. /\ DOMAIN ledger' = 1 .. Len(ledger) + 1 /\ ledger' # <<>> /\ ledger'[Len(ledger) + 1] = l
        /\ \A i \in DOMAIN ledger : ledger'[i] = ledger[i]
        /\ Lines(ledger') = Lines(ledger) \union {l}
    BY <2>3 DEF Longer
  <2>5. \A i \in DOMAIN ledger' : i = Len(ledger) + 1 \/ (i \in DOMAIN ledger /\ i < Len(ledger) + 1)
    BY <1>3, <2>4
  <2>6. Classified(ledger')
    BY <2>1, <2>2, <2>4, <2>5 DEF Classified
  <2>7. \A i \in DOMAIN ledger : ledger[i].group # l.group
    BY <2>1, <2>2 DEF Recorded, LedgerIds, Classified
  <2>8. Ledgered'
    <3>1. \A i, j \in DOMAIN ledger' :
            ledger'[i] # Torn /\ ledger'[j] # Torn /\ ledger'[i].group = ledger'[j].group => i = j
      BY <1>2, <2>4, <2>5, <2>7 DEF Ledgered
    <3> QED
      BY <2>4, <2>6, <3>1 DEF Ledgered
  <2>9. Written' \subseteq Written \union {l}
    BY <2>4 DEF Written
  <2>10. meddled = 0 /\ Classified(ledger') => Ascending(ledger')
    <3> SUFFICES ASSUME meddled = 0, NEW i \in DOMAIN ledger', NEW j \in DOMAIN ledger', i < j
                 PROVE  ledger'[i].group < ledger'[j].group
      BY DEF Ascending
    <3>1. Ascending(ledger) /\ l.group = high
      BY <1>1, <2>1, <2>2 DEF PInv, Honest, Chained
    <3>2. i \in DOMAIN ledger /\ i # Len(ledger) + 1
      BY <1>3, <2>4, <2>5
    <3>3. CASE j \in DOMAIN ledger
      BY <2>4, <3>1, <3>2, <3>3 DEF Ascending
    <3>4. CASE j = Len(ledger) + 1
      <4>1. ledger[i].group <= high /\ ledger[i].group \in Nat /\ ledger[i].group # high
        BY <2>1, <2>7, <3>1, <3>2, LinesBelowHigh DEF Classified
      <4>2. high \in Nat
        BY <1>2 DEF Typed
      <4> QED
        BY <2>4, <3>1, <3>2, <3>4, <4>1, <4>2
    <3> QED
      BY <2>5, <3>3, <3>4
  <2>11. FullLog(dlog) => \A id \in forgotten' : Dropped(dlog, id)
    BY <1>1 DEF PInv, OnRecord, historyVars
  <2>12. PICK place \in {job.next, "observe"} : Goto(place)
    BY <1>5 DEF LedgerAppend
  <2>13. /\ job' \in Jobs /\ job'.at = place /\ job'.n = job.n /\ job'.id = job.id /\ job'.prev = job.prev
         /\ job'.entry = job.entry /\ job'.next = job.next
    <3>1. place \in Early \union {"link"} \union Recording \union Late
      BY <1>2, <2>12 DEF Late, Recording
    <3> QED
      BY <1>2, <2>12, <3>1, GotoJob
  <2>14. job'.at # "close_ledger" /\ job'.at \in {job.next, "observe", "close_ledger"}
    BY <1>2, <2>12, <2>13
  <2> QED
    BY <1>1, <1>2, <2>3, <2>8, <2>9, <2>10, <2>11, <2>13, <2>14, LedgerFrame DEF historyVars, Typed, l
<1> QED
  BY <1>4, <1>5

LEMMA LedgerAppendTornStep ==
  ASSUME PInv, LedgerAppendTorn
  PROVE  PInv'
<1>1. /\ UNCHANGED <<dlog, self, unit, wm, wmTmp, ticks, other, others, historyVars>>
      /\ job.at = "append" /\ job.at \in Recording /\ errors' = errors + 1 /\ Goto(job.next)
      /\ ledger' = Append(ledger, Torn)
  BY DEF LedgerAppendTorn, TickAt, Recording, TornAppend
<1>2. Typed /\ Ledgered /\ job.next \in {"link", "prune"}
  BY <1>1 DEF PInv, Typed
<1>3. ledger \in Seq(EntryLines \union {Torn}) /\ DOMAIN ledger = 1 .. Len(ledger) /\ Len(ledger) \in Nat
  BY <1>2, LenProperties DEF Typed
<1>4. Longer(ledger, Torn, ledger') /\ ledger' \in Seq(EntryLines \union {Torn})
  BY <1>1, <1>3, AppendedLog, AppendProperties
<1>5. /\ DOMAIN ledger' = 1 .. Len(ledger) + 1 /\ ledger'[Len(ledger) + 1] = Torn
      /\ \A i \in DOMAIN ledger : ledger'[i] = ledger[i]
      /\ Lines(ledger') = Lines(ledger) \union {Torn}
  BY <1>4 DEF Longer
<1>6. \A i \in DOMAIN ledger' : i = Len(ledger) + 1 \/ i \in DOMAIN ledger
  BY <1>3, <1>5
<1>7. ~ Classified(ledger')
  BY <1>3, <1>5 DEF Classified
<1>8. /\ job' \in Jobs /\ job'.at = job.next /\ job'.n = job.n /\ job'.id = job.id /\ job'.prev = job.prev
      /\ job'.entry = job.entry /\ job'.next = job.next
  BY <1>1, <1>2, GotoJob DEF Late
<1>9. job'.at \notin Recording /\ job'.at # "close_ledger"
  BY <1>2, <1>8 DEF Recording
<1>10. Ledgered'
  <2>1. \A i, j \in DOMAIN ledger' :
          ledger'[i] # Torn /\ ledger'[j] # Torn /\ ledger'[i].group = ledger'[j].group => i = j
    BY <1>2, <1>5, <1>6 DEF Ledgered
  <2> QED
    BY <1>7, <1>9, <2>1 DEF Ledgered
<1>11. Written' \subseteq Written \union {EntryForManifest(job.entry)}
  BY <1>5 DEF Written
<1>12. FullLog(dlog) => \A id \in forgotten' : Dropped(dlog, id)
  BY <1>1 DEF PInv, OnRecord, historyVars
<1> QED
  BY <1>1, <1>2, <1>4, <1>7, <1>8, <1>9, <1>10, <1>11, <1>12, LedgerFrame DEF historyVars, Typed

LEMMA LedgerRewriteStep ==
  ASSUME PInv, LedgerRewrite
  PROVE  PInv'
<1>1. /\ UNCHANGED <<dlog, self, unit, wm, wmTmp, ticks, other, others, outside, meddled, intact, minted, high>>
      /\ job.at = "rewrite" /\ job.at \in Recording
  BY DEF LedgerRewrite, TickAt, Recording
<1>2. Typed /\ Ledgered /\ job.next \in {"link", "prune"} /\ Classified(ledger) /\ ledger # <<>>
  BY <1>1 DEF PInv, Typed, Ledgered
<1>3. ledger \in Seq(EntryLines \union {Torn}) /\ DOMAIN ledger = 1 .. Len(ledger) /\ Len(ledger) \in Nat
  BY <1>2, LenProperties DEF Typed
<1>4. FullLog(dlog) => \A id \in forgotten \union Dropping : Dropped(dlog, id)
  BY <1>1 DEF PInv, OnRecord
<1>5. CASE errors' = errors + 1 /\ Goto(job.next) /\ UNCHANGED <<ledger, forgotten>>
  <2>1. /\ job' \in Jobs /\ job'.at = job.next /\ job'.n = job.n /\ job'.id = job.id /\ job'.prev = job.prev
        /\ job'.entry = job.entry /\ job'.next = job.next
    BY <1>2, <1>5, GotoJob DEF Late
  <2>2. Ledgered'
    BY <1>1, <1>5, RecordingLedgered
  <2>3. Written' \subseteq Written \union {EntryForManifest(job.entry)}
    BY <1>5 DEF Written, Lines
  <2>4. meddled = 0 /\ Classified(ledger') => Ascending(ledger')
    BY <1>5 DEF PInv, Honest, Chained
  <2>5. job'.at # "close_ledger"
    BY <1>2, <2>1
  <2> QED
    BY <1>1, <1>2, <1>3, <1>4, <1>5, <2>1, <2>2, <2>3, <2>4, <2>5, LedgerFrame DEF Typed
<1>6. CASE /\ ledger' = WithoutGroups(ledger, Dropping) /\ forgotten' = forgotten \cup Dropping
           /\ Goto("close_ledger") /\ UNCHANGED errors
  <2>1. /\ job' \in Jobs /\ job'.at = "close_ledger" /\ job'.n = job.n /\ job'.id = job.id /\ job'.prev = job.prev
        /\ job'.entry = job.entry /\ job'.next = job.next /\ job'.seq = job.seq
    BY <1>2, <1>6, GotoJob DEF Recording
  <2>2. ledger' \in Seq(EntryLines \union {Torn}) /\ Filtered(ledger', ledger, Dropping)
    BY <1>3, <1>6, KeptLines
  <2>3. DOMAIN ledger' = 1 .. Len(ledger') /\ Len(ledger') \in Nat
    BY <2>2, LenProperties
  <2>4. PICK p \in [1 .. Len(ledger') -> DOMAIN ledger] :
          /\ \A m, n \in 1 .. Len(ledger') : m < n => p[m] < p[n]
          /\ \A n \in 1 .. Len(ledger') : ledger'[n] = ledger[p[n]] /\ ledger[p[n]].group \notin Dropping
          /\ \A i \in DOMAIN ledger : ledger[i].group \notin Dropping => \E n \in 1 .. Len(ledger') : p[n] = i
    BY <2>2 DEF Filtered
  <2>5. \A n \in DOMAIN ledger' : n \in Nat /\ p[n] \in DOMAIN ledger /\ p[n] \in Nat /\ ledger'[n] = ledger[p[n]]
    BY <1>3, <2>3, <2>4
  <2>6. Classified(ledger')
    BY <1>2, <2>5 DEF Classified
  <2>7. ledger' # <<>>
    <3>1. PICK g \in Groups(ledger) : g \notin Dropping
      <4>1. LedgerCapacity \in Int
        BY ExportConstants
      <4> QED
        BY <1>2, <1>3, <4>1, KeepsOne DEF Dropping
    <3>2. PICK i \in DOMAIN ledger : ledger[i].group = g
      BY DEF Groups
    <3>3. \E n \in DOMAIN ledger' : p[n] = i
      BY <2>3, <2>4, <3>1, <3>2
    <3> QED
      BY <3>3
  <2>8. Ledgered'
    <3>1. ASSUME NEW i \in DOMAIN ledger', NEW j \in DOMAIN ledger', ledger'[i].group = ledger'[j].group
          PROVE  i = j
      <4>1. p[i] = p[j]
        BY <1>2, <2>5, <3>1 DEF Ledgered, Classified
      <4>2. ~ (i < j) /\ ~ (j < i)
        <5>1. \A m, n \in DOMAIN ledger' : m < n => p[m] < p[n]
          BY <2>3, <2>4
        <5> QED
          BY <2>5, <4>1, <5>1
      <4> QED
        BY <2>5, <4>2
    <3> QED
      BY <2>6, <2>7, <3>1 DEF Ledgered
  <2>9. Written' \subseteq Written \union {EntryForManifest(job.entry)}
    BY <2>5 DEF Written, Lines
  <2>10. meddled = 0 /\ Classified(ledger') => Ascending(ledger')
    <3> SUFFICES ASSUME meddled = 0, NEW i \in DOMAIN ledger', NEW j \in DOMAIN ledger', i < j
                 PROVE  ledger'[i].group < ledger'[j].group
      BY DEF Ascending
    <3>1. Ascending(ledger)
      BY <1>2 DEF PInv, Honest, Chained
    <3>2. p[i] < p[j]
      BY <2>3, <2>4
    <3> QED
      BY <2>5, <3>1, <3>2 DEF Ascending
  <2>11. Owns(dlog, job'.seq, "ledger_compaction")
    BY <1>1, <2>1 DEF PInv, Owned
  <2>12. forgotten' \in SUBSET Nat
    <3>1. \A i \in DOMAIN ledger : ledger[i].group \in Nat
      BY <1>3 DEF EntryLines, Torn
    <3> QED
      BY <1>2, <1>6, <3>1 DEF Typed, Dropping, DroppedGroups, Groups
  <2> QED
    BY <1>1, <1>2, <1>4, <1>6, <2>1, <2>2, <2>8, <2>9, <2>10, <2>11, <2>12, LedgerFrame DEF Typed
<1> QED
  BY <1>5, <1>6 DEF LedgerRewrite

LEMMA PublishArtifactsStep ==
  ASSUME PInv, PublishArtifacts
  PROVE  PInv'
<1>1. /\ UNCHANGED <<dlog, self, wm, wmTmp, ledger, other, others, historyVars>>
      /\ ticks' = ticks + 1 /\ ticks < MaxTicks
  BY DEF PublishArtifacts, TickAt
<1> DEFINE n1 == ticks + 1
<1>2. PICK fs \in Leftovers :
        /\ unit' = [unit EXCEPT ![n1] = Artifacts(fs)]
        /\ errors' \in {errors, errors + 1}
        /\ \/ job' = [NoJob EXCEPT !.at = "allocate", !.n = n1] /\ fs = {"artifact"}
           \/ job' = [NoJob EXCEPT !.at = "prune"]
  BY DEF PublishArtifacts, Leftovers
<1>3. Typed /\ LogInv /\ Layout /\ Marked /\ Ledgered /\ Honest /\ ticks \in Nat /\ MaxTicks \in Nat
  BY ExportConstants DEF PInv, Typed
<1>4. n1 \in Snapshots /\ n1 \in Nat /\ n1 > ticks /\ ticks' = n1 /\ n1 <= MaxTicks /\ n1 >= 1
  BY <1>1, <1>3, SnapshotFacts
<1> HIDE DEF n1
<1>5. unit[n1] = NoUnit /\ unit \in [Snapshots -> Units]
  BY <1>3, <1>4 DEF Layout, Typed
<1>6. /\ unit'[n1] = [files |-> fs, man |-> NoManifest] /\ \A k \in Snapshots : k # n1 => unit'[k] = unit[k]
      /\ unit' \in [Snapshots -> Units]
  <2>1. [files |-> fs, man |-> NoManifest] \in Units
    BY SnapshotFacts DEF Leftovers, Units, Files
  <2>2. unit' = [unit EXCEPT ![n1] = [files |-> fs, man |-> NoManifest]]
    BY <1>2 DEF Artifacts
  <2> QED
    BY <1>4, <1>5, <2>1, <2>2
<1>7. SamePublished /\ Manifests' = Manifests /\ DiskRefs' = DiskRefs /\ Published' = Published
  <2>1. n1 \notin Published /\ n1 \notin Published'
    BY <1>5, <1>6 DEF Published, NoUnit, Leftovers
  <2>2. SamePublished
    BY <1>6, <2>1 DEF SamePublished, Published
  <2> QED
    BY <2>2, SameManifests DEF SamePublished
<1>8. /\ job' \in Jobs /\ job'.prev = NoManifest /\ job'.at \in {"allocate", "prune"}
      /\ job'.at = "allocate" => job'.n = n1 /\ fs = {"artifact"}
  <2>1. CASE job' = [NoJob EXCEPT !.at = "allocate", !.n = n1] /\ fs = {"artifact"}
    <3> DEFINE place == "allocate"
    <3>1. place \in Early /\ job' = [NoJob EXCEPT !.at = place, !.n = n1]
      BY <2>1 DEF Early
    <3> HIDE DEF place
    <3>2. job' \in Jobs /\ job'.at = place /\ job'.n = n1 /\ job'.prev = NoManifest
      BY <1>4, <3>1, IdleJob DEF Jobs
    <3> QED
      BY <2>1, <3>2 DEF place
  <2>2. CASE job' = [NoJob EXCEPT !.at = "prune"]
    <3> DEFINE place == "prune"
    <3>1. place \in Late /\ job' = [NoJob EXCEPT !.at = place]
      BY <2>2 DEF Late
    <3> HIDE DEF place
    <3>2. job' \in Jobs /\ job'.at = place /\ job'.prev = NoManifest
      BY <3>1, IdleJob DEF Jobs
    <3> QED
      BY <3>2 DEF place
  <2> QED
    BY <1>2, <2>1, <2>2
<1>9. ~ Chosen' /\ job'.at \notin Recording /\ (Making' => job'.at = "allocate")
  BY <1>8 DEF Chosen, Making, Recording, Early
<1>10. Mans' = Manifests /\ Written' = Written
  BY <1>1, <1>7, <1>9 DEF Mans, Written, Lines
<1>11. Mans' \subseteq Mans
  BY <1>3, <1>10, MansTyped
<1>12. Mentioned' \subseteq Mentioned /\ Rooted'
  BY <1>10, <1>11, MentionedShrinks DEF PInv, Rooted
<1>13. /\ outside' = outside /\ high' = high /\ minted' = minted /\ intact' = intact /\ meddled' = meddled
       /\ forgotten' = forgotten
  BY <1>1 DEF historyVars
<1>14. Layout'
  <2>1. \A k \in Snapshots : k > n1 => k # n1 /\ k > ticks
    BY <1>3, <1>4, SnapshotFacts
  <2>2. \A k \in Snapshots : k > ticks' => unit'[k] = NoUnit
    BY <1>3, <1>4, <1>6, <2>1 DEF Layout
  <2>3. Making' => job'.n = ticks' /\ ticks' >= 1 /\ unit'[job'.n].files = {"artifact"}
    BY <1>4, <1>6, <1>8, <1>9
  <2>4. \A n, k \in Published' : n < k => unit'[n].man.id < unit'[k].man.id
    BY <1>3, <1>7 DEF Layout, SamePublished
  <2> QED
    BY <1>8, <1>9, <2>2, <2>3, <2>4 DEF Layout
<1>15. Honest'
  <2> SUFFICES ASSUME meddled = 0 PROVE intact' /\ outside' = {} /\ Chained'
    BY <1>13 DEF Honest
  <2>1. intact /\ outside = {} /\ Chained
    BY <1>3 DEF Honest
  <2>2. /\ \A m \in Mans' : m.ok /\ m.prev < m.id
        /\ \A l \in Written' : l.prev < l.group
        /\ Classified(ledger') => Ascending(ledger')
    BY <1>1, <1>10, <1>11, <2>1 DEF Chained
  <2>3. /\ \A m, p \in Manifests' : p.id < m.id =>
             \E q \in Manifests' : Reference(q) = PrevRef(m) /\ p.id <= q.id
        /\ Manifests' # {} => \E m \in Manifests' : m.id = high'
    BY <1>7, <1>13, <2>1 DEF Chained
  <2> QED
    BY <1>9, <1>13, <2>1, <2>2, <2>3 DEF Chained
<1>16. Distinct'
  <2>1. \A n \in Snapshots : unit'[n].man = unit[n].man
    BY <1>5, <1>6 DEF NoUnit
  <2> QED
    BY <1>13, <2>1 DEF PInv, Distinct
<1>17. Typed'
  <2>1. errors' \in Nat /\ ticks' \in Nat /\ ticks' <= MaxTicks
    BY <1>2, <1>3, <1>4 DEF Typed
  <2> QED
    BY <1>1, <1>3, <1>6, <1>8, <1>9, <1>13, <2>1 DEF Typed
<1>18. Marked'
  <2>1. wm' < ticks' /\ wm' <= ticks'
    BY <1>1, <1>3, <1>4 DEF Marked, Typed, Missing
  <2>2. intact' => wm' >= high'
    BY <1>1, <1>3, <1>13 DEF Marked
  <2> QED
    BY <1>8, <1>9, <2>1, <2>2 DEF Marked
<1>19. Ledgered'
  BY <1>1, <1>3, <1>7, <1>8, <1>9 DEF Ledgered
<1>20. LogInv' /\ Logged(dlog, dlog', {})
  BY <1>1, <1>3, StayLogged DEF LogInv
<1>21. FullLog(dlog') => \A id \in forgotten' : Dropped(dlog', id)
  BY <1>13, <1>20, ForgottenKept
<1>22. job'.at \notin {"prune_begin", "remove", "rewrite", "close_ledger"}
  BY <1>8
<1> QED
  BY <1>1, <1>7, <1>12, <1>13, <1>14, <1>15, <1>16, <1>17, <1>18, <1>19, <1>20, <1>21, <1>22, TickFrame

-----------------------------------------------------------------------------
(* The retention.                                                          *)

\* The job is at a place where nothing is being made or recorded.
LEMMA LateJob ==
  ASSUME job'.at \in Late, job' \in Jobs
  PROVE  ~ Making' /\ ~ Chosen' /\ job'.at \notin Recording /\ job'.at \notin Early /\ job'.at # "link" /\ Eased
BY DEF Making, Chosen, Eased, Late, Early, Recording

\* A step of the retention that leaves the files alone.
LEMMA RetireFrame ==
  ASSUME PInv, job' \in Jobs, job'.at \in Late,
         UNCHANGED <<unit, wm, wmTmp, ledger, ticks, other, others, historyVars>>, errors' \in Nat,
         LogInv', NEW A, Logged(dlog, dlog', A),
         \A l \in A : /\ l \in DLines /\ l.kind = "snapshot_retention" /\ l.targets \subseteq AllRefs
                      /\ Foreign(dlog, l, "verification_compaction")
                      /\ l.state = "completed" => l.targets \intersect (DiskRefs \union outside) = {},
         Planned',
         Retiring' => /\ Owns(dlog', job'.seq, "snapshot_retention")
                      /\ Classified(dlog') =>
                           \A l \in Lines(dlog') : l.group = job'.seq => l.targets = {Reference(unit[job'.n].man)}
                      /\ ~ job'.failed /\ "manifest" \notin Left(job'.todo) => Reference(unit[job'.n].man) \notin outside
                      /\ FullLog(dlog') => Named(dlog', Reference(unit[job'.n].man)),
         job'.at = "remove" /\ job'.seq = 0 /\ Classified(dlog') => job'.n \notin Published
  PROVE  PInv'
<1>1. Typed /\ LogInv /\ Layout /\ Marked /\ Ledgered /\ Honest /\ Ticking
  BY TickingStays DEF PInv
<1>2. ~ Making' /\ ~ Chosen' /\ job'.at \notin Recording /\ job'.at \notin Early /\ job'.at # "link" /\ Eased
  BY LateJob
<1>3. SamePublished /\ Manifests' = Manifests /\ DiskRefs' = DiskRefs /\ Published' = Published /\ unit' = unit
  BY SameUnits, SameManifests DEF SamePublished
<1>4. /\ outside' = outside /\ high' = high /\ minted' = minted /\ intact' = intact /\ forgotten' = forgotten
  BY DEF historyVars
<1>5. Mans' \subseteq Mans /\ Written' = Written
  BY <1>2, <1>3, MansShrink DEF Written, Lines
<1>6. Mentioned' \subseteq Mentioned /\ Rooted'
  BY <1>5, MentionedShrinks DEF PInv, Rooted
<1>7. Numbered' /\ Traced'
  BY <1>3, <1>4, <1>6, LogStep
<1>8. Layout' /\ Honest'
  BY <1>1, <1>2, Easing
<1>9. Marked'
  BY <1>1, <1>2, <1>4, MarkedEasing
<1>10. Distinct'
  BY <1>4 DEF PInv, Distinct
<1>11. Typed'
  BY <1>1, <1>2 DEF Typed, historyVars
<1>12. Ledgered'
  BY <1>1, <1>2, <1>3 DEF Ledgered
<1>13. Owned'
  <2>1. other'.at = "close" => Owns(dlog', other'.seq, "verification_compaction")
    <3> SUFFICES ASSUME other.at = "close" PROVE Owns(dlog', other.seq, "verification_compaction")
      OBVIOUS
    <3>1. Owns(dlog, other.seq, "verification_compaction") /\ other.seq \in Nat
      BY <1>1 DEF PInv, Owned, Typed
    <3> QED
      BY <1>1, <3>1, OwnsKept
  <2>2. job'.at \notin {"rewrite", "close_ledger"}
    BY <1>2 DEF Recording
  <2> QED
    BY <1>3, <2>1, <2>2 DEF Owned
<1>14. Washed'
  <2>1. ASSUME Classified(dlog'), NEW l \in Lines(dlog'), l.kind = "snapshot_retention", l.state = "completed"
        PROVE  l.targets \intersect (DiskRefs \union outside) = {}
    <3>1. Classified(dlog) /\ l \in Lines(dlog) \union A
      BY <2>1 DEF Logged
    <3> QED
      BY <2>1, <3>1 DEF PInv, Washed
  <2>2. DiskRefs \intersect outside = {}
    BY DEF PInv, Washed
  <2> QED
    BY <1>3, <1>4, <2>1, <2>2 DEF Washed
<1>15. OnRecord'
  <2>1. ASSUME FullLog(dlog'), NEW n \in Published', "artifact" \notin unit'[n].files
        PROVE  Named(dlog', Reference(unit'[n].man))
    <3>1. FullLog(dlog) /\ Lines(dlog) \subseteq Lines(dlog')
      BY <2>1, NamedKept
    <3>2. Named(dlog, Reference(unit[n].man))
      BY <1>3, <2>1, <3>1 DEF PInv, OnRecord
    <3> QED
      BY <1>3, <3>1, <3>2 DEF Named
  <2>2. FullLog(dlog') => \A id \in forgotten' : Dropped(dlog', id)
    BY <1>4, ForgottenKept
  <2>3. job'.at # "rewrite"
    BY <1>2 DEF Recording
  <2> QED
    BY <1>3, <2>1, <2>2, <2>3 DEF OnRecord
<1> QED
  BY <1>6, <1>7, <1>8, <1>9, <1>10, <1>11, <1>12, <1>13, <1>14, <1>15 DEF PInv

\* The snapshots beyond the retention are the oldest ones.
LEMMA ExcessOldest ==
  ASSUME Typed
  PROVE  Excess \subseteq OnDisk /\ \A k \in OnDisk, n \in Excess : k <= n => k \in Excess
<1>1. Excess \subseteq OnDisk /\ OnDisk \subseteq Snapshots
  BY DEF Excess, OnDisk
<1> SUFFICES ASSUME NEW k \in OnDisk, NEW n \in Excess, k <= n PROVE k \in Excess
  BY <1>1
<1> DEFINE U(x) == {j \in OnDisk : j >= x}
<1>2. IsFiniteSet(OnDisk)
  <2>1. IsFiniteSet(Snapshots)
    <3>1. \A a, b \in Int : IsFiniteSet(a .. b)
      BY FS_Interval
    <3> QED
      BY <3>1, ExportConstants DEF Snapshots
  <2> QED
    BY <1>1, <2>1, FS_Subset
<1>3. U(n) \subseteq U(k) /\ IsFiniteSet(U(k)) /\ IsFiniteSet(U(n))
  <2>1. U(n) \subseteq U(k)
    <3>1. n \in Nat /\ k \in Nat /\ OnDisk \subseteq Nat
      BY <1>1, SnapshotFacts
    <3>2. ASSUME NEW j \in OnDisk, j >= n PROVE j >= k
      <4>1. j \in Nat
        BY <3>1
      <4> QED
        BY <3>1, <3>2, <4>1
    <3> QED
      BY <3>2
  <2>2. U(k) \subseteq OnDisk /\ U(n) \subseteq OnDisk
    OBVIOUS
  <2> QED
    BY <1>2, <2>1, <2>2, FS_Subset
<1>4. Excess = {x \in OnDisk : Cardinality(U(x)) > Retain}
  BY DEF Excess
<1> HIDE DEF U
<1>5. Cardinality(U(n)) <= Cardinality(U(k)) /\ Cardinality(U(n)) \in Nat /\ Cardinality(U(k)) \in Nat
  BY <1>3, FS_Subset, FS_CardinalityType
<1>6. Cardinality(U(n)) > Retain /\ Retain \in Nat
  BY <1>4, ExportConstants
<1>7. Cardinality(U(k)) > Retain
  BY <1>5, <1>6
<1> QED
  BY <1>4, <1>7

LEMMA PruneScanStep ==
  ASSUME PInv, PruneScan
  PROVE  PInv'
<1>1. UNCHANGED <<dlog, self, unit, wm, wmTmp, ledger, other, ticks, others, errors, historyVars>>
  BY DEF PruneScan, dirVars, boundVars
<1>2. Typed /\ LogInv /\ errors \in Nat /\ wmTmp \in BOOLEAN
  BY DEF PInv, Typed
<1>3. CASE job' = NoJob
  BY <1>1, <1>2, <1>3, IdleJob, GivenUp
<1> DEFINE plan == [n \in Excess |-> Listing(unit[n].files)]
           place == "prune_begin"
<1>4. CASE job' = [NoJob EXCEPT !.at = place, !.plan = plan] /\ Excess # {}
  <2>1. Excess \subseteq OnDisk /\ OnDisk \subseteq Snapshots /\ \A k \in OnDisk, n \in Excess : k <= n => k \in Excess
    BY <1>2, ExcessOldest DEF OnDisk
  <2>2. \A n \in Excess : plan[n] \in Lists /\ unit[n].files \subseteq Left(plan[n])
    BY <1>2, <2>1, UnitParts, ListingFacts
  <2>3. DOMAIN plan = Excess /\ plan \in Plans
    <3>1. plan \in [Excess -> Lists]
      BY <2>2
    <3>2. Excess \in SUBSET Snapshots
      BY <2>1
    <3> HIDE DEF plan
    <3> QED
      BY <3>1, <3>2 DEF Plans
  <2> HIDE DEF plan
  <2>4. job' \in Jobs /\ job'.at = "prune_begin" /\ job'.plan = plan
    <3>1. place \in Late
      BY DEF Late
    <3> HIDE DEF place
    <3>2. job' \in Jobs /\ job'.at = place /\ job'.plan = plan
      BY <1>4, <2>3, <3>1, IdleJob DEF Jobs
    <3> QED
      BY <3>2 DEF place
  <2>5. OnDisk' = OnDisk
    BY <1>1 DEF OnDisk
  <2>6. Planned'
    BY <1>1, <1>4, <2>1, <2>2, <2>3, <2>4, <2>5 DEF Planned
  <2>7. ~ Retiring' /\ job'.at # "remove" /\ job'.at \in Late
    BY <2>4 DEF Retiring, Late
  <2>8. LogInv' /\ Logged(dlog, dlog', {})
    BY <1>1, <1>2, StayLogged DEF LogInv
  <2> QED
    BY <1>1, <1>2, <2>4, <2>6, <2>7, <2>8, RetireFrame
<1> QED
  BY <1>3, <1>4 DEF PruneScan

\* The removal of the oldest snapshot of the plan begins.
LEMMA RemovalBegins ==
  ASSUME PInv, job.at = "prune_begin", NEW seq \in Nat, RemoveNext(seq), UNCHANGED unit
  PROVE  /\ job' \in Jobs /\ job'.at = "remove" /\ job'.n = Oldest /\ job'.seq = seq /\ ~ job'.failed
         /\ Planned' /\ Oldest \in Snapshots /\ unit[Oldest].files \subseteq Left(job'.todo)
<1>1. /\ DOMAIN job.plan # {} /\ DOMAIN job.plan \subseteq Snapshots
      /\ \A k \in OnDisk, n \in DOMAIN job.plan : k <= n => k \in DOMAIN job.plan
      /\ \A n \in DOMAIN job.plan : job.plan[n] \in Lists /\ unit[n].files \subseteq Left(job.plan[n])
  BY DEF PInv, Planned
<1> DEFINE o == Oldest
           todo == job.plan[o]
           place == "remove"
<1>2. o \in DOMAIN job.plan /\ \A k \in DOMAIN job.plan : o <= k
  <2>1. DOMAIN job.plan \in SUBSET Nat
    BY <1>1, SnapshotFacts
  <2> DEFINE Low(n) == \A k \in DOMAIN job.plan : n <= k
  <2>2. \E n \in DOMAIN job.plan : Low(n)
    BY <1>1, <2>1, Least
  <2>3. o = CHOOSE n \in DOMAIN job.plan : Low(n)
    BY DEF Oldest
  <2> HIDE DEF Low, o
  <2>4. o \in DOMAIN job.plan /\ Low(o)
    BY <2>2, <2>3, Zenon
  <2> QED
    BY <2>4 DEF Low
<1>3. todo \in Lists /\ unit[o].files \subseteq Left(todo) /\ o \in Snapshots /\ o \in Nat
  BY <1>1, <1>2, SnapshotFacts
<1>4. job' = [job EXCEPT !.at = place, !.n = o, !.seq = seq, !.todo = todo, !.failed = FALSE] /\ place \in Late
  BY DEF RemoveNext, Late
<1>5. job \in Jobs
  BY DEF PInv, Typed
<1> HIDE DEF o, todo, place
<1>6. /\ job' \in Jobs /\ job'.at = place /\ job'.n = o /\ job'.seq = seq /\ job'.todo = todo /\ job'.failed = FALSE
      /\ job'.plan = job.plan
  BY <1>3, <1>4, <1>5 DEF Jobs
<1>7. OnDisk' = OnDisk
  BY DEF OnDisk
<1>8. Planned'
  BY <1>1, <1>2, <1>3, <1>6, <1>7 DEF Planned
<1> QED
  BY <1>3, <1>6, <1>8 DEF o, place

LEMMA PruneBeginStep ==
  ASSUME PInv, PruneBegin
  PROVE  PInv'
<1>1. /\ UNCHANGED <<unit, wm, wmTmp, ledger, other, ticks, others, historyVars>> /\ job.at = "prune_begin"
  BY DEF PruneBegin, dirVars, TickAt
<1>2. Typed /\ LogInv /\ errors \in Nat
  BY DEF PInv, Typed
<1>3. ASSUME RemoveNext(0), errors' \in Nat, LogInv', Logged(dlog, dlog', {}),
             Classified(dlog') => Oldest \notin Published
      PROVE  PInv'
  <2>1. job' \in Jobs /\ job'.at = "remove" /\ job'.n = Oldest /\ job'.seq = 0 /\ Planned'
    BY <1>1, <1>3, RemovalBegins
  <2>2. ~ Retiring' /\ job'.at \in Late
    BY <2>1 DEF Retiring, Late
  <2> QED
    BY <1>1, <1>3, <2>1, <2>2, RetireFrame
<1>4. CASE Targets(Oldest) = {} /\ RemoveNext(0) /\ UNCHANGED <<dlog, self, errors>>
  <2>1. Oldest \notin Published
    BY <1>4 DEF Targets
  <2>2. LogInv' /\ Logged(dlog, dlog', {})
    BY <1>2, <1>4, StayLogged DEF LogInv
  <2> QED
    BY <1>2, <1>3, <1>4, <2>1, <2>2
<1>5. CASE BeginRefused /\ RemoveNext(0) /\ UNCHANGED errors
  <2>1. ~ Classified(dlog) /\ UNCHANGED <<dlog, self>>
    BY <1>5, LogTyped DEF BeginRefused
  <2>2. LogInv' /\ Logged(dlog, dlog', {})
    BY <1>2, <2>1, StayLogged DEF LogInv
  <2> QED
    BY <1>2, <1>3, <1>5, <2>1, <2>2
<1>6. CASE BeginTorn /\ RemoveNext(0) /\ errors' = errors + 1
  BY <1>2, <1>3, <1>6, TornLogged
<1>7. CASE /\ Targets(Oldest) # {} /\ BeginDestruction("snapshot_retention", Targets(Oldest))
           /\ RemoveNext(MaxGroup(dlog) + 1) /\ UNCHANGED errors
  <2> DEFINE seq == MaxGroup(dlog) + 1
             o == Oldest
             ref == Reference(unit[o].man)
  <2>1. o \in Published /\ Targets(o) = {ref} /\ ref \in DiskRefs
    BY <1>7 DEF Targets, DiskRefs
  <2>2. ref \in Refs
    BY <1>2, <2>1, UnitParts, RefFacts DEF Published
  <2>3. seq = MaxGroup(dlog) + 1 /\ RemoveNext(seq) /\ BeginDestruction("snapshot_retention", {ref})
    BY <1>7, <2>1
  <2> HIDE DEF seq
  <2>4. LogInv' /\ OpensGroup(dlog, dlog', seq, "snapshot_retention", {ref})
    <3>1. {ref} \in SUBSET (Refs \union Nat) /\ "snapshot_retention" \in Kinds
      BY <2>2 DEF Kinds
    <3> QED
      BY <1>2, <2>3, <3>1, Opened
  <2>5. /\ seq \in Nat /\ seq # 0 /\ Owns(dlog', seq, "snapshot_retention") /\ Classified(dlog)
        /\ \A l \in Lines(dlog') : l.group = seq => l.targets = {ref}
    BY <2>4 DEF OpensGroup
  <2>6. PICK l : Intent(dlog, l, "snapshot_retention", {ref}) /\ Logged(dlog, dlog', {l})
    BY <2>4 DEF OpensGroup
  <2>7. l \in DLines /\ l.kind = "snapshot_retention" /\ l.targets = {ref} /\ l.state = "intended"
        /\ Foreign(dlog, l, "verification_compaction")
    BY <2>5, <2>6, LogTyped, IntentForeign DEF Intent
  <2>8. {ref} \subseteq AllRefs
    BY <2>1, RefsOfDisk DEF AllRefs
  <2>9. /\ job' \in Jobs /\ job'.at = "remove" /\ job'.n = o /\ job'.seq = seq /\ ~ job'.failed
        /\ Planned' /\ unit[o].files \subseteq Left(job'.todo)
    BY <1>1, <2>3, <2>5, RemovalBegins
  <2>10. "manifest" \in Left(job'.todo)
    BY <2>1, <2>9 DEF Published
  <2>11. FullLog(dlog') => Named(dlog', ref)
    <3> SUFFICES ASSUME FullLog(dlog') PROVE Named(dlog', ref)
      OBVIOUS
    <3>1. l \in Lines(dlog')
      BY <2>6, NamedKept
    <3> QED
      BY <2>7, <3>1 DEF Named
  <2>12. job'.at \in Late /\ ref = Reference(unit[job'.n].man)
    BY <2>9 DEF Late
  <2> HIDE DEF ref, o
  <2> QED
    BY <1>1, <1>2, <1>7, <2>4, <2>5, <2>6, <2>7, <2>8, <2>9, <2>10, <2>11, <2>12, RetireFrame
<1> QED
  BY <1>4, <1>5, <1>6, <1>7 DEF PruneBegin

\* A file of the snapshot n is gone.
Removed(n, f) ==
  /\ unit' \in [Snapshots -> Units]
  /\ \A k \in Snapshots : /\ unit'[k].man = unit[k].man /\ unit'[k].files \subseteq unit[k].files
                          /\ k # n => unit'[k] = unit[k]
  /\ unit'[n].files = unit[n].files \ {f}
  /\ Published' \subseteq Published /\ (f = "manifest" => n \notin Published')
  /\ \A k \in Published : k # n \/ f # "manifest" => k \in Published'
  /\ Manifests' \subseteq Manifests /\ DiskRefs' \subseteq DiskRefs /\ OnDisk' \subseteq OnDisk
  /\ \A r \in DiskRefs \ DiskRefs' : r = Reference(unit[n].man) /\ n \in Published /\ f = "manifest"

LEMMA RemovedUnits ==
  ASSUME Typed, NEW n \in Snapshots, NEW f, unit' = [unit EXCEPT ![n].files = @ \ {f}]
  PROVE  Removed(n, f)
<1>1. unit \in [Snapshots -> Units] /\ \A k \in Snapshots : unit[k] \in Units
  BY DEF Typed
<1>2. \A k \in Snapshots : /\ unit'[k].man = unit[k].man /\ unit'[k].files \subseteq unit[k].files
                           /\ k # n => unit'[k] = unit[k]
  BY <1>1 DEF Units
<1>3. unit'[n].files = unit[n].files \ {f}
  BY <1>1 DEF Units
<1>4. unit' \in [Snapshots -> Units]
  <2>1. [unit[n] EXCEPT !.files = @ \ {f}] \in Units
    BY <1>1 DEF Units
  <2> QED
    BY <1>1, <2>1
<1>5. /\ Published' \subseteq Published /\ (f = "manifest" => n \notin Published')
      /\ \A k \in Published : k # n \/ f # "manifest" => k \in Published'
  BY <1>2, <1>3 DEF Published
<1>6. OnDisk' \subseteq OnDisk
  BY <1>2 DEF OnDisk
<1>7. Published \subseteq Snapshots
  BY DEF Published
<1>8. Manifests' \subseteq Manifests /\ DiskRefs' \subseteq DiskRefs
  BY <1>2, <1>5, <1>7 DEF Manifests, DiskRefs
<1>9. ASSUME NEW r \in DiskRefs \ DiskRefs'
      PROVE  r = Reference(unit[n].man) /\ n \in Published /\ f = "manifest"
  <2>1. PICK k \in Published : r = Reference(unit[k].man)
    BY <1>9 DEF DiskRefs
  <2>2. k \notin Published'
    <3> SUFFICES ASSUME k \in Published' PROVE FALSE
      OBVIOUS
    <3>1. r = Reference(unit'[k].man)
      BY <1>2, <1>7, <2>1
    <3> QED
      BY <1>9, <3>1 DEF DiskRefs
  <2> QED
    BY <1>5, <2>1, <2>2
<1> QED
  BY <1>2, <1>3, <1>4, <1>5, <1>6, <1>8, <1>9 DEF Removed

\* A digest that was given belongs to one snapshot.
LEMMA OneSnapshot ==
  ASSUME PInv, NEW n \in Published, NEW k \in Snapshots, Reference(unit[n].man) = Reference(unit[k].man)
  PROVE  n = k
<1>1. n \in Snapshots /\ unit[n].man \in Manifests
  BY DEF Published, Manifests
<1>2. unit[n].man.digest = unit[k].man.digest
  BY <1>1, UnitParts, RefFacts DEF PInv
<1>3. unit[n].man.digest # 0
  BY <1>1, DiskFacts
<1> QED
  BY <1>1, <1>2, <1>3 DEF PInv, Distinct

\* The snapshot under removal is the oldest on disk.
LEMMA OldestFirst ==
  ASSUME PInv, job.at = "remove"
  PROVE  job.n \in Snapshots /\ \A k \in Published : k # job.n => unit[k].man.id > unit[job.n].man.id \/ job.n \notin Published
<1>1. /\ job.n \in DOMAIN job.plan /\ DOMAIN job.plan \subseteq Snapshots /\ \A k \in DOMAIN job.plan : job.n <= k
      /\ \A k \in OnDisk, n \in DOMAIN job.plan : k <= n => k \in DOMAIN job.plan
  BY DEF PInv, Planned
<1>2. ASSUME NEW k \in Published, k # job.n, job.n \in Published PROVE unit[k].man.id > unit[job.n].man.id
  <2>1. k \in OnDisk /\ k \in Nat /\ job.n \in Nat /\ k \in Snapshots /\ job.n \in Snapshots
    BY <1>1, <1>2, SnapshotFacts DEF Published, OnDisk
  <2>2. job.n < k
    BY <1>1, <1>2, <2>1
  <2>3. unit[job.n].man.id < unit[k].man.id
    BY <1>2, <2>2 DEF PInv, Layout
  <2> QED
    BY <2>1, <2>3, UnitParts DEF PInv
<1> QED
  BY <1>1, <1>2

\* Files of the oldest snapshot go.
LEMMA FileRemoved ==
  ASSUME PInv, job.at = "remove", NEW f \in unit[job.n].files, Removed(job.n, f),
         job' \in Jobs, job'.at = "remove", job'.n = job.n, job'.seq = job.seq, job'.failed = job.failed,
         job'.plan = job.plan, job'.todo \in Lists, Left(job'.todo) = Left(job.todo) \ {f},
         UNCHANGED <<dlog, self, wm, wmTmp, ledger, other, ticks, others, errors, historyVars>>
  PROVE  PInv'
<1>1. Typed /\ LogInv /\ Layout /\ Marked /\ Planned /\ Ledgered /\ Honest
  BY DEF PInv
<1>2. ~ Making' /\ ~ Chosen' /\ job'.at \notin Recording /\ job'.at \notin Early /\ job'.at # "link"
  BY LateJob DEF Late
<1>3. /\ unit' \in [Snapshots -> Units]
      /\ \A k \in Snapshots : /\ unit'[k].man = unit[k].man /\ unit'[k].files \subseteq unit[k].files
                              /\ k # job.n => unit'[k] = unit[k]
      /\ unit'[job.n].files = unit[job.n].files \ {f}
      /\ Published' \subseteq Published /\ (f = "manifest" => job.n \notin Published')
      /\ \A k \in Published : k # job.n \/ f # "manifest" => k \in Published'
      /\ Manifests' \subseteq Manifests /\ DiskRefs' \subseteq DiskRefs /\ OnDisk' \subseteq OnDisk
      /\ \A r \in DiskRefs \ DiskRefs' : r = Reference(unit[job.n].man) /\ job.n \in Published /\ f = "manifest"
  BY DEF Removed
<1>4. job.n \in Snapshots /\ job.seq \in Nat /\ Published \subseteq Snapshots
  BY <1>1, OldestFirst, JobParts DEF Published
<1>5. /\ outside' = outside /\ high' = high /\ minted' = minted /\ intact' = intact /\ forgotten' = forgotten
      /\ meddled' = meddled
  BY DEF historyVars
<1>6. Mans' = Manifests' /\ Written' = Written
  BY <1>2 DEF Mans, Written, Lines
<1>7. Mans' \subseteq Mans
  BY <1>1, <1>3, <1>6, MansTyped
<1>8. Mentioned' \subseteq Mentioned /\ Rooted'
  BY <1>6, <1>7, MentionedShrinks DEF PInv, Rooted
<1>9. Numbered'
  <2>1. Targeted' = Targeted
    BY DEF Targeted, Named
  <2>2. AllRefs' \subseteq AllRefs
    BY <1>5, <1>8, <2>1 DEF AllRefs
  <2> QED
    BY <1>5, <2>2, NumberedStep DEF PInv
<1>10. Typed'
  BY <1>1, <1>2, <1>3 DEF Typed, historyVars
<1>11. LogInv' /\ Logged(dlog, dlog', {})
  BY <1>1, StayLogged DEF LogInv
<1>12. Layout'
  <2>1. \A k \in Snapshots : k > ticks => unit'[k] = NoUnit
    <3> SUFFICES ASSUME NEW k \in Snapshots, k > ticks PROVE unit'[k] = NoUnit
      OBVIOUS
    <3>1. unit[k] = NoUnit
      BY <1>1 DEF Layout
    <3>2. k # job.n
      BY <3>1 DEF NoUnit
    <3> QED
      BY <1>3, <3>1, <3>2
  <2>2. \A n, k \in Published' : n < k => unit'[n].man.id < unit'[k].man.id
    BY <1>1, <1>3, <1>4 DEF Layout
  <2> QED
    BY <1>2, <2>1, <2>2 DEF Layout
<1>13. Marked'
  BY <1>1, <1>2, <1>5 DEF Marked
<1>14. Planned'
  <2>1. /\ DOMAIN job.plan # {} /\ DOMAIN job.plan \subseteq Snapshots
        /\ \A k \in OnDisk, n \in DOMAIN job.plan : k <= n => k \in DOMAIN job.plan
        /\ \A n \in DOMAIN job.plan : job.plan[n] \in Lists /\ unit[n].files \subseteq Left(job.plan[n])
        /\ job.n \in DOMAIN job.plan /\ \A k \in DOMAIN job.plan : job.n <= k
        /\ ~ job.failed => unit[job.n].files \subseteq Left(job.todo)
    BY <1>1 DEF Planned
  <2>2. \A n \in DOMAIN job.plan : unit'[n].files \subseteq Left(job.plan[n])
    BY <1>3, <2>1
  <2>3. ~ job.failed => unit'[job.n].files \subseteq Left(job'.todo)
    BY <1>3, <2>1
  <2> QED
    BY <1>3, <2>1, <2>2, <2>3 DEF Planned
<1>15. Distinct'
  BY <1>3, <1>5 DEF PInv, Distinct
<1>16. Retiring' = Retiring /\ unit'[job.n].man = unit[job.n].man
  BY <1>3, <1>4 DEF Retiring
<1>17. Owned'
  <2>1. job'.at \notin {"rewrite", "close_ledger"}
    OBVIOUS
  <2> QED
    BY <1>16, <2>1 DEF PInv, Owned
<1>18. Washed'
  <2>1. Retiring /\ ~ job.failed /\ "manifest" \notin Left(job'.todo) => Reference(unit[job.n].man) \notin outside
    <3> SUFFICES ASSUME Retiring, ~ job.failed, "manifest" \notin Left(job'.todo), Reference(unit[job.n].man) \in outside
                 PROVE  FALSE
      OBVIOUS
    <3>1. "manifest" \in Left(job.todo)
      BY DEF PInv, Washed
    <3>2. f = "manifest"
      BY <3>1
    <3>3. job.n \in Published
      BY <1>4, <3>2 DEF Published
    <3>4. Reference(unit[job.n].man) \in DiskRefs
      BY <3>3 DEF DiskRefs
    <3> QED
      BY <3>4 DEF PInv, Washed
  <2>2. DiskRefs' \intersect outside' = {}
    BY <1>3, <1>5 DEF PInv, Washed
  <2>3. ASSUME Classified(dlog'), NEW l \in Lines(dlog'), l.kind = "snapshot_retention", l.state = "completed"
        PROVE  l.targets \intersect (DiskRefs' \union outside') = {}
    BY <1>3, <1>5, <2>3 DEF PInv, Washed
  <2> QED
    BY <1>5, <1>16, <2>1, <2>2, <2>3 DEF Washed
<1>19. ASSUME FullLog(dlog), job.n \in Published PROVE Named(dlog, Reference(unit[job.n].man))
  <2>1. Classified(dlog)
    BY <1>19 DEF FullLog
  <2>2. job.seq # 0
    BY <1>19, <2>1 DEF PInv, OnRecord
  <2>3. Retiring
    BY <2>2 DEF Retiring
  <2> QED
    BY <1>19, <2>3 DEF PInv, OnRecord
<1>20. OnRecord'
  <2>1. ASSUME FullLog(dlog'), NEW n \in Published', "artifact" \notin unit'[n].files
        PROVE  Named(dlog', Reference(unit'[n].man))
    <3>1. n \in Published /\ unit'[n].man = unit[n].man /\ FullLog(dlog)
      BY <1>3, <1>4, <2>1
    <3>2. Named(dlog, Reference(unit[n].man))
      <4>1. CASE n = job.n
        BY <1>19, <3>1, <4>1
      <4>2. CASE n # job.n
        <5>1. "artifact" \notin unit[n].files
          BY <1>3, <1>4, <2>1, <3>1, <4>2
        <5> QED
          BY <3>1, <5>1 DEF PInv, OnRecord
      <4> QED
        BY <4>1, <4>2
    <3> QED
      BY <3>1, <3>2
  <2>2. FullLog(dlog') => \A id \in forgotten' : Dropped(dlog', id)
    BY <1>5, <1>11, ForgottenKept
  <2>3. FullLog(dlog') /\ Retiring' => Named(dlog', Reference(unit'[job'.n].man))
    BY <1>16 DEF PInv, OnRecord
  <2>4. job'.seq = 0 /\ Classified(dlog') => job'.n \notin Published'
    BY <1>3 DEF PInv, OnRecord
  <2> QED
    BY <2>1, <2>2, <2>3, <2>4 DEF OnRecord
<1>21. Traced'
  <2> SUFFICES ASSUME FullLog(dlog'), NEW r \in Mentioned', r \notin DiskRefs' \union outside'
               PROVE  Named(dlog', r)
    BY DEF Traced
  <2>1. FullLog(dlog) /\ r \in Mentioned /\ r \notin outside
    BY <1>5, <1>8
  <2>2. CASE r \in DiskRefs
    <3>1. r = Reference(unit[job.n].man) /\ job.n \in Published
      BY <1>3, <2>2
    <3> QED
      BY <1>19, <2>1, <3>1
  <2>3. CASE r \notin DiskRefs
    BY <2>1, <2>3 DEF PInv, Traced
  <2> QED
    BY <2>2, <2>3
<1>22. Ledgered'
  BY <1>1, <1>2, <1>3 DEF Ledgered
<1>23. Honest'
  <2> SUFFICES ASSUME meddled = 0 PROVE intact' /\ outside' = {} /\ Chained'
    BY <1>5 DEF Honest
  <2>1. intact /\ outside = {} /\ Chained
    BY <1>1 DEF Honest
  <2>2. /\ \A m \in Mans' : m.ok /\ m.prev < m.id
        /\ \A l \in Written' : l.prev < l.group
        /\ Classified(ledger') => Ascending(ledger')
    BY <1>6, <1>7, <2>1 DEF Chained
  <2>3. ASSUME NEW q \in Manifests, NEW p \in Manifests', p.id <= q.id
        PROVE  q \in Manifests'
    <3>1. PICK k \in Published : q = unit[k].man
      BY DEF Manifests
    <3>2. PICK j \in Published' : p = unit'[j].man
      BY DEF Manifests
    <3>3. j \in Published /\ p = unit[j].man /\ unit'[k].man = unit[k].man
      BY <1>3, <1>4, <3>2
    <3>4. CASE k \in Published'
      BY <3>1, <3>3, <3>4 DEF Manifests
    <3>5. CASE k \notin Published'
      <4>1. k = job.n /\ f = "manifest" /\ job.n \in Published /\ j # job.n
        BY <1>3, <3>1, <3>2, <3>5
      <4>2. unit[j].man.id > unit[job.n].man.id
        BY <3>3, <4>1, OldestFirst
      <4>3. p.id \in Nat /\ q.id \in Nat
        BY <1>3, DiskFacts
      <4> QED
        BY <2>3, <3>1, <3>3, <4>1, <4>2, <4>3
    <3> QED
      BY <3>4, <3>5
  <2>4. ASSUME NEW m \in Manifests', NEW p \in Manifests', p.id < m.id
        PROVE  \E q \in Manifests' : Reference(q) = PrevRef(m) /\ p.id <= q.id
    <3>1. PICK q \in Manifests : Reference(q) = PrevRef(m) /\ p.id <= q.id
      BY <1>3, <2>1, <2>4 DEF Chained
    <3> QED
      BY <2>3, <3>1
  <2>5. Manifests' # {} => \E m \in Manifests' : m.id = high'
    <3> SUFFICES ASSUME NEW p \in Manifests' PROVE \E m \in Manifests' : m.id = high
      BY <1>5
    <3>1. PICK m \in Manifests : m.id = high
      BY <1>3, <2>1 DEF Chained
    <3>2. p.id <= m.id
      BY <1>3, <3>1, DiskFacts
    <3> QED
      BY <2>3, <3>1, <3>2
  <2> QED
    BY <1>2, <1>5, <2>1, <2>2, <2>4, <2>5 DEF Chained
<1> QED
  BY <1>8, <1>9, <1>10, <1>11, <1>12, <1>13, <1>14, <1>15, <1>17, <1>18, <1>20, <1>21, <1>22, <1>23 DEF PInv

LEMMA PruneRemoveStep ==
  ASSUME PInv, PruneRemove
  PROVE  PInv'
<1>1. /\ UNCHANGED <<dlog, self, wm, wmTmp, ledger, other, ticks, others, historyVars>>
      /\ job.at = "remove" /\ job.todo # <<>>
  BY DEF PruneRemove, TickAt
<1>2. Typed /\ LogInv /\ Planned /\ errors \in Nat /\ job \in Jobs /\ job.todo \in Lists
  BY JobParts DEF PInv, Typed
<1> DEFINE rest == Tail(job.todo)
           f == Head(job.todo)
<1>3. rest \in Lists /\ Left(rest) = Left(job.todo) \ {f} /\ f \in Files
  BY <1>1, <1>2, ListFacts
<1> HIDE DEF rest, f
<1>4. CASE f \in unit[job.n].files /\ unit' = [unit EXCEPT ![job.n].files = @ \ {f}]
           /\ job' = [job EXCEPT !.todo = rest] /\ UNCHANGED errors
  <2>1. /\ job' \in Jobs /\ job'.at = "remove" /\ job'.n = job.n /\ job'.seq = job.seq /\ job'.failed = job.failed
        /\ job'.plan = job.plan /\ job'.todo = rest
    BY <1>1, <1>2, <1>3, <1>4 DEF Jobs
  <2>2. Removed(job.n, f)
    BY <1>1, <1>2, <1>4, OldestFirst, RemovedUnits
  <2> QED
    BY <1>1, <1>3, <1>4, <2>1, <2>2, FileRemoved
<1>5. CASE job' = [job EXCEPT !.todo = rest, !.failed = TRUE] /\ UNCHANGED unit /\ errors' \in {errors, errors + 1}
  <2>1. /\ job' \in Jobs /\ job'.at = "remove" /\ job'.n = job.n /\ job'.seq = job.seq /\ job'.failed = TRUE
        /\ job'.plan = job.plan /\ job'.todo = rest
    BY <1>1, <1>2, <1>3, <1>5 DEF Jobs
  <2>2. OnDisk' = OnDisk
    BY <1>5 DEF OnDisk
  <2>3. Planned'
    BY <1>1, <1>2, <1>5, <2>1, <2>2 DEF Planned
  <2>4. Retiring' = Retiring /\ job'.at \in Late
    BY <1>1, <2>1 DEF Retiring, Late
  <2>5. LogInv' /\ Logged(dlog, dlog', {})
    BY <1>1, <1>2, StayLogged DEF LogInv
  <2>6. Retiring' => /\ Owns(dlog', job'.seq, "snapshot_retention")
                     /\ Classified(dlog') =>
                          \A l \in Lines(dlog') : l.group = job'.seq => l.targets = {Reference(unit[job'.n].man)}
                     /\ FullLog(dlog') => Named(dlog', Reference(unit[job'.n].man))
    BY <1>1, <2>1, <2>4 DEF PInv, Owned, OnRecord
  <2>7. job'.seq = 0 /\ Classified(dlog') => job'.n \notin Published
    BY <1>1, <2>1 DEF PInv, OnRecord
  <2>8. errors' \in Nat
    BY <1>2, <1>5
  <2> QED
    BY <1>1, <1>5, <2>1, <2>3, <2>4, <2>5, <2>6, <2>7, <2>8, RetireFrame
<1> QED
  BY <1>4, <1>5 DEF PruneRemove, rest, f

LEMMA PruneCloseStep ==
  ASSUME PInv, PruneClose
  PROVE  PInv'
<1>1. /\ UNCHANGED <<unit, wm, wmTmp, ledger, other, ticks, others, errors, historyVars>>
      /\ job.at = "remove" /\ job.todo = <<>>
  BY DEF PruneClose, TickAt, dirVars, boundVars
<1>2. Typed /\ LogInv /\ Planned /\ errors \in Nat /\ job \in Jobs /\ job.seq \in Nat
  BY JobParts DEF PInv, Typed
<1>3. ~ job.failed => unit[job.n].files = {} /\ job.n \notin Published /\ job.n \notin OnDisk
  <2>1. Left(job.todo) = {}
    BY <1>1, <1>2, JobParts, ListFacts
  <2> QED
    BY <1>1, <1>2, <2>1 DEF Planned, Published, OnDisk
<1> DEFINE rest == DOMAIN job.plan \ {job.n}
           plan == [n \in rest |-> job.plan[n]]
           place == "prune_begin"
<1>4. /\ job' \in Jobs /\ job'.at \in {"idle", "prune_begin"} /\ Planned'
  <2>1. CASE job' = NoJob
    BY <2>1, IdleJob DEF Planned
  <2>2. CASE job' = [NoJob EXCEPT !.at = place, !.plan = plan] /\ ~ job.failed /\ rest # {}
    <3>1. /\ DOMAIN job.plan \subseteq Snapshots
          /\ \A k \in OnDisk, n \in DOMAIN job.plan : k <= n => k \in DOMAIN job.plan
          /\ \A n \in DOMAIN job.plan : job.plan[n] \in Lists /\ unit[n].files \subseteq Left(job.plan[n])
      BY <1>1, <1>2 DEF Planned
    <3>2. plan \in [rest -> Lists] /\ rest \in SUBSET Snapshots /\ DOMAIN plan = rest /\ \A n \in rest : plan[n] = job.plan[n]
      BY <3>1
    <3> HIDE DEF plan
    <3>3. plan \in Plans /\ place \in Late
      BY <3>2 DEF Plans, Late
    <3>4. job' \in Jobs /\ job'.at = "prune_begin" /\ job'.plan = plan
      <4> HIDE DEF place
      <4>1. job' \in Jobs /\ job'.at = place /\ job'.plan = plan
        BY <2>2, <3>3, IdleJob DEF Jobs
      <4> QED
        BY <4>1 DEF place
    <3>5. OnDisk' = OnDisk
      BY <1>1 DEF OnDisk
    <3>6. \A k \in OnDisk, n \in rest : k <= n => k \in rest
      BY <1>3, <2>2, <3>1
    <3>7. \A n \in rest : plan[n] \in Lists /\ unit[n].files \subseteq Left(plan[n])
      BY <3>1, <3>2
    <3>8. Planned'
      <4> HIDE DEF rest
      <4> QED
        BY <1>1, <2>2, <3>2, <3>4, <3>5, <3>6, <3>7 DEF Planned
    <3> QED
      BY <3>4, <3>8
  <2> QED
    BY <2>1, <2>2 DEF PruneClose
<1>5. ~ Retiring' /\ job'.at # "remove" /\ job'.at \in Late
  BY <1>4 DEF Retiring, Late
<1>6. CASE UNCHANGED <<dlog, self>>
  <2>1. LogInv' /\ Logged(dlog, dlog', {})
    BY <1>2, <1>6, StayLogged DEF LogInv
  <2> QED
    BY <1>1, <1>2, <1>4, <1>5, <2>1, RetireFrame
<1> DEFINE s == PruneOutcome
           ref == Reference(unit[job.n].man)
<1>7. CASE CompleteDestruction("tick", job.seq, s) /\ job.seq # 0
  <2>1. s \in {"completed", "aborted"} /\ (s = "completed" => ~ job.failed) /\ Retiring
    BY <1>1, <1>7 DEF PruneOutcome, Retiring
  <2> HIDE DEF s
  <2>2. LogInv' /\ \E o, l : Closing(dlog, o, l, job.seq, s) /\ Logged(dlog, dlog', {l})
    BY <1>2, <1>7, <2>1, CloseLogged
  <2>3. PICK o, l : Closing(dlog, o, l, job.seq, s) /\ Logged(dlog, dlog', {l})
    BY <2>2
  <2>4. Classified(dlog) /\ o \in Lines(dlog) /\ o.group = job.seq
    BY <1>7, <2>3 DEF CompleteDestruction, Closable, Writable, Closing
  <2>5. o.kind = "snapshot_retention" /\ o.targets = {ref}
    BY <2>1, <2>4 DEF PInv, Owned, Owns
  <2>6. l \in DLines /\ l.kind = "snapshot_retention" /\ l.targets = {ref} /\ l.state = s
        /\ Foreign(dlog, l, "verification_compaction")
    BY <2>3, <2>4, <2>5 DEF Closing, Foreign
  <2>7. job.n \in Snapshots
    BY <1>1, OldestFirst
  <2>8. {ref} \subseteq AllRefs
    <3>1. ref \in Refs
      BY <1>2, <2>7, UnitParts, RefFacts
    <3> HIDE DEF ref
    <3>2. Named(dlog, ref)
      BY <2>4, <2>5 DEF Named
    <3> QED
      BY <2>4, <3>1, <3>2 DEF AllRefs, Targeted
  <2>9. ASSUME s = "completed" PROVE ref \notin DiskRefs \union outside
    <3>1. ~ job.failed /\ job.n \notin Published
      BY <1>3, <2>1, <2>9
    <3>2. ref \notin outside
      <4>1. "manifest" \notin Left(job.todo)
        BY <1>1, <1>2, JobParts, ListFacts
      <4> QED
        BY <2>1, <3>1, <4>1 DEF PInv, Washed
    <3>3. ASSUME ref \in DiskRefs PROVE FALSE
      <4>1. PICK k \in Published : ref = Reference(unit[k].man)
        BY <3>3 DEF DiskRefs
      <4>2. k = job.n
        BY <2>7, <4>1, OneSnapshot
      <4> QED
        BY <3>1, <4>2
    <3> QED
      BY <3>2, <3>3
  <2> HIDE DEF ref
  <2> QED
    BY <1>1, <1>2, <1>4, <1>5, <2>2, <2>3, <2>6, <2>8, <2>9, RetireFrame
<1> QED
  BY <1>6, <1>7 DEF PruneClose, CompleteRefused

-----------------------------------------------------------------------------
(* Somebody outside.                                                       *)

\* What somebody outside does to the files keeps what records refer to.
Meddling ==
  /\ unit' \in [Snapshots -> Units]
  /\ \A k \in Snapshots : /\ unit'[k].files \subseteq unit[k].files
                          /\ unit'[k].man.id = unit[k].man.id /\ unit'[k].man.digest = unit[k].man.digest
                          /\ unit'[k].man.prev = unit[k].man.prev /\ unit'[k].man.prevd = unit[k].man.prevd
                          /\ k \notin Published => unit'[k] = unit[k]
                          /\ "artifact" \in unit[k].files => "artifact" \in unit'[k].files

LEMMA MeddledStep ==
  ASSUME PInv, Meddling, UNCHANGED <<dlog, self, ledger, job, other, wmTmp, ticks, others, errors, minted, high, forgotten>>,
         wm' \in Nat \union {Missing}, Marked', meddled' = meddled + 1, intact' \in BOOLEAN, intact' => intact,
         outside \subseteq outside', outside' \subseteq outside \union DiskRefs,
         DiskRefs \subseteq DiskRefs' \union outside', DiskRefs' \intersect outside' = {},
         Retiring /\ ~ job.failed /\ "manifest" \notin Left(job.todo) => Reference(unit[job.n].man) \notin outside'
  PROVE  PInv'
<1>1. Typed /\ LogInv /\ Layout /\ Planned /\ Ledgered /\ Published \subseteq Snapshots
  BY DEF PInv, Published
<1>2. /\ unit' \in [Snapshots -> Units]
      /\ \A k \in Snapshots : /\ unit'[k].files \subseteq unit[k].files
                              /\ unit'[k].man.id = unit[k].man.id /\ unit'[k].man.digest = unit[k].man.digest
                              /\ unit'[k].man.prev = unit[k].man.prev /\ unit'[k].man.prevd = unit[k].man.prevd
                              /\ k \notin Published => unit'[k] = unit[k]
                              /\ "artifact" \in unit[k].files => "artifact" \in unit'[k].files
  BY DEF Meddling
<1>3. \A k \in Snapshots : Reference(unit'[k].man) = Reference(unit[k].man) /\ PrevRef(unit'[k].man) = PrevRef(unit[k].man)
  BY <1>2 DEF Reference, PrevRef
<1>4. Published' \subseteq Published /\ OnDisk' \subseteq OnDisk
  BY <1>2 DEF Published, OnDisk
<1>5. DiskRefs' \subseteq DiskRefs
  <2>1. DiskRefs' = {Reference(unit'[k].man) : k \in Published'}
    BY DEF DiskRefs
  <2> QED
    BY <1>1, <1>3, <1>4, <2>1 DEF DiskRefs
<1>6. Chosen' = Chosen /\ Making' = Making /\ Retiring' = Retiring /\ Written' = Written /\ Targeted' = Targeted
      /\ Dropping' = Dropping
  BY DEF Chosen, Making, Retiring, Written, Lines, Targeted, Named, Dropping
<1>7. \A m \in Mans' : \E p \in Mans : /\ Reference(m) = Reference(p) /\ PrevRef(m) = PrevRef(p) /\ m.prev = p.prev
                                       /\ m.prevd = p.prevd
  <2> SUFFICES ASSUME NEW m \in Mans'
               PROVE  \E p \in Mans : /\ Reference(m) = Reference(p) /\ PrevRef(m) = PrevRef(p) /\ m.prev = p.prev
                                      /\ m.prevd = p.prevd
    OBVIOUS
  <2>1. CASE m \in Manifests'
    <3>1. PICK k \in Published' : m = unit'[k].man
      BY <2>1 DEF Manifests
    <3>2. k \in Snapshots /\ unit[k].man \in Mans
      BY <1>1, <1>4, <3>1 DEF Mans, Manifests
    <3> QED
      BY <1>2, <1>3, <3>1, <3>2
  <2>2. CASE m \notin Manifests'
    <3>1. m \in Mans
      BY <1>6, <2>2 DEF Mans
    <3> QED
      BY <3>1
  <2> QED
    BY <2>1, <2>2
<1>8. Mentioned' \subseteq Mentioned
  <2> SUFFICES ASSUME NEW r \in Mentioned' PROVE r \in Mentioned
    OBVIOUS
  <2>1. \/ \E m \in Mans' : r = Reference(m)
        \/ \E m \in Mans' : m.prev # 0 /\ r = PrevRef(m)
        \/ \E l \in Written' : r = LineRef(l)
        \/ \E l \in Written' : l.prev # 0 /\ r = PrevRef(l)
    BY DEF Mentioned
  <2>2. \/ \E m \in Mans : r = Reference(m)
        \/ \E m \in Mans : m.prev # 0 /\ r = PrevRef(m)
        \/ \E l \in Written : r = LineRef(l)
        \/ \E l \in Written : l.prev # 0 /\ r = PrevRef(l)
    BY <1>6, <1>7, <2>1
  <2> QED
    BY <2>2 DEF Mentioned
<1>9. Numbered' /\ Rooted'
  <2>1. AllRefs' \subseteq AllRefs
    BY <1>6, <1>8, RefsOfDisk DEF AllRefs
  <2> QED
    BY <1>6, <1>7, <2>1, NumberedStep DEF PInv, Rooted
<1>10. Typed'
  <2>1. outside' \in SUBSET Refs
    <3>1. DiskRefs \subseteq Refs
      BY <1>1, UnitParts, RefFacts DEF DiskRefs
    <3> QED
      BY <1>1, <3>1 DEF Typed
  <2>2. meddled' \in Nat
    BY <1>1 DEF Typed
  <2> QED
    BY <1>1, <1>2, <2>1, <2>2 DEF Typed
<1>11. LogInv' /\ Logged(dlog, dlog', {})
  BY <1>1, StayLogged DEF LogInv
<1>12. Layout'
  <2>1. \A k \in Snapshots : k > ticks => unit'[k] = NoUnit
    <3> SUFFICES ASSUME NEW k \in Snapshots, k > ticks PROVE unit'[k] = NoUnit
      OBVIOUS
    <3>1. unit[k] = NoUnit
      BY <1>1 DEF Layout
    <3>2. k \notin Published
      BY <3>1 DEF NoUnit, Published
    <3> QED
      BY <1>2, <3>1, <3>2
  <2>2. Making => unit'[job.n].files = {"artifact"}
    <3> SUFFICES ASSUME Making PROVE unit'[job.n].files = {"artifact"}
      OBVIOUS
    <3>1. job.n = ticks /\ ticks >= 1 /\ unit[job.n].files = {"artifact"}
      BY <1>1 DEF Layout
    <3>2. job.n \in Snapshots /\ job.n \notin Published
      BY <1>1, <3>1, SnapshotFacts DEF Typed, Published
    <3> QED
      BY <1>2, <3>1, <3>2
  <2>3. \A n, k \in Published' : n < k => unit'[n].man.id < unit'[k].man.id
    BY <1>1, <1>2, <1>4 DEF Layout
  <2>4. Chosen => \A n \in Published' : unit'[n].man.id < job.id
    BY <1>1, <1>2, <1>4 DEF Layout
  <2> QED
    BY <1>1, <1>6, <2>1, <2>2, <2>3, <2>4 DEF Layout
<1>13. Planned'
  <2>1. \A n \in DOMAIN job.plan : n \in Snapshots /\ unit[n].files \subseteq Left(job.plan[n]) =>
          unit'[n].files \subseteq Left(job.plan[n])
    BY <1>2
  <2>2. job.n \in Snapshots /\ unit[job.n].files \subseteq Left(job.todo) => unit'[job.n].files \subseteq Left(job.todo)
    BY <1>2
  <2>3. job.at \in {"prune_begin", "remove"} =>
          /\ DOMAIN job.plan # {} /\ DOMAIN job.plan \subseteq Snapshots
          /\ \A k \in OnDisk', n \in DOMAIN job.plan : k <= n => k \in DOMAIN job.plan
          /\ \A n \in DOMAIN job.plan : job.plan[n] \in Lists /\ unit'[n].files \subseteq Left(job.plan[n])
    BY <1>1, <1>4, <2>1 DEF Planned
  <2>4. job.at = "remove" =>
          /\ job.n \in DOMAIN job.plan /\ \A k \in DOMAIN job.plan : job.n <= k
          /\ ~ job.failed => unit'[job.n].files \subseteq Left(job.todo)
    BY <1>1, <2>2, <2>3 DEF Planned
  <2> QED
    BY <2>3, <2>4 DEF Planned
<1>14. Distinct'
  BY <1>2 DEF PInv, Distinct
<1>15. Retiring => job.n \in Snapshots /\ Reference(unit'[job.n].man) = Reference(unit[job.n].man)
  BY <1>3, OldestFirst DEF Retiring
<1>16. Owned'
  BY <1>6, <1>15 DEF PInv, Owned
<1>17. Washed'
  <2>1. ASSUME Classified(dlog'), NEW l \in Lines(dlog'), l.kind = "snapshot_retention", l.state = "completed"
        PROVE  l.targets \intersect (DiskRefs' \union outside') = {}
    <3>1. l.targets \intersect (DiskRefs \union outside) = {}
      BY <2>1 DEF PInv, Washed
    <3> QED
      BY <1>5, <3>1
  <2> QED
    BY <1>6, <1>15, <2>1 DEF Washed
<1>18. OnRecord'
  <2>1. ASSUME FullLog(dlog'), NEW n \in Published', "artifact" \notin unit'[n].files
        PROVE  Named(dlog', Reference(unit'[n].man))
    <3>1. n \in Published /\ n \in Snapshots /\ "artifact" \notin unit[n].files /\ FullLog(dlog)
      BY <1>1, <1>2, <1>4, <2>1
    <3>2. Named(dlog, Reference(unit[n].man))
      BY <3>1 DEF PInv, OnRecord
    <3> QED
      BY <1>3, <3>1, <3>2
  <2>2. FullLog(dlog') => \A id \in forgotten' : Dropped(dlog', id)
    BY <1>11, ForgottenKept
  <2>3. FullLog(dlog') /\ Retiring' => Named(dlog', Reference(unit'[job'.n].man))
    BY <1>6, <1>15 DEF PInv, OnRecord
  <2>4. job'.at = "remove" /\ job'.seq = 0 /\ Classified(dlog') => job'.n \notin Published'
    BY <1>4 DEF PInv, OnRecord
  <2>5. FullLog(dlog') /\ job'.at = "rewrite" => \A id \in Dropping' : Dropped(dlog', id)
    BY <1>6 DEF PInv, OnRecord
  <2> QED
    BY <2>1, <2>2, <2>3, <2>4, <2>5 DEF OnRecord
<1>19. Traced'
  BY <1>8 DEF PInv, Traced
<1>20. Ledgered'
  <2>1. \A m \in Manifests' : \E p \in Manifests : m.prev = p.prev
    <3> SUFFICES ASSUME NEW m \in Manifests' PROVE \E p \in Manifests : m.prev = p.prev
      OBVIOUS
    <3>1. PICK k \in Published' : m = unit'[k].man
      BY DEF Manifests
    <3>2. k \in Snapshots /\ unit[k].man \in Manifests
      BY <1>1, <1>4, <3>1 DEF Manifests
    <3> QED
      BY <1>2, <3>1, <3>2
  <2> QED
    BY <1>1, <2>1 DEF Ledgered
<1>21. Honest'
  <2>1. meddled' # 0
    BY <1>1 DEF Typed
  <2> QED
    BY <2>1 DEF Honest
<1> QED
  BY <1>9, <1>10, <1>11, <1>12, <1>13, <1>14, <1>16, <1>17, <1>18, <1>19, <1>20, <1>21 DEF PInv

LEMMA RemovedOutsideStep ==
  ASSUME PInv, NEW n \in Snapshots, RemovedOutside(n)
  PROVE  PInv'
<1> DEFINE ref == Reference(unit[n].man)
<1>1. /\ UNCHANGED <<dlog, self, ledger, job, other, wm, wmTmp, ticks, others, errors, intact, minted, high, forgotten>>
      /\ n \in Published /\ unit' = [unit EXCEPT ![n].files = @ \ {"manifest"}] /\ meddled' = meddled + 1
      /\ outside' = outside \union {ref}
  BY DEF RemovedOutside, boundVars
<1>2. Typed /\ Marked /\ Planned
  BY DEF PInv
<1>3. Removed(n, "manifest")
  BY <1>1, <1>2, RemovedUnits
<1>4. /\ unit' \in [Snapshots -> Units]
      /\ \A k \in Snapshots : /\ unit'[k].man = unit[k].man /\ unit'[k].files \subseteq unit[k].files
                              /\ k # n => unit'[k] = unit[k]
      /\ unit'[n].files = unit[n].files \ {"manifest"}
      /\ n \notin Published' /\ DiskRefs' \subseteq DiskRefs /\ Published' \subseteq Published
      /\ \A r \in DiskRefs \ DiskRefs' : r = ref
  BY <1>3 DEF Removed
<1>5. Meddling
  <2>1. \A k \in Snapshots : "artifact" \in unit[k].files => "artifact" \in unit'[k].files
    BY <1>4
  <2> QED
    BY <1>1, <1>4, <2>1 DEF Meddling
<1>6. Marked'
  BY <1>1, <1>2 DEF Marked, Making, Chosen
<1>7. ref \in DiskRefs
  BY <1>1 DEF DiskRefs
<1>8. ref \notin DiskRefs'
  <2> SUFFICES ASSUME ref \in DiskRefs' PROVE FALSE
    OBVIOUS
  <2>1. PICK k \in Published' : ref = Reference(unit'[k].man)
    BY DEF DiskRefs
  <2>2. k \in Snapshots /\ unit'[k].man = unit[k].man
    BY <1>4, <2>1 DEF Published
  <2>3. n = k
    BY <1>1, <2>1, <2>2, OneSnapshot
  <2> QED
    BY <1>4, <2>1, <2>3
<1>9. DiskRefs' \intersect outside' = {}
  <2>1. DiskRefs \intersect outside = {}
    BY DEF PInv, Washed
  <2> QED
    BY <1>1, <1>4, <1>8, <2>1
<1>10. ASSUME Retiring, ~ job.failed, "manifest" \notin Left(job.todo), Reference(unit[job.n].man) \in outside'
       PROVE  FALSE
  <2>1. Reference(unit[job.n].man) = ref
    BY <1>1, <1>10 DEF PInv, Washed
  <2>2. job.n \in Snapshots /\ job.at = "remove"
    BY <1>10, OldestFirst DEF Retiring
  <2>3. n = job.n
    BY <1>1, <2>1, <2>2, OneSnapshot
  <2> QED
    BY <1>1, <1>2, <1>10, <2>2, <2>3 DEF Planned, Published
<1> HIDE DEF ref
<1>11. wm' \in Nat \union {Missing} /\ intact' \in BOOLEAN
  BY <1>1, <1>2 DEF Typed
<1>12. /\ outside \subseteq outside' /\ outside' \subseteq outside \union DiskRefs
       /\ DiskRefs \subseteq DiskRefs' \union outside'
  BY <1>1, <1>4, <1>7
<1> QED
  BY <1>1, <1>5, <1>6, <1>9, <1>10, <1>11, <1>12, MeddledStep

LEMMA AlteredOutsideStep ==
  ASSUME PInv, NEW n \in Snapshots, AlteredOutside(n)
  PROVE  PInv'
<1>1. /\ UNCHANGED <<dlog, self, ledger, job, other, wm, wmTmp, ticks, others, errors, outside, intact, minted, high, forgotten>>
      /\ n \in Published /\ unit' = [unit EXCEPT ![n].man.ok = FALSE] /\ meddled' = meddled + 1
  BY DEF AlteredOutside, boundVars
<1>2. Typed /\ Marked /\ unit \in [Snapshots -> Units]
  BY DEF PInv, Typed
<1>3. Meddling
  <2>1. unit[n] \in Units /\ unit[n].man \in ManRecords
    BY <1>2, UnitParts
  <2> DEFINE m == [unit[n].man EXCEPT !.ok = FALSE]
             u == [unit[n] EXCEPT !.man = m]
  <2>2. /\ m \in ManRecords /\ m.id = unit[n].man.id /\ m.digest = unit[n].man.digest
        /\ m.prev = unit[n].man.prev /\ m.prevd = unit[n].man.prevd
    BY <2>1 DEF ManRecords
  <2> HIDE DEF m
  <2>3. u \in Units /\ u.man = m /\ u.files = unit[n].files
    BY <2>1, <2>2 DEF Units
  <2>4. unit' = [unit EXCEPT ![n] = u]
    BY <1>1, <1>2, <2>1 DEF m
  <2> HIDE DEF u
  <2>5. unit' \in [Snapshots -> Units] /\ unit'[n] = u /\ \A k \in Snapshots : k # n => unit'[k] = unit[k]
    BY <1>2, <2>3, <2>4
  <2> QED
    BY <1>1, <2>2, <2>3, <2>5 DEF Meddling
<1>4. DiskRefs' = DiskRefs
  <2>1. \A k \in Snapshots : Reference(unit'[k].man) = Reference(unit[k].man)
    BY <1>3 DEF Meddling, Reference
  <2>2. Published' = Published
    <3>1. \A k \in Snapshots : unit'[k].files = unit[k].files
      BY <1>1, <1>2 DEF Units
    <3> QED
      BY <3>1 DEF Published
  <2>3. DiskRefs' = {Reference(unit'[k].man) : k \in Published'} /\ Published \subseteq Snapshots
    BY DEF DiskRefs, Published
  <2> QED
    BY <2>1, <2>2, <2>3 DEF DiskRefs
<1>5. Marked'
  BY <1>1, <1>2 DEF Marked, Making, Chosen
<1>6. DiskRefs \intersect outside = {}
  BY DEF PInv, Washed
<1>7. Retiring /\ ~ job.failed /\ "manifest" \notin Left(job.todo) => Reference(unit[job.n].man) \notin outside'
  BY <1>1 DEF PInv, Washed
<1>8. wm' \in Nat \union {Missing} /\ intact' \in BOOLEAN
  BY <1>1, <1>2 DEF Typed
<1> QED
  BY <1>1, <1>3, <1>4, <1>5, <1>6, <1>7, <1>8, MeddledStep

LEMMA WatermarkReplacedStep ==
  ASSUME PInv, WatermarkReplaced
  PROVE  PInv'
<1>1. /\ UNCHANGED <<dlog, self, unit, ledger, job, other, wmTmp, ticks, others, errors, outside, minted, high, forgotten>>
      /\ wm' \in {Missing, 0} /\ intact' = FALSE /\ meddled' = meddled + 1
  BY DEF WatermarkReplaced, boundVars
<1>2. Typed /\ Marked /\ Layout /\ unit \in [Snapshots -> Units]
  BY DEF PInv, Typed
<1>3. Meddling
  BY <1>1, <1>2 DEF Meddling
<1>4. DiskRefs' = DiskRefs
  BY <1>1, SameUnits, SameManifests
<1>5. Marked'
  <2>1. wm' <= ticks
    BY <1>1, <1>2 DEF Typed, Missing
  <2>2. job.at = "allocate" => wm' < ticks
    <3> SUFFICES ASSUME job.at = "allocate" PROVE wm' < ticks
      OBVIOUS
    <3>1. ticks >= 1 /\ ticks \in Nat
      BY <1>2 DEF Layout, Making, Early, Typed
    <3> QED
      BY <1>1, <3>1 DEF Missing
  <2>3. Making' = Making
    BY <1>1 DEF Making, Chosen
  <2> QED
    BY <1>1, <1>2, <2>1, <2>2, <2>3 DEF Marked
<1>6. DiskRefs \intersect outside = {}
  BY DEF PInv, Washed
<1>7. Retiring /\ ~ job.failed /\ "manifest" \notin Left(job.todo) => Reference(unit[job.n].man) \notin outside'
  BY <1>1 DEF PInv, Washed
<1>8. wm' \in Nat \union {Missing} /\ intact' \in BOOLEAN
  <2>1. wm' \in Nat \union {Missing}
    BY <1>1
  <2>2. intact' \in BOOLEAN
    BY <1>1, Zenon
  <2> QED
    BY <2>1, <2>2
<1> QED
  BY <1>1, <1>3, <1>4, <1>5, <1>6, <1>7, <1>8, MeddledStep

-----------------------------------------------------------------------------
(* The invariant.                                                          *)

LEMMA InitPInv ==
  ASSUME Init
  PROVE  PInv
<1>1. /\ dlog = <<>> /\ self = NoSelf /\ wm = 0 /\ wmTmp = FALSE /\ unit = [n \in Snapshots |-> NoUnit]
      /\ ledger = <<>> /\ job = NoJob /\ other = [at |-> "idle", seq |-> 0] /\ ticks = 0 /\ others = 0 /\ errors = 0
      /\ outside = {} /\ meddled = 0 /\ intact = TRUE /\ minted = 0 /\ high = 0 /\ forgotten = {}
  BY DEF Init, DInit
<1>2. job \in Jobs /\ job.at = "idle" /\ job.prev = NoManifest
  BY <1>1, IdleJob
<1>3. ~ Making /\ ~ Chosen /\ ~ Retiring /\ job.at \notin Recording /\ job.at \notin Early
  BY <1>2 DEF Making, Chosen, Retiring, Recording, Early
<1>4. /\ Published = {} /\ Manifests = {} /\ OnDisk = {} /\ DiskRefs = {} /\ \A n \in Snapshots : unit[n] = NoUnit
  BY <1>1 DEF Published, Manifests, OnDisk, DiskRefs, NoUnit
<1>5. Lines(dlog) = {} /\ Written = {} /\ Mans = {} /\ Mentioned = {} /\ AllRefs = {}
  <2>1. Lines(dlog) = {} /\ Written = {}
    BY <1>1 DEF Lines, Written
  <2>2. Mans = {}
    BY <1>3, <1>4 DEF Mans
  <2>3. Targeted = {} /\ Mentioned = {}
    BY <2>1, <2>2 DEF Targeted, Named, Mentioned
  <2> QED
    BY <1>1, <2>1, <2>2, <2>3 DEF AllRefs
<1>6. Typed
  <2>1. unit \in [Snapshots -> Units]
    BY <1>1, SnapshotFacts
  <2>2. wm \in Nat \union {Missing} /\ ticks \in Nat /\ ticks <= MaxTicks
    BY <1>1, ExportConstants
  <2>3. wmTmp \in BOOLEAN /\ intact \in BOOLEAN
    BY <1>1, Zenon
  <2>4. ledger \in Seq(EntryLines \union {Torn}) /\ other \in [at : {"idle", "observe", "close", "release"}, seq : Nat]
    BY <1>1
  <2> QED
    BY <1>1, <1>2, <1>3, <2>1, <2>2, <2>3, <2>4 DEF Typed
<1>7. LogInv
  BY <1>1 DEF LogInv, LogOK, SelfOK, Shaped, NoSelf, Selves
<1>8. Layout /\ Marked /\ Planned
  <2>1. Layout
    BY <1>3, <1>4 DEF Layout
  <2>2. Marked
    BY <1>1, <1>2, <1>3 DEF Marked
  <2>3. Planned
    BY <1>2 DEF Planned
  <2> QED
    BY <2>1, <2>2, <2>3
<1>9. Distinct /\ Numbered /\ Rooted
  BY <1>1, <1>4, <1>5 DEF Distinct, Numbered, Rooted, NoUnit, NoManifest
<1>10. Owned /\ Washed /\ OnRecord /\ Traced
  BY <1>1, <1>2, <1>3, <1>4, <1>5 DEF Owned, Washed, OnRecord, Traced
<1>11. Ledgered
  BY <1>1, <1>2, <1>3, <1>4 DEF Ledgered
<1>12. Honest
  BY <1>1, <1>3, <1>4, <1>5 DEF Honest, Chained, Ascending
<1> QED
  BY <1>6, <1>7, <1>8, <1>9, <1>10, <1>11, <1>12 DEF PInv

LEMMA NextPInv ==
  ASSUME PInv, [Next]_vars
  PROVE  PInv'
<1>1. CASE TickStep
  BY <1>1, TickSkippedStep, PublishArtifactsStep, AllocateWriteStep, AllocateCommitStep, ExtendChainStep, LinkManifestStep,
     LedgerAppendStep, LedgerAppendTornStep, LedgerObserveStep, LedgerRewriteStep, LedgerCloseStep, LedgerReleaseStep,
     PruneScanStep, PruneBeginStep, PruneRemoveStep, PruneCloseStep DEF TickStep
<1>2. CASE OtherStep
  BY <1>2, OtherOpenStep, OtherObserveStep, OtherCloseStep, OtherReleaseStep DEF OtherStep
<1>3. CASE SelfCompaction
  BY <1>3, SelfCompactionStep
<1>4. CASE Crash
  BY <1>4, CrashStep
<1>5. CASE Outsider
  BY <1>5, RemovedOutsideStep, AlteredOutsideStep, WatermarkReplacedStep DEF Outsider
<1>6. CASE UNCHANGED vars
  <2>1. /\ UNCHANGED <<dlog, self, job, unit, wm, wmTmp, ticks, others, errors, historyVars, ledger, other>>
    BY <1>6 DEF vars, dirVars, boundVars
  <2>2. LogInv' /\ Logged(dlog, dlog', {})
    BY <2>1, StayLogged DEF PInv, LogInv
  <2>3. Typed'
    BY <2>1 DEF PInv, Typed, historyVars
  <2>4. other'.at = "close" => Owns(dlog', other'.seq, "verification_compaction")
    BY <2>1 DEF PInv, Owned
  <2> QED
    BY <2>1, <2>2, <2>3, <2>4, AsideStep
<1> QED
  BY <1>1, <1>2, <1>3, <1>4, <1>5, <1>6 DEF Next

\* The inductive invariant of the export holds in every reachable state,
\* whatever the bounds, the retention and the capacities.
THEOREM PublicationInvariant ==
  Spec => []PInv
<1>1. Init => PInv
  BY InitPInv
<1>2. PInv /\ [Next]_vars => PInv'
  BY NextPInv
<1> QED
  BY <1>1, <1>2, PTL DEF Spec

-----------------------------------------------------------------------------
(* The chains verify.                                                      *)

\* A ledger that can be relied on: it records upwards, points downwards, and
\* all it says is among references that give an id one digest.
Trusted(log, R) ==
  /\ log \in Seq(EntryLines) /\ Ascending(log)
  /\ \A i \in DOMAIN log : /\ log[i].prev < log[i].group /\ LineRef(log[i]) \in R
                           /\ log[i].prev # 0 => PrevRef(log[i]) \in R
  /\ \A r \in R : r \in Refs /\ r.id # 0 /\ r.digest # 0
  /\ \A r, s \in R : r.id = s.id => r = s

LEMMA NoConflicts ==
  ASSUME NEW log, NEW R, Trusted(log, R)
  PROVE  /\ LedgerConflicts(log) = {} /\ LedgerIds(log) = Groups(log) /\ UsableIds(log) = Groups(log)
         /\ \A i \in DOMAIN log : log[i] \in EntryLines /\ log[i] # Torn
<1>1. log \in Seq(EntryLines) /\ DOMAIN log = 1 .. Len(log) /\ Len(log) \in Nat
  BY LenProperties DEF Trusted
<1>2. \A i \in DOMAIN log : log[i] \in EntryLines /\ log[i] # Torn
  <2> SUFFICES ASSUME NEW i \in DOMAIN log PROVE log[i] \in EntryLines /\ log[i] # Torn
    OBVIOUS
  <2>1. log[i] \in EntryLines
    BY <1>1
  <2> QED
    BY <2>1, LineRefFacts
<1>3. \A i, j \in DOMAIN log : log[i].group = log[j].group => log[i].digest = log[j].digest
  <2> SUFFICES ASSUME NEW i \in DOMAIN log, NEW j \in DOMAIN log, log[i].group = log[j].group
               PROVE  log[i].digest = log[j].digest
    OBVIOUS
  <2>1. LineRef(log[i]) \in R /\ LineRef(log[j]) \in R
    BY DEF Trusted
  <2>2. /\ LineRef(log[i]).id = log[i].group /\ LineRef(log[i]).digest = log[i].digest
        /\ LineRef(log[j]).id = log[j].group /\ LineRef(log[j]).digest = log[j].digest
    BY DEF LineRef
  <2>3. LineRef(log[i]) = LineRef(log[j])
    BY <2>1, <2>2 DEF Trusted
  <2> QED
    BY <2>2, <2>3
<1>4. LedgerConflicts(log) = {}
  BY <1>3 DEF LedgerConflicts
<1>5. LedgerIds(log) = Groups(log)
  BY <1>2 DEF LedgerIds, Groups
<1> QED
  BY <1>2, <1>4, <1>5 DEF UsableIds

\* The entry of an id that the ledger has.
LEMMA EntryOf ==
  ASSUME NEW log, NEW R, Trusted(log, R), NEW id \in UsableIds(log), NEW q, q = FirstAt(log, id)
  PROVE  /\ q \in DOMAIN log /\ log[q].group = id /\ LedgerEntry(log, id) = log[q]
         /\ \A r \in R : r.id = id => r.digest = log[q].digest
<1>1. log \in Seq(EntryLines) /\ id \in Groups(log)
  BY NoConflicts DEF Trusted
<1>2. q \in DOMAIN log /\ log[q].group = id
  BY <1>1, FirstLine
<1>3. LineRef(log[q]) \in R /\ LineRef(log[q]).id = id /\ LineRef(log[q]).digest = log[q].digest
  BY <1>2 DEF Trusted, LineRef
<1>4. \A r \in R : r.id = id => r.digest = log[q].digest
  BY <1>3 DEF Trusted
<1> QED
  BY <1>2, <1>4 DEF LedgerEntry

\* After n steps the walk has ended or stands on the predecessor of one of the
\* first Len(log) - n + 1 entries.
Walks == [id : Nat, digest : Nat, used : Nat, verdict : {"walking", "ended", "broken"}]
Walked(log, R, w, n) ==
  /\ w \in Walks
  /\ \/ w.verdict = "ended"
     \/ /\ w.verdict = "walking"
        /\ w.id # 0 => \E r \in R : r.id = w.id /\ r.digest = w.digest
        /\ n >= 1 => \E p \in DOMAIN log : p <= Len(log) - n + 1 /\ w.id = log[p].prev

LEMMA WalkStep ==
  ASSUME NEW log, NEW R, Trusted(log, R), NEW w, NEW n \in Nat, Walked(log, R, w, n),
         NEW u, u = BacktrackStep(log, w)
  PROVE  Walked(log, R, u, n + 1)
<1>1. /\ log \in Seq(EntryLines) /\ DOMAIN log = 1 .. Len(log) /\ Len(log) \in Nat /\ w \in Walks /\ w.id \in Nat
      /\ w.used \in Nat /\ w.digest \in Nat
  BY LenProperties DEF Trusted, Walked, Walks
<1>2. CASE w.verdict = "ended"
  BY <1>1, <1>2 DEF BacktrackStep, Walked
<1>3. ASSUME u = [w EXCEPT !.verdict = "ended"]
      PROVE  Walked(log, R, u, n + 1)
  <2>1. u \in Walks /\ u.verdict = "ended"
    BY <1>1, <1>3 DEF Walks
  <2> QED
    BY <2>1 DEF Walked
<1>4. CASE w.verdict = "walking" /\ w.id = 0
  BY <1>3, <1>4 DEF BacktrackStep
<1>5. CASE w.verdict = "walking" /\ w.id # 0 /\ w.id \notin UsableIds(log)
  <2>1. w.id \notin LedgerConflicts(log)
    BY NoConflicts
  <2> QED
    BY <1>3, <1>5, <2>1 DEF BacktrackStep
<1>6. CASE w.verdict = "walking" /\ w.id # 0 /\ w.id \in UsableIds(log)
  <2> DEFINE q == FirstAt(log, w.id)
  <2>1. /\ q \in DOMAIN log /\ log[q].group = w.id /\ LedgerEntry(log, w.id) = log[q]
        /\ \A r \in R : r.id = w.id => r.digest = log[q].digest
    BY <1>6, EntryOf
  <2>2. w.digest = log[q].digest
    BY <1>6, <2>1 DEF Walked
  <2>3. w.id \notin LedgerConflicts(log)
    BY NoConflicts
  <2> DEFINE v == IF log[q].prev # 0 /\ log[q].prevd = 0 THEN "ended" ELSE "walking"
             used == w.used + 1
  <2>4. u = [id |-> log[q].prev, digest |-> log[q].prevd, used |-> used, verdict |-> v]
    BY <1>6, <2>1, <2>2, <2>3 DEF BacktrackStep
  <2> HIDE DEF q
  <2>5. log[q] \in EntryLines /\ log[q].prev \in Nat /\ log[q].prevd \in Nat
    BY <2>1, NoConflicts, LineRefFacts
  <2>6. used \in Nat /\ v \in {"walking", "ended"}
    BY <1>1
  <2> HIDE DEF v, used
  <2>7. u \in Walks /\ u.id = log[q].prev /\ u.digest = log[q].prevd /\ u.verdict = v
    BY <2>4, <2>5, <2>6 DEF Walks
  <2>8. u.id # 0 => \E r \in R : r.id = u.id /\ r.digest = u.digest
    <3> SUFFICES ASSUME u.id # 0 PROVE \E r \in R : r.id = u.id /\ r.digest = u.digest
      OBVIOUS
    <3>1. PrevRef(log[q]) \in R
      BY <2>1, <2>7 DEF Trusted
    <3>2. PrevRef(log[q]).id = log[q].prev /\ PrevRef(log[q]).digest = log[q].prevd
      BY DEF PrevRef
    <3> QED
      BY <2>7, <3>1, <3>2
  <2>9. q <= Len(log) - (n + 1) + 1
    <3>1. CASE n = 0
      BY <1>1, <2>1, <3>1
    <3>2. CASE n # 0
      <4>1. PICK p \in DOMAIN log : p <= Len(log) - n + 1 /\ w.id = log[p].prev
        BY <1>6, <3>2 DEF Walked
      <4>2. log[p].prev < log[p].group /\ log[p].group \in Nat
        BY <4>1, NoConflicts, LineRefFacts DEF Trusted
      <4>3. log[q].group < log[p].group /\ log[q].group \in Nat
        BY <1>1, <2>1, <4>1, <4>2
      <4>4. ~ (p < q) /\ p # q
        <5>1. p < q => log[p].group < log[q].group
          BY <2>1, <4>1 DEF Trusted, Ascending
        <5> QED
          BY <4>2, <4>3, <5>1
      <4>5. p \in Nat /\ q \in Nat
        BY <1>1, <2>1, <4>1
      <4>6. q < p
        BY <4>4, <4>5
      <4> QED
        BY <1>1, <4>1, <4>5, <4>6
    <3> QED
      BY <3>1, <3>2
  <2> QED
    BY <2>1, <2>6, <2>7, <2>8, <2>9 DEF Walked
<1> QED
  BY <1>2, <1>4, <1>5, <1>6 DEF Walked

\* The walk, from what the reader starts with.
WalkOf(log, w, c, f) == f = [n \in 0 .. c |-> IF n = 0 THEN w ELSE BacktrackStep(log, f[n - 1])]

LEMMA WalkExists ==
  ASSUME NEW log, NEW w, NEW c \in Nat
  PROVE  \E f : WalkOf(log, w, c, f)
<1> DEFINE T == {n \in Nat : ~ \E f : WalkOf(log, w, n, f)}
<1> SUFFICES ASSUME T # {} PROVE FALSE
  OBVIOUS
<1>1. PICK x \in T : \A y \in T : x <= y
  BY Least
<1>2. x \in Nat /\ ~ \E f : WalkOf(log, w, x, f)
  BY <1>1
<1>3. CASE x = 0
  <2> DEFINE f == [n \in 0 .. 0 |-> w]
  <2>1. f = [n \in 0 .. 0 |-> IF n = 0 THEN w ELSE BacktrackStep(log, f[n - 1])]
    OBVIOUS
  <2> HIDE DEF f
  <2>2. WalkOf(log, w, x, f)
    BY <1>3, <2>1 DEF WalkOf
  <2> QED
    BY <1>2, <2>2
<1>4. CASE x # 0
  <2>1. x - 1 \in Nat /\ x - 1 \notin T
    <3>1. x - 1 \in Nat /\ ~ (x <= x - 1)
      BY <1>2, <1>4
    <3> QED
      BY <1>1, <3>1
  <2>2. PICK f : WalkOf(log, w, x - 1, f)
    BY <2>1
  <2> DEFINE E(g, n) == IF n = 0 THEN w ELSE BacktrackStep(log, g[n - 1])
             h == [n \in 0 .. x |-> E(f, n)]
  <2>3. \A n \in 0 .. x - 1 : f[n] = E(f, n)
    BY <2>2 DEF WalkOf
  <2>4. \A n \in 0 .. x - 1 : n \in 0 .. x /\ h[n] = f[n]
    BY <1>2, <2>3
  <2>5. \A n \in 0 .. x : h[n] = IF n = 0 THEN w ELSE BacktrackStep(log, h[n - 1])
    <3> SUFFICES ASSUME NEW n \in 0 .. x, n # 0 PROVE h[n] = BacktrackStep(log, h[n - 1])
      OBVIOUS
    <3>1. n - 1 \in 0 .. x - 1
      BY <1>2
    <3>2. h[n - 1] = f[n - 1]
      BY <2>4, <3>1
    <3>3. h[n] = BacktrackStep(log, f[n - 1])
      OBVIOUS
    <3> HIDE DEF h
    <3> QED
      BY <3>2, <3>3
  <2>6. h = [n \in 0 .. x |-> h[n]]
    OBVIOUS
  <2> HIDE DEF h
  <2>7. h = [n \in 0 .. x |-> IF n = 0 THEN w ELSE BacktrackStep(log, h[n - 1])]
    BY <2>5, <2>6
  <2> QED
    BY <1>2, <2>7 DEF WalkOf
<1> QED
  BY <1>3, <1>4

\* Nothing is broken about what a trusted ledger can be asked.
LEMMA WalkEnds ==
  ASSUME NEW log, NEW R, Trusted(log, R), NEW r \in R
  PROVE  ~ BacktrackBroken(log, r.id, r.digest)
<1> DEFINE w == [id |-> r.id, digest |-> r.digest, used |-> 0, verdict |-> "walking"]
           c == Len(log) + 2
           f == CHOOSE g : WalkOf(log, w, c, g)
<1>1. log \in Seq(EntryLines) /\ DOMAIN log = 1 .. Len(log) /\ Len(log) \in Nat /\ c \in Nat
  BY LenProperties DEF Trusted
<1>2. BacktrackBroken(log, r.id, r.digest) = (f[c].verdict # "ended")
  BY DEF BacktrackBroken, WalkOf
<1>3. w \in Walks /\ Walked(log, R, w, 0)
  <2>1. r.id \in Nat /\ r.digest \in Nat
    BY DEF Trusted, Refs
  <2>2. w \in Walks /\ w.verdict = "walking" /\ w.id = r.id /\ w.digest = r.digest
    BY <2>1 DEF Walks
  <2> HIDE DEF w
  <2> QED
    BY <2>2 DEF Walked
<1> HIDE DEF w, c, f
<1>4. WalkOf(log, w, c, f)
  <2>1. \E g : WalkOf(log, w, c, g)
    BY <1>1, WalkExists
  <2> HIDE DEF WalkOf
  <2> QED
    BY <2>1, Zenon DEF f
<1>5. f[0] = w /\ \A n \in Nat : n + 1 <= c => f[n + 1] = BacktrackStep(log, f[n])
  <2>1. f[0] = w
    BY <1>1, <1>4 DEF WalkOf
  <2>2. ASSUME NEW n \in Nat, n + 1 <= c PROVE f[n + 1] = BacktrackStep(log, f[n])
    <3>1. n + 1 \in 0 .. c /\ n + 1 # 0 /\ (n + 1) - 1 = n
      BY <1>1, <2>2
    <3>2. f[n + 1] = BacktrackStep(log, f[(n + 1) - 1])
      BY <1>4, <3>1 DEF WalkOf
    <3> QED
      BY <3>1, <3>2
  <2> QED
    BY <2>1, <2>2
<1> DEFINE T == {n \in Nat : n <= c /\ ~ Walked(log, R, f[n], n)}
<1>6. T = {}
  <2> SUFFICES ASSUME T # {} PROVE FALSE
    OBVIOUS
  <2>1. PICK x \in T : \A y \in T : x <= y
    BY Least
  <2>2. x \in Nat /\ x <= c /\ ~ Walked(log, R, f[x], x)
    BY <2>1
  <2>3. x # 0
    BY <1>3, <1>5, <2>2
  <2>4. x - 1 \in Nat /\ x - 1 <= c /\ (x - 1) + 1 = x /\ ~ (x <= x - 1)
    BY <1>1, <2>2, <2>3
  <2>5. Walked(log, R, f[x - 1], x - 1)
    BY <2>1, <2>4
  <2>6. f[x] = BacktrackStep(log, f[x - 1])
    BY <1>5, <2>2, <2>4
  <2> QED
    BY <2>2, <2>4, <2>5, <2>6, WalkStep
<1>7. Walked(log, R, f[c], c)
  BY <1>1, <1>6
<1>8. f[c].verdict = "ended"
  <2> SUFFICES ASSUME f[c].verdict # "ended" PROVE FALSE
    OBVIOUS
  <2>1. c >= 1
    BY <1>1 DEF c
  <2>2. PICK p \in DOMAIN log : p <= Len(log) - c + 1
    BY <1>7, <2>1 DEF Walked
  <2> QED
    BY <1>1, <2>2 DEF c
<1> QED
  BY <1>2, <1>8

-----------------------------------------------------------------------------
(* What the readers conclude from a state with the invariant.              *)

\* A group of the destruction log as the view reads it, and its lines.
LEMMA LogReads ==
  ASSUME PInv, Classified(dlog), NEW g \in Groups(dlog)
  PROVE  /\ ~ GroupConflict(dlog, g) /\ LinesOf(dlog, g)[1] \in Lines(dlog)
         /\ GroupState(dlog, g) = "completed" =>
              \E l \in Lines(dlog) : /\ l.state = "completed" /\ l.kind = LinesOf(dlog, g)[1].kind
                                     /\ l.targets = LinesOf(dlog, g)[1].targets
<1>1. dlog \in Seq(DLines) /\ Shaped(dlog)
  BY LogTyped, ReadableLog
<1>2. PICK i \in DOMAIN dlog : GroupAt(dlog, g, i)
  BY <1>1, GroupLines
<1>3. Reads(dlog, g, i)
  BY <1>1, <1>2, GroupReads
<1>4. LinesOf(dlog, g)[1] = dlog[i] /\ ~ GroupConflict(dlog, g)
  BY <1>3 DEF Reads
<1>5. ASSUME GroupState(dlog, g) = "completed"
      PROVE  \E l \in Lines(dlog) : l.state = "completed" /\ l.kind = dlog[i].kind /\ l.targets = dlog[i].targets
  <2>1. Closed(dlog, g, i) /\ dlog[i + 1].state = "completed"
    BY <1>3, <1>5 DEF Reads
  <2> QED
    BY <2>1 DEF Closed, Lines
<1> QED
  BY <1>2, <1>4, <1>5 DEF Lines

LEMMA LineReads ==
  ASSUME PInv, Classified(dlog), NEW l \in Lines(dlog)
  PROVE  /\ l.group \in Groups(dlog) /\ LinesOf(dlog, l.group)[1].kind = l.kind
         /\ LinesOf(dlog, l.group)[1].targets = l.targets
<1>1. dlog \in Seq(DLines) /\ Shaped(dlog)
  BY LogTyped, ReadableLog
<1>2. PICK j \in DOMAIN dlog : l = dlog[j]
  BY DEF Lines
<1>3. l.group \in Groups(dlog)
  BY <1>2 DEF Groups
<1>4. PICK i \in DOMAIN dlog : GroupAt(dlog, l.group, i)
  BY <1>1, <1>3, GroupLines
<1>5. LinesOf(dlog, l.group)[1] = dlog[i]
  BY <1>1, <1>4, GroupReads DEF Reads
<1>6. dlog[i].kind = l.kind /\ dlog[i].targets = l.targets
  BY <1>2, <1>4 DEF GroupAt, Closed
<1> QED
  BY <1>3, <1>5, <1>6

LEMMA LogVerifiable ==
  ASSUME PInv
  PROVE  DestructionLogVerifiable
<1> SUFFICES ASSUME Classified(dlog)
             PROVE  ChainHolds(dlog) /\ Continuous(dlog) /\ \A g \in Groups(dlog) : ~ GroupConflict(dlog, g)
  BY DEF DestructionLogVerifiable
<1>1. dlog \in Seq(DLines) /\ Shaped(dlog)
  BY LogTyped, ReadableLog
<1>2. ChainHolds(dlog) /\ Continuous(dlog)
  BY <1>1, ShapedChain, ShapedContinuous
<1> QED
  BY <1>2, LogReads

\* The ledger of an undisturbed export can be relied on.
LEMMA LedgerTrusted ==
  ASSUME PInv, meddled = 0, Classified(ledger)
  PROVE  Trusted(ledger, AllRefs)
<1>1. intact /\ Chained /\ Typed /\ Numbered
  BY DEF PInv, Honest
<1>2. ledger \in Seq(EntryLines)
  <2>1. ledger \in Seq(EntryLines \union {Torn})
    BY <1>1 DEF Typed
  <2>2. DOMAIN ledger = 1 .. Len(ledger) /\ Len(ledger) \in Nat
    BY <2>1, LenProperties
  <2>3. \A i \in DOMAIN ledger : ledger[i] \in EntryLines
    BY <2>1, <2>2 DEF Classified
  <2>4. ledger = [i \in 1 .. Len(ledger) |-> ledger[i]]
    BY <2>1, <2>2
  <2> QED
    BY <2>2, <2>3, <2>4
<1>3. ASSUME NEW i \in DOMAIN ledger
      PROVE  /\ ledger[i].prev < ledger[i].group /\ LineRef(ledger[i]) \in AllRefs
             /\ ledger[i].prev # 0 => PrevRef(ledger[i]) \in AllRefs
  <2>1. ledger[i] \in Written
    BY DEF Written, Lines, Classified
  <2> QED
    BY <1>1, <2>1 DEF Chained, AllRefs, Mentioned
<1>4. \A r \in AllRefs : r \in Refs /\ r.id # 0 /\ r.digest # 0
  <2> SUFFICES ASSUME NEW r \in AllRefs PROVE r \in Refs /\ r.id # 0 /\ r.digest # 0
    OBVIOUS
  <2>1. r \in Refs /\ 1 <= r.id /\ 1 <= r.digest
    BY <1>1 DEF Numbered
  <2> QED
    BY <2>1 DEF Refs
<1>5. \A r, s \in AllRefs : r.id = s.id => r = s
  BY <1>1 DEF Numbered
<1> QED
  BY <1>1, <1>2, <1>3, <1>4, <1>5 DEF Trusted, Chained

LEMMA ChainHonest ==
  ASSUME PInv
  PROVE  HonestChain
<1> SUFFICES ASSUME meddled = 0, Classified(ledger), Manifests # {}
             PROVE  ChainVerdict(Manifests, ledger) # "broken"
  BY DEF HonestChain, ChainVerdict
<1>1. intact /\ Chained /\ Typed /\ Numbered /\ Trusted(ledger, AllRefs)
  BY LedgerTrusted DEF PInv, Honest
<1>2. /\ Manifests \in SUBSET ManRecords /\ Manifests \subseteq Mans
      /\ \A m \in Manifests : /\ Reference(m) \in AllRefs /\ m.id \in Nat /\ m.id <= high
                              /\ Reference(m).id = m.id /\ Reference(m).digest = m.digest
                              /\ PrevRef(m).id = m.prev /\ PrevRef(m).digest = m.prevd /\ m.prev \in Nat
  <2>1. Manifests \in SUBSET ManRecords /\ Manifests \subseteq Mans
    BY <1>1, MansTyped
  <2> QED
    BY <2>1, DiskFacts, RefFacts DEF ManRecords
<1>3. \A m, n \in Manifests : m.id = n.id => Reference(m) = Reference(n)
  BY <1>1, <1>2 DEF Numbered
<1>4. ChainNodes(Manifests) = Manifests
  BY <1>1, <1>2 DEF ChainNodes, Chained
<1>5. ASSUME NEW m \in Manifests PROVE ~ EntryContradicts(m, ledger)
  <2>1. m.id \notin LedgerConflicts(ledger)
    BY <1>1, NoConflicts
  <2>2. ASSUME m.id \in UsableIds(ledger) PROVE LedgerEntry(ledger, m.id).digest = m.digest
    <3> DEFINE q == FirstAt(ledger, m.id)
    <3>1. LedgerEntry(ledger, m.id) = ledger[q] /\ \A r \in AllRefs : r.id = m.id => r.digest = ledger[q].digest
      BY <1>1, <2>2, EntryOf
    <3> QED
      BY <1>2, <3>1
  <2> QED
    BY <2>1, <2>2 DEF EntryContradicts
<1>6. ASSUME NEW m \in Manifests PROVE ~ LinkBroken(m, Manifests)
  <2> DEFINE older == {n \in Manifests : n.id < m.id}
             p == Newest(older)
  <2> SUFFICES ASSUME older # {} PROVE m.prev = p.id /\ m.prevd = p.digest
    BY DEF LinkBroken
  <2>1. older \in SUBSET ManRecords /\ high \in Nat /\ \A n \in older : n.id <= high
    BY <1>1, <1>2 DEF Typed
  <2>2. p \in older /\ \A n \in older : n.id <= p.id
    <3> HIDE DEF older
    <3> QED
      BY <2>1, Maximal
  <2> HIDE DEF p
  <2>3. p \in Manifests /\ p.id < m.id
    BY <2>2
  <2>4. PICK q \in Manifests : Reference(q) = PrevRef(m) /\ p.id <= q.id
    BY <1>1, <2>3 DEF Chained
  <2>5. q.id = m.prev /\ q.digest = m.prevd /\ m.prev < m.id
    BY <1>1, <1>2, <2>4 DEF Chained
  <2>6. q.id <= p.id
    BY <2>2, <2>4, <2>5
  <2>7. q.id = p.id
    BY <1>2, <2>3, <2>4, <2>6
  <2>8. Reference(q) = Reference(p)
    BY <1>3, <2>3, <2>4, <2>7
  <2> QED
    BY <1>2, <2>3, <2>4, <2>5, <2>7, <2>8
<1> DEFINE First(m) == \A n \in Manifests : m.id <= n.id
           oldest == CHOOSE m \in Manifests : First(m)
<1>7. oldest \in Manifests
  <2> DEFINE ids == {m.id : m \in Manifests}
  <2>1. ids \in SUBSET Nat /\ ids # {}
    BY <1>2
  <2>2. PICK x \in ids : \A y \in ids : x <= y
    <3> HIDE DEF ids
    <3> QED
      BY <2>1, Least
  <2>3. \E m \in Manifests : First(m)
    BY <2>2
  <2> HIDE DEF First
  <2> QED
    BY <2>3, Zenon
<1>8. ~ AnchorNodeBroken(oldest, ledger)
  <2>1. CASE oldest.prev = 0
    <3>1. oldest.prevd = 0
      BY <1>2, <1>7, <2>1 DEF PInv, Rooted
    <3> QED
      BY <2>1, <3>1 DEF AnchorNodeBroken
  <2>2. CASE oldest.prev # 0
    <3>1. ledger # <<>>
      BY <1>7, <2>2 DEF PInv, Ledgered
    <3>2. DOMAIN ledger # {}
      <4>1. ledger \in Seq(EntryLines)
        BY <1>1 DEF Trusted
      <4> QED
        BY <3>1, <4>1, LastLineIn
    <3>3. LedgerIds(ledger) # {}
      BY <1>1, <3>2, NoConflicts DEF Groups
    <3>4. PrevRef(oldest) \in AllRefs
      BY <1>2, <1>7, <2>2 DEF AllRefs, Mentioned
    <3>5. ~ BacktrackBroken(ledger, PrevRef(oldest).id, PrevRef(oldest).digest)
      BY <1>1, <3>4, WalkEnds
    <3> QED
      BY <1>2, <1>7, <2>2, <3>3, <3>5 DEF AnchorNodeBroken
  <2> QED
    BY <2>1, <2>2
<1>9. ChainVerdict(Manifests, ledger) = "ok"
  <2> DEFINE bad == \E m \in Manifests : EntryContradicts(m, ledger) \/ LinkBroken(m, Manifests)
  <2>1. ~ bad
    BY <1>5, <1>6
  <2>2. ChainVerdict(Manifests, ledger) =
          IF Manifests = {} THEN "absent"
          ELSE IF Manifests # Manifests \/ AnchorNodeBroken(oldest, ledger) \/ bad THEN "broken"
          ELSE "ok"
    BY <1>4 DEF ChainVerdict
  <2> HIDE DEF bad, oldest
  <2> QED
    BY <1>8, <2>1, <2>2
<1> QED
  BY <1>9

\* The destruction log and, without interference, the chain of manifests
\* verify after every sequence of publications, failures, crashes, pruning and
\* compactions (loadDestructionState, verifyChainWithLedger).
THEOREM ChainsVerify ==
  Spec => []ChainsVerifiable
<1>1. PInv => ChainsVerifiable
  BY LogVerifiable, ChainHonest DEF ChainsVerifiable
<1> QED
  BY <1>1, PublicationInvariant, PTL

\* A full log names what has left, and the view finds it there.
LEMMA RemovalsNamed ==
  ASSUME PInv
  PROVE  RemovalsOnRecord
<1> SUFFICES ASSUME Classified(dlog), FullHistory
             PROVE  /\ \A n \in Published :
                         SnapshotStatus(unit[n].files, unit[n].man, Manifests) = "orphan_manifest" =>
                           \E g \in Retentions : \E t \in GroupTargets(g) : t.id = unit[n].man.id
                    /\ \A id \in forgotten :
                         \E g \in Groups(dlog) : /\ LinesOf(dlog, g)[1].kind = "ledger_compaction"
                                                 /\ id \in GroupTargets(g)
  BY DEF RemovalsOnRecord
<1>1. FullLog(dlog)
  BY DEF FullLog, FullHistory
<1>2. ASSUME NEW n \in Published, SnapshotStatus(unit[n].files, unit[n].man, Manifests) = "orphan_manifest"
      PROVE  \E g \in Retentions : \E t \in GroupTargets(g) : t.id = unit[n].man.id
  <2>1. "artifact" \notin unit[n].files
    BY <1>2 DEF SnapshotStatus
  <2>2. PICK l \in Lines(dlog) : l.kind = "snapshot_retention" /\ Reference(unit[n].man) \in l.targets
    BY <1>1, <1>2, <2>1 DEF PInv, OnRecord, Named
  <2>3. l.group \in Retentions /\ Reference(unit[n].man) \in GroupTargets(l.group)
    BY <2>2, LineReads DEF Retentions, GroupTargets
  <2> QED
    BY <2>3 DEF Reference
<1>3. ASSUME NEW id \in forgotten
      PROVE  \E g \in Groups(dlog) : LinesOf(dlog, g)[1].kind = "ledger_compaction" /\ id \in GroupTargets(g)
  <2>1. PICK l \in Lines(dlog) : l.kind = "ledger_compaction" /\ id \in l.targets
    BY <1>1, <1>3 DEF PInv, OnRecord, Dropped
  <2> QED
    BY <2>1, LineReads DEF GroupTargets
<1> QED
  BY <1>2, <1>3

\* A manifest without its artifact, and an entry that left the ledger, are
\* named by a group of the destruction log that has kept everything.
THEOREM RemovalsRecorded ==
  Spec => []RemovalsOnRecord
<1>1. PInv => RemovalsOnRecord
  BY RemovalsNamed
<1> QED
  BY <1>1, PublicationInvariant, PTL

\* The entries of the ledger that the view uses.
LEMMA UsableEntries ==
  ASSUME PInv, NEW id \in UsableIds(ledger)
  PROVE  /\ LedgerEntry(ledger, id) \in Written /\ LedgerEntry(ledger, id) \in EntryLines
         /\ LedgerEntry(ledger, id).group = id
<1>1. Typed /\ ledger \in Seq(EntryLines \union {Torn})
  BY DEF PInv, Typed
<1>2. PICK j \in DOMAIN ledger : ledger[j] # Torn /\ ledger[j].group = id
  BY DEF UsableIds, LedgerIds
<1>3. ledger[j] \in Written /\ id \in Groups(ledger)
  BY <1>2 DEF Written, Lines, Groups
<1>4. id > 0 /\ id \in Nat
  BY <1>1, <1>2, <1>3, WrittenLines, LineRefFacts
<1> DEFINE q == FirstAt(ledger, id)
<1>5. q \in DOMAIN ledger /\ ledger[q].group = id
  BY <1>1, <1>3, FirstLine
<1>6. ledger[q] # Torn
  BY <1>4, <1>5 DEF Torn
<1>7. ledger[q] \in Written
  BY <1>5, <1>6 DEF Written, Lines
<1>8. LedgerEntry(ledger, id) = ledger[q]
  BY DEF LedgerEntry
<1> HIDE DEF q
<1> QED
  BY <1>1, <1>5, <1>7, <1>8, WrittenLines

\* A publication that is gone, and the reference behind what is known of it.
LEMMA GoneReference ==
  ASSUME PInv, NEW id \in Gone
  PROVE  \E r \in Mentioned : r.id = id /\ r.digest = KnownDigest(id) /\ r \notin DiskRefs
<1>1. Typed /\ id # 0 /\ id \in Known /\ id \notin Census
  BY DEF PInv, Gone
<1>2. ASSUME NEW r \in Mentioned, r.id = id PROVE r \notin DiskRefs
  <2> SUFFICES ASSUME r \in DiskRefs PROVE FALSE
    OBVIOUS
  <2>1. PICK n \in Published : r = Reference(unit[n].man)
    BY DEF DiskRefs
  <2>2. unit[n].man \in Manifests /\ unit[n].man.id = id
    BY <1>2, <2>1 DEF Manifests, Reference
  <2> QED
    BY <1>1, <2>2 DEF Census
<1>3. CASE id \in UsableIds(ledger)
  <2> DEFINE e == LedgerEntry(ledger, id)
  <2>1. e \in Written /\ e \in EntryLines /\ e.group = id
    BY <1>3, UsableEntries
  <2>2. KnownDigest(id) = e.digest
    BY <1>3 DEF KnownDigest
  <2> HIDE DEF e
  <2>3. LineRef(e) \in Mentioned /\ LineRef(e).id = id /\ LineRef(e).digest = e.digest
    BY <2>1, LineRefFacts DEF Mentioned
  <2> QED
    BY <1>2, <2>2, <2>3
<1>4. CASE id \notin UsableIds(ledger)
  <2>1. \E e \in Entries : e.prev = id
    BY <1>1, <1>4 DEF Known
  <2> DEFINE P(e) == e.prev = id
             e == CHOOSE x \in Entries : P(x)
  <2>2. e \in Entries /\ e.prev = id
    <3>1. \E x \in Entries : P(x)
      BY <2>1
    <3>2. e \in Entries /\ P(e)
      <4> HIDE DEF P
      <4> QED
        BY <3>1, Zenon
    <3> QED
      BY <3>2
  <2>3. KnownDigest(id) = e.prevd
    BY <1>4, <2>1 DEF KnownDigest
  <2> HIDE DEF e
  <2>4. e \in Written /\ e \in EntryLines
    BY <2>2, UsableEntries DEF Entries
  <2>5. PrevRef(e) \in Mentioned /\ PrevRef(e).id = id /\ PrevRef(e).digest = e.prevd
    BY <1>1, <2>2, <2>4, LineRefFacts DEF Mentioned
  <2> QED
    BY <1>2, <2>3, <2>5
<1> QED
  BY <1>3, <1>4

\* What a completed retention names was neither on disk nor taken from outside.
LEMMA CompletedTargets ==
  ASSUME PInv, Classified(dlog), NEW g \in Retentions, GroupState(dlog, g) = "completed"
  PROVE  GroupTargets(g) \intersect outside = {}
<1>1. PICK l \in Lines(dlog) : /\ l.state = "completed" /\ l.kind = LinesOf(dlog, g)[1].kind
                               /\ l.targets = LinesOf(dlog, g)[1].targets
  BY LogReads DEF Retentions
<1>2. l.kind = "snapshot_retention" /\ l.targets = GroupTargets(g)
  BY <1>1 DEF Retentions, GroupTargets
<1> QED
  BY <1>1, <1>2 DEF PInv, Washed

LEMMA RetentionTargets ==
  ASSUME PInv, Classified(dlog), NEW g \in Retentions, NEW t \in GroupTargets(g)
  PROVE  t \in AllRefs
<1>1. LinesOf(dlog, g)[1] \in Lines(dlog) /\ LinesOf(dlog, g)[1].kind = "snapshot_retention"
  BY LogReads DEF Retentions
<1>2. dlog \in Seq(DLines)
  BY LogTyped, ReadableLog
<1>3. LinesOf(dlog, g)[1] \in DLines
  BY <1>1, <1>2, LineIn DEF Lines
<1>4. t \in Refs \union Nat /\ Named(dlog, t)
  BY <1>1, <1>3 DEF GroupTargets, DLines, Named
<1> QED
  BY <1>4 DEF AllRefs, Targeted

LEMMA NothingWashed ==
  ASSUME PInv
  PROVE  NoFalseAccount
<1> SUFFICES ASSUME Readable
             PROVE  /\ \A g \in Retentions :
                         GroupState(dlog, g) = "completed" => outside \cap GroupTargets(g) = {}
                    /\ intact => RemovedIds \cap Accounted = {}
  BY DEF NoFalseAccount
<1>1. Classified(dlog)
  BY DEF Readable
<1>2. \A g \in Retentions : GroupState(dlog, g) = "completed" => outside \cap GroupTargets(g) = {}
  BY <1>1, CompletedTargets
<1>3. ASSUME intact, NEW id \in RemovedIds, id \in Accounted PROVE FALSE
  <2>1. PICK g \in Retentions : Covers(g, id)
    BY <1>3 DEF Accounted
  <2>2. PICK t \in GroupTargets(g) : t.id = id
    BY <2>1 DEF Covers
  <2>3. PICK r \in outside : r.id = id
    BY DEF RemovedIds
  <2>4. t \in AllRefs /\ r \in AllRefs
    BY <1>1, <2>2, <2>3, RetentionTargets DEF AllRefs
  <2>5. t = r
    BY <1>3, <2>2, <2>3, <2>4 DEF PInv, Numbered
  <2>6. GroupState(dlog, g) = "completed"
    BY <2>1 DEF Covers
  <2> QED
    BY <1>2, <2>2, <2>3, <2>5, <2>6
<1> QED
  BY <1>2, <1>3

LEMMA NobodyAccused ==
  ASSUME PInv
  PROVE  AccusationJustified
<1> SUFFICES ASSUME ViewVerdict = "unaccounted_disappearance", NEW id \in Unaccounted, id \notin RemovedIds
             PROVE  \E g \in Retentions : /\ GroupState(dlog, g) # "completed"
                                          /\ \E t \in GroupTargets(g) : t.id = id
  BY DEF AccusationJustified
<1>1. Readable
  BY DEF ViewVerdict
<1>2. Classified(dlog) /\ FullLog(dlog) /\ id \in Gone /\ id \notin Accounted
  BY <1>1 DEF Readable, Unaccounted, FullLog, FullHistory
<1>3. PICK r \in Mentioned : r.id = id /\ r.digest = KnownDigest(id) /\ r \notin DiskRefs
  BY <1>2, GoneReference
<1>4. r \notin outside
  BY <1>3 DEF RemovedIds
<1>5. Named(dlog, r)
  BY <1>2, <1>3, <1>4 DEF PInv, Traced
<1>6. PICK l \in Lines(dlog) : l.kind = "snapshot_retention" /\ r \in l.targets
  BY <1>5 DEF Named
<1> DEFINE g == l.group
<1>7. g \in Groups(dlog) /\ g \in Retentions /\ r \in GroupTargets(g)
  BY <1>2, <1>6, LineReads DEF Retentions, GroupTargets
<1>8. ~ GroupConflict(dlog, g)
  BY <1>2, <1>7, LogReads
<1>9. GroupState(dlog, g) # "completed"
  <2> SUFFICES ASSUME GroupState(dlog, g) = "completed" PROVE FALSE
    OBVIOUS
  <2>1. Covers(g, id)
    BY <1>3, <1>7, <1>8 DEF Covers
  <2> QED
    BY <1>2, <1>7, <2>1 DEF Accounted
<1> QED
  BY <1>3, <1>7, <1>9

\* DestructionView neither washes a disappearance nor accuses without reason,
\* whatever the two goroutines, crashes and outsiders did before.
THEOREM ViewIsHonest ==
  Spec => []ViewHonest
<1>1. PInv => ViewHonest
  BY NothingWashed, NobodyAccused DEF ViewHonest
<1> QED
  BY <1>1, PublicationInvariant, PTL

-----------------------------------------------------------------------------
(* The directory implements PublicationWindow.                             *)

\* w lists the set S upwards.
Upwards(w, S) ==
  /\ w \in Seq(Nat) /\ Len(w) = Cardinality(S)
  /\ \A i \in DOMAIN w : w[i] \in S
  /\ \A x \in S : \E i \in DOMAIN w : w[i] = x
  /\ \A i, j \in DOMAIN w : i < j => w[i] < w[j]

\* One of two listings of a set is nowhere behind the other.
LEMMA NotBehind ==
  ASSUME NEW S, NEW v, NEW w, Upwards(v, S), Upwards(w, S), NEW i \in DOMAIN w, i \in DOMAIN v,
         \A j \in DOMAIN w : j < i => v[j] = w[j]
  PROVE  v[i] <= w[i]
<1>1. /\ DOMAIN w = 1 .. Len(w) /\ DOMAIN v = 1 .. Len(v) /\ Len(w) \in Nat /\ Len(w) = Len(v)
  BY LenProperties DEF Upwards
<1>2. PICK j \in DOMAIN v : v[j] = w[i]
  BY DEF Upwards
<1>3. (\A k \in DOMAIN v : v[k] \in Nat) /\ (\A k \in DOMAIN w : w[k] \in Nat)
  <2>1. v \in Seq(Nat) /\ w \in Seq(Nat)
    BY DEF Upwards
  <2>2. v \in [1 .. Len(v) -> Nat] /\ w \in [1 .. Len(w) -> Nat]
    BY <2>1, LenProperties
  <2> QED
    BY <1>1, <2>2
<1>4. ~ (j < i)
  <2> SUFFICES ASSUME j < i PROVE FALSE
    OBVIOUS
  <2>1. j \in DOMAIN w /\ w[j] = w[i]
    BY <1>1, <1>2
  <2>2. w[j] < w[i] /\ w[j] \in Nat
    BY <1>3, <2>1 DEF Upwards
  <2> QED
    BY <2>1, <2>2
<1>5. i = j \/ i < j
  BY <1>1, <1>2, <1>4
<1>6. v[i] \in Nat /\ v[j] \in Nat /\ (i < j => v[i] < v[j])
  BY <1>2, <1>3 DEF Upwards
<1> QED
  BY <1>2, <1>5, <1>6

LEMMA OneListing ==
  ASSUME NEW S, NEW v, NEW w, Upwards(v, S), Upwards(w, S)
  PROVE  v = w
<1>1. /\ DOMAIN w = 1 .. Len(w) /\ DOMAIN v = 1 .. Len(v) /\ Len(w) \in Nat /\ Len(w) = Len(v)
      /\ v \in Seq(Nat) /\ w \in Seq(Nat)
  BY LenProperties DEF Upwards
<1> DEFINE T == {i \in Nat : i \in DOMAIN w /\ v[i] # w[i]}
<1>2. T = {}
  <2> SUFFICES ASSUME T # {} PROVE FALSE
    OBVIOUS
  <2>1. PICK i \in T : \A j \in T : i <= j
    BY Least
  <2>2. i \in DOMAIN w /\ i \in DOMAIN v /\ v[i] # w[i] /\ i \in Nat
    BY <1>1, <2>1
  <2>3. \A j \in DOMAIN w : j < i => v[j] = w[j]
    BY <1>1, <2>1, <2>2
  <2>4. v[i] <= w[i]
    BY <2>2, <2>3, NotBehind
  <2>5. w[i] <= v[i]
    <3>1. \A j \in DOMAIN v : j < i => w[j] = v[j]
      BY <1>1, <2>3
    <3> QED
      BY <2>2, <3>1, NotBehind
  <2>6. v[i] \in Nat /\ w[i] \in Nat
    BY <1>1, <2>2
  <2> QED
    BY <2>2, <2>4, <2>5, <2>6
<1>3. \A i \in 1 .. Len(w) : v[i] = w[i]
  BY <1>1, <1>2
<1> QED
  BY <1>1, <1>3, SeqEqual

LEMMA SortedLists ==
  ASSUME NEW S \in SUBSET Nat, IsFiniteSet(S)
  PROVE  Upwards(Sorted(S), S)
<1> DEFINE c == Cardinality(S)
<1>1. Enumerated(S) /\ c \in Nat
  BY PlaceNumbers, FS_CardinalityType
<1>2. Sorted(S) = [i \in 1 .. c |-> Place(S, i)]
  BY DEF Sorted, Place
<1>3. \A i \in 1 .. c : Place(S, i) \in Nat
  BY <1>1 DEF Enumerated
<1> HIDE DEF c
<1>4. Sorted(S) \in Seq(Nat) /\ Len(Sorted(S)) = c /\ DOMAIN Sorted(S) = 1 .. c
  BY <1>1, <1>2, <1>3
<1>5. \A i \in 1 .. c : Sorted(S)[i] = Place(S, i)
  BY <1>2
<1> DEFINE w == Sorted(S)
<1> HIDE DEF w
<1>6. w \in Seq(Nat) /\ Len(w) = c /\ DOMAIN w = 1 .. c /\ \A i \in 1 .. c : w[i] = Place(S, i)
  BY <1>4, <1>5 DEF w
<1>7. \A i \in DOMAIN w : w[i] \in S
  BY <1>1, <1>6 DEF Enumerated, c
<1>8. \A x \in S : \E i \in DOMAIN w : w[i] = x
  BY <1>1, <1>6 DEF Enumerated, c
<1>9. \A i, j \in DOMAIN w : i < j => w[i] < w[j]
  BY <1>1, <1>6 DEF Enumerated, c
<1>10. Upwards(w, S)
  BY <1>6, <1>7, <1>8, <1>9 DEF Upwards, c
<1> QED
  BY <1>10 DEF w

\* A new largest element comes last.
LEMMA SortedGrown ==
  ASSUME NEW S \in SUBSET Nat, IsFiniteSet(S), NEW id \in Nat, \A x \in S : x < id
  PROVE  Sorted(S \union {id}) = Append(Sorted(S), id)
<1> DEFINE w == Sorted(S)
           v == Append(w, id)
           R == S \union {id}
<1>1. Upwards(w, S) /\ w \in Seq(Nat) /\ DOMAIN w = 1 .. Len(w) /\ Len(w) \in Nat
  BY SortedLists, LenProperties DEF Upwards
<1>2. id \notin S
  <2> SUFFICES ASSUME id \in S PROVE FALSE
    OBVIOUS
  <2>1. id < id
    OBVIOUS
  <2> QED
    BY <2>1
<1>3. R \in SUBSET Nat /\ IsFiniteSet(R) /\ Cardinality(R) = Cardinality(S) + 1
  BY <1>2, FS_AddElement
<1>4. Upwards(Sorted(R), R)
  BY <1>3, SortedLists
<1> HIDE DEF w
<1>5. /\ v \in Seq(Nat) /\ Len(v) = Len(w) + 1 /\ v[Len(w) + 1] = id
      /\ \A i \in 1 .. Len(w) : v[i] = w[i]
  BY <1>1, AppendProperties
<1> HIDE DEF v
<1>6. DOMAIN v = 1 .. Len(w) + 1
  BY <1>5, LenProperties
<1>7. Upwards(v, R)
  <2>1. \A i \in DOMAIN v : i = Len(w) + 1 \/ i \in DOMAIN w
    BY <1>1, <1>6
  <2>2. \A i \in DOMAIN v : v[i] \in R
    BY <1>1, <1>5, <2>1 DEF Upwards
  <2>3. \A x \in R : \E i \in DOMAIN v : v[i] = x
    <3> SUFFICES ASSUME NEW x \in R PROVE \E i \in DOMAIN v : v[i] = x
      OBVIOUS
    <3>1. CASE x = id
      BY <1>1, <1>5, <1>6, <3>1
    <3>2. CASE x # id
      <4>1. PICK i \in DOMAIN w : w[i] = x
        BY <1>1, <3>2 DEF Upwards
      <4>2. i \in DOMAIN v /\ v[i] = x
        BY <1>1, <1>5, <1>6, <4>1
      <4> QED
        BY <4>2
    <3> QED
      BY <3>1, <3>2
  <2>4. ASSUME NEW i \in DOMAIN v, NEW j \in DOMAIN v, i < j PROVE v[i] < v[j]
    <3>1. i \in DOMAIN w /\ v[i] = w[i]
      BY <1>1, <1>5, <1>6, <2>4
    <3>2. CASE j = Len(w) + 1
      BY <1>1, <1>5, <3>1, <3>2 DEF Upwards
    <3>3. CASE j \in DOMAIN w
      BY <1>1, <1>5, <2>4, <3>1, <3>3 DEF Upwards
    <3> QED
      BY <2>1, <3>2, <3>3
  <2>5. Len(v) = Cardinality(R)
    BY <1>1, <1>3, <1>5 DEF Upwards
  <2> QED
    BY <1>5, <2>2, <2>3, <2>4, <2>5 DEF Upwards
<1> QED
  BY <1>4, <1>7, OneListing DEF v, w, R

\* An element goes: the others close up.
ClosedUp(w, i) == [k \in 1 .. Len(w) - 1 |-> IF k < i THEN w[k] ELSE w[k + 1]]

LEMMA SortedShrunk ==
  ASSUME NEW S \in SUBSET Nat, IsFiniteSet(S), NEW w, w = Sorted(S), NEW i \in DOMAIN w
  PROVE  Sorted(S \ {w[i]}) = ClosedUp(w, i)
<1> DEFINE c == Len(w) - 1
           v == ClosedUp(w, i)
           R == S \ {w[i]}
<1>1. /\ Upwards(w, S) /\ w \in Seq(Nat) /\ DOMAIN w = 1 .. Len(w) /\ Len(w) \in Nat /\ w[i] \in S /\ i \in Nat
      /\ Len(w) = Cardinality(S)
  BY SortedLists, LenProperties DEF Upwards
<1>2. R \in SUBSET Nat /\ IsFiniteSet(R) /\ Cardinality(R) = Cardinality(S) - 1
  BY <1>1, FS_RemoveElement
<1>3. Upwards(Sorted(R), R)
  <2> HIDE DEF R
  <2> QED
    BY <1>2, SortedLists
<1>4. c \in Nat /\ Len(w) = c + 1 /\ i >= 1 /\ i <= c + 1
  BY <1>1
<1> HIDE DEF c
<1>5. v = [k \in 1 .. c |-> IF k < i THEN w[k] ELSE w[k + 1]]
  BY DEF ClosedUp, c
<1>6. \A k \in 1 .. c : k \in DOMAIN w /\ k + 1 \in DOMAIN w /\ k \in Nat
  BY <1>1, <1>4
<1>7. \A k \in 1 .. c : v[k] = IF k < i THEN w[k] ELSE w[k + 1]
  BY <1>5
<1>8. v \in Seq(Nat) /\ Len(v) = c /\ DOMAIN v = 1 .. c
  <2>1. \A k \in 1 .. c : (IF k < i THEN w[k] ELSE w[k + 1]) \in Nat
    BY <1>1, <1>6
  <2> QED
    BY <1>4, <1>5, <2>1
<1> HIDE DEF v
<1>9. ASSUME NEW j \in DOMAIN w, NEW k \in DOMAIN w, j < k PROVE w[j] < w[k] /\ w[j] \in Nat /\ w[k] \in Nat
  BY <1>1, <1>9 DEF Upwards
<1>10. Upwards(v, R)
  <2>1. ASSUME NEW k \in 1 .. c PROVE v[k] \in R
    <3>1. CASE k < i
      <4>1. k \in DOMAIN w /\ v[k] = w[k]
        BY <1>6, <1>7, <3>1
      <4>2. w[k] < w[i] /\ w[k] \in Nat /\ w[i] \in Nat
        BY <1>9, <3>1, <4>1
      <4>3. w[k] \in S
        BY <1>1, <4>1 DEF Upwards
      <4> QED
        BY <4>1, <4>2, <4>3
    <3>2. CASE ~ (k < i)
      <4>1. i < k + 1 /\ k + 1 \in DOMAIN w
        BY <1>1, <1>6, <3>2
      <4>2. w[i] < w[k + 1] /\ w[i] \in Nat /\ w[k + 1] \in S /\ v[k] = w[k + 1]
        BY <1>1, <1>7, <1>9, <3>2, <4>1 DEF Upwards
      <4> QED
        BY <4>2
    <3> QED
      BY <3>1, <3>2
  <2>2. ASSUME NEW x \in R PROVE \E k \in 1 .. c : v[k] = x
    <3>1. PICK j \in DOMAIN w : w[j] = x
      BY <1>1 DEF Upwards
    <3>2. j # i /\ j \in Nat
      BY <1>1, <3>1
    <3>3. CASE j < i
      <4>1. j \in 1 .. c
        BY <1>1, <1>4, <3>1, <3>3
      <4> QED
        BY <1>7, <3>1, <3>3, <4>1
    <3>4. CASE i < j
      <4>1. j - 1 \in 1 .. c /\ ~ (j - 1 < i) /\ (j - 1) + 1 = j
        BY <1>1, <1>4, <3>1, <3>4
      <4>2. v[j - 1] = w[j]
        BY <1>7, <4>1
      <4> QED
        BY <3>1, <4>1, <4>2
    <3> QED
      BY <1>1, <3>2, <3>3, <3>4
  <2>3. ASSUME NEW j \in 1 .. c, NEW k \in 1 .. c, j < k PROVE v[j] < v[k]
    <3> DEFINE a == IF j < i THEN j ELSE j + 1
               b == IF k < i THEN k ELSE k + 1
    <3>1. a \in DOMAIN w /\ b \in DOMAIN w /\ v[j] = w[a] /\ v[k] = w[b]
      BY <1>6, <1>7
    <3>2. a < b
      BY <1>1, <1>6, <2>3
    <3> HIDE DEF a, b
    <3> QED
      BY <1>9, <3>1, <3>2
  <2>4. Len(v) = Cardinality(R)
    BY <1>1, <1>2, <1>4, <1>8
  <2> QED
    BY <1>8, <2>1, <2>2, <2>3, <2>4 DEF Upwards
<1> QED
  BY <1>3, <1>10, OneListing DEF v, R

\* The ids on disk.
LEMMA CensusFacts ==
  ASSUME PInv
  PROVE  /\ Census \in SUBSET Nat /\ IsFiniteSet(Census) /\ Census = {unit[n].man.id : n \in Published}
         /\ \A n \in Published : n \in Snapshots /\ unit[n].man.id \in Nat
         /\ \A n, k \in Published : unit[n].man.id = unit[k].man.id => n = k
<1>1. high \in Nat /\ Census \subseteq 1 .. high
  BY DiskFacts DEF Census, PInv, Typed
<1>2. IsFiniteSet(1 .. high)
  BY <1>1, FS_Interval
<1>3. IsFiniteSet(Census)
  BY <1>1, <1>2, FS_Subset
<1>4. Census = {unit[n].man.id : n \in Published}
  BY DEF Census, Manifests
<1>5. \A n \in Published : n \in Snapshots /\ n \in Nat /\ unit[n].man.id \in Nat
  BY SnapshotFacts, UnitParts DEF Published, PInv
<1>6. ASSUME NEW n \in Published, NEW k \in Published, unit[n].man.id = unit[k].man.id PROVE n = k
  <2>1. n < k => unit[n].man.id < unit[k].man.id
    BY DEF PInv, Layout
  <2>2. k < n => unit[k].man.id < unit[n].man.id
    BY DEF PInv, Layout
  <2>3. unit[n].man.id \in Nat /\ n \in Nat /\ k \in Nat
    BY <1>5
  <2> QED
    BY <1>6, <2>1, <2>2, <2>3
<1> QED
  BY <1>1, <1>3, <1>4, <1>5, <1>6

\* A manifest goes and takes its id out of the census.
LEMMA CensusShrinks ==
  ASSUME PInv, NEW n \in Published, Removed(n, "manifest"), NEW w, w = Sorted(Census)
  PROVE  /\ w \in Seq(Nat) /\ w # <<>>
         /\ \E i \in DOMAIN w : /\ w[i] = unit[n].man.id /\ Sorted(Census') = ClosedUp(w, i)
                                /\ (\A k \in Published : k # n => unit[k].man.id > unit[n].man.id) => i = 1
<1> DEFINE id == unit[n].man.id
<1>1. /\ Census \in SUBSET Nat /\ IsFiniteSet(Census) /\ Census = {unit[k].man.id : k \in Published}
      /\ \A k \in Published : k \in Snapshots /\ unit[k].man.id \in Nat
      /\ \A k \in Published : unit[k].man.id = id => k = n
  BY CensusFacts
<1>2. Published' = Published \ {n} /\ \A k \in Published' : unit'[k].man = unit[k].man
  BY <1>1 DEF Removed
<1>3. Census' = {unit'[k].man.id : k \in Published'}
  BY DEF Census, Manifests
<1>4. Census' = Census \ {id}
  BY <1>1, <1>2, <1>3
<1>5. Upwards(w, Census)
  BY <1>1, SortedLists
<1>6. w \in Seq(Nat) /\ DOMAIN w = 1 .. Len(w) /\ Len(w) \in Nat
  BY <1>5, LenProperties DEF Upwards
<1>7. PICK i \in DOMAIN w : w[i] = id
  BY <1>1, <1>5 DEF Upwards
<1>8. Sorted(Census \ {w[i]}) = ClosedUp(w, i)
  BY <1>1, SortedShrunk
<1>9. w # <<>>
  BY <1>6, <1>7, EmptySeq
<1>10. ASSUME \A k \in Published : k # n => unit[k].man.id > id PROVE i = 1
  <2> SUFFICES ASSUME i # 1 PROVE FALSE
    OBVIOUS
  <2>1. 1 \in DOMAIN w /\ 1 < i
    BY <1>6, <1>7
  <2>2. w[1] < w[i] /\ w[1] \in Census
    BY <1>5, <1>7, <2>1 DEF Upwards
  <2>3. PICK k \in Published : w[1] = unit[k].man.id
    BY <1>1, <2>2
  <2>4. w[1] \in Nat /\ id \in Nat /\ w[1] < id
    BY <1>1, <1>7, <2>2
  <2> HIDE DEF id
  <2>5. k # n => unit[k].man.id > id
    BY <1>10
  <2>6. k = n => unit[k].man.id = id
    BY DEF id
  <2> QED
    BY <2>3, <2>4, <2>5, <2>6
<1> QED
  BY <1>4, <1>6, <1>7, <1>8, <1>9, <1>10

LEMMA ClosedUpTail ==
  ASSUME NEW w \in Seq(Nat), w # <<>>
  PROVE  ClosedUp(w, 1) = Tail(w)
<1>1. DOMAIN w = 1 .. Len(w) /\ Len(w) \in Nat /\ Len(w) # 0
  BY LenProperties, EmptySeq
<1> DEFINE c == Len(w) - 1
           v == ClosedUp(w, 1)
<1>2. c \in Nat /\ Len(w) = c + 1
  BY <1>1
<1> HIDE DEF c
<1>3. v = [k \in 1 .. c |-> IF k < 1 THEN w[k] ELSE w[k + 1]]
  BY DEF ClosedUp, c
<1>4. v = [k \in 1 .. c |-> w[k + 1]]
  BY <1>2, <1>3
<1>5. \A k \in 1 .. c : w[k + 1] \in Nat
  BY <1>1, <1>2
<1>6. v \in Seq(Nat) /\ Len(v) = c
  BY <1>2, <1>4, <1>5
<1>7. Tail(w) \in Seq(Nat) /\ Len(Tail(w)) = c /\ \A k \in 1 .. c : Tail(w)[k] = w[k + 1]
  <2>1. Tail(w) \in Seq(Nat) /\ Len(Tail(w)) = Len(w) - 1 /\ \A k \in 1 .. Len(Tail(w)) : Tail(w)[k] = w[k + 1]
    BY HeadTailProperties
  <2>2. Len(w) - 1 = c
    BY <1>2
  <2> QED
    BY <2>1, <2>2
<1>8. \A k \in 1 .. c : v[k] = Tail(w)[k]
  BY <1>4, <1>7
<1> HIDE DEF v
<1> QED
  BY <1>6, <1>7, <1>8, SeqEqual DEF v

LEMMA PartOf ==
  ASSUME NEW w \in Seq(Nat), NEW f \in Nat, NEW n \in Nat
  PROVE  SubSeq(w, f, n) = [k \in 1 .. n - f + 1 |-> w[f + k - 1]]
OBVIOUS

LEMMA ClosedUpMiddle ==
  ASSUME NEW w \in Seq(Nat), NEW i \in DOMAIN w
  PROVE  ClosedUp(w, i) = SubSeq(w, 1, i - 1) \o SubSeq(w, i + 1, Len(w))
<1>1. DOMAIN w = 1 .. Len(w) /\ Len(w) \in Nat /\ i \in 1 .. Len(w)
  BY LenProperties
<1> DEFINE c == Len(w) - 1
           a == i - 1
           s == SubSeq(w, 1, i - 1)
           t == SubSeq(w, i + 1, Len(w))
           v == ClosedUp(w, i)
           u == s \o t
<1>2. c \in Nat /\ a \in Nat /\ c - a \in Nat /\ Len(w) = c + 1 /\ i = a + 1 /\ Len(w) - i = c - a /\ a <= c
  BY <1>1
<1>3. s \in Seq(Nat) /\ Len(s) = a /\ \A k \in 1 .. a : s[k] = w[k]
  <2>1. s = [k \in 1 .. a |-> w[k]]
    BY <1>1, <1>2
  <2>2. \A k \in 1 .. a : w[k] \in Nat
    BY <1>1, <1>2
  <2> HIDE DEF s, a
  <2> QED
    BY <1>2, <2>1, <2>2
<1>4. t \in Seq(Nat) /\ Len(t) = c - a /\ \A k \in 1 .. c - a : t[k] = w[k + i]
  <2> DEFINE f == i + 1
             n == Len(w)
  <2>1. f \in Nat /\ n \in Nat /\ n - f + 1 = c - a /\ t = SubSeq(w, f, n)
    BY <1>1, <1>2
  <2>2. \A k \in 1 .. c - a : f + k - 1 = k + i /\ w[k + i] \in Nat
    <3>1. w \in [1 .. Len(w) -> Nat]
      BY LenProperties
    <3>2. f = i + 1 /\ Len(w) = n
      OBVIOUS
    <3> HIDE DEF f, n, c, a
    <3>3. n = c + 1
      BY <1>2, <3>2
    <3>4. ASSUME NEW k \in 1 .. c - a PROVE f + k - 1 = k + i /\ k + i \in 1 .. n
      BY <1>2, <3>2, <3>3
    <3> QED
      BY <3>1, <3>2, <3>4
  <2> HIDE DEF t, a, c, f, n
  <2>3. t = [k \in 1 .. n - f + 1 |-> w[f + k - 1]]
    BY <2>1, PartOf
  <2>4. t = [k \in 1 .. c - a |-> w[k + i]]
    BY <2>1, <2>2, <2>3
  <2> QED
    BY <1>2, <2>2, <2>4
<1> HIDE DEF s, t, a, c
<1>5. u \in Seq(Nat) /\ Len(u) = c /\ \A k \in 1 .. c : u[k] = IF k <= a THEN s[k] ELSE t[k - a]
  <2>1. /\ u \in Seq(Nat) /\ Len(u) = Len(s) + Len(t)
        /\ \A k \in 1 .. Len(s) + Len(t) : u[k] = IF k <= Len(s) THEN s[k] ELSE t[k - Len(s)]
    BY <1>3, <1>4, ConcatProperties
  <2>2. Len(s) + Len(t) = c
    BY <1>2, <1>3, <1>4
  <2> HIDE DEF u
  <2> QED
    BY <1>3, <2>1, <2>2
<1>6. v = [k \in 1 .. c |-> IF k < i THEN w[k] ELSE w[k + 1]]
  BY DEF ClosedUp, c
<1>7. \A k \in 1 .. c : (IF k < i THEN w[k] ELSE w[k + 1]) \in Nat
  BY <1>1, <1>2
<1>8. v \in Seq(Nat) /\ Len(v) = c
  BY <1>2, <1>6, <1>7
<1>9. ASSUME NEW k \in 1 .. c PROVE v[k] = u[k]
  <2>1. v[k] = IF k < i THEN w[k] ELSE w[k + 1]
    BY <1>6
  <2>2. CASE k < i
    <3>1. k <= a /\ k \in 1 .. a
      BY <1>2, <2>2
    <3> HIDE DEF u, v
    <3> QED
      BY <1>3, <1>5, <2>1, <2>2, <3>1
  <2>3. CASE ~ (k < i)
    <3>1. ~ (k <= a) /\ k - a \in 1 .. c - a /\ (k - a) + i = k + 1
      BY <1>2, <2>3
    <3>2. t[k - a] = w[k + 1]
      BY <1>4, <3>1
    <3> HIDE DEF u, v
    <3> QED
      BY <1>5, <2>1, <2>3, <3>1, <3>2
  <2> QED
    BY <2>2, <2>3
<1> HIDE DEF u, v
<1>10. v = u
  BY <1>5, <1>8, <1>9, SeqEqual
<1> QED
  BY <1>10 DEF u, v, s, t

\* What the window does in a step of the export.
WindowStep == [PW!PNext]_<<Sorted({m.id : m \in Manifests}), high, RemovedIds, intact>>

LEMMA SameCensus ==
  ASSUME Census' = Census, UNCHANGED <<high, outside, intact>>
  PROVE  WindowStep
<1>1. {m.id : m \in Manifests}' = {m.id : m \in Manifests} /\ RemovedIds' = RemovedIds
  BY DEF Census, RemovedIds
<1> QED
  BY <1>1 DEF WindowStep

LEMMA SameDirectory ==
  ASSUME UNCHANGED <<unit, high, outside, intact>>
  PROVE  WindowStep
<1>1. Census' = Census
  BY DEF Census, Manifests, Published
<1> QED
  BY <1>1, SameCensus

\* A tick leaves artifacts: no manifest comes or goes.
LEMMA ArtifactsWindow ==
  ASSUME PInv, PublishArtifacts
  PROVE  WindowStep
<1>1. UNCHANGED <<high, outside, intact>> /\ ticks < MaxTicks
  BY DEF PublishArtifacts, historyVars
<1> DEFINE k == ticks + 1
<1>2. k \in Snapshots /\ unit[k] = NoUnit /\ unit \in [Snapshots -> Units]
  <2>1. ticks \in Nat /\ MaxTicks \in Nat /\ unit \in [Snapshots -> Units]
    BY ExportConstants DEF PInv, Typed
  <2>2. k \in Snapshots /\ k > ticks
    BY <1>1, <2>1 DEF Snapshots
  <2> QED
    BY <2>1, <2>2 DEF PInv, Layout
<1>3. PICK fs \in Leftovers : unit' = [unit EXCEPT ![k] = Artifacts(fs)]
  BY DEF PublishArtifacts, Leftovers
<1> HIDE DEF k
<1>4. /\ "manifest" \notin unit'[k].files /\ "manifest" \notin unit[k].files
      /\ \A n \in Snapshots : n # k => unit'[n] = unit[n]
  <2>1. unit'[k] = Artifacts(fs) /\ \A n \in Snapshots : n # k => unit'[n] = unit[n]
    BY <1>2, <1>3
  <2> QED
    BY <1>2, <2>1 DEF Artifacts, Leftovers, NoUnit
<1>5. Published' = Published /\ \A n \in Published : unit'[n] = unit[n]
  BY <1>2, <1>4 DEF Published
<1>6. Census' = {m.id : m \in {unit'[n].man : n \in Published'}}
  BY DEF Census, Manifests
<1>7. Census' = Census
  BY <1>5, <1>6 DEF Census, Manifests
<1> QED
  BY <1>1, <1>7, SameCensus

\* A manifest is linked: the window grows at its new end.
LEMMA LinkWindow ==
  ASSUME PInv, LinkManifest
  PROVE  WindowStep
<1>1. CASE UNCHANGED <<unit, high>>
  BY <1>1, SameDirectory DEF LinkManifest
<1>2. CASE /\ unit' = [unit EXCEPT ![job.n] = [files |-> @.files \cup {"manifest"}, man |-> NewManifest]]
           /\ high' = IF job.id > high THEN job.id ELSE high
  <2>1. /\ UNCHANGED <<outside, intact>> /\ job.at = "link" /\ Chosen /\ Making /\ Typed
        /\ job.at \notin {"allocate", "commit"}
    BY DEF LinkManifest, TickAt, PInv, Chosen, Making
  <2>2. /\ job.id \in Nat /\ 1 <= job.id /\ job.id <= ticks /\ ticks \in Nat /\ ticks <= MaxTicks /\ MaxTicks \in Nat
        /\ intact => high < job.id
    BY <2>1, JobParts, ExportConstants DEF PInv, Typed, Marked
  <2>3. job.id \in 1 .. MaxTicks
    BY <2>2
  <2>4. job.n \in Snapshots /\ unit[job.n].files = {"artifact"}
    <3>1. job.n = ticks /\ ticks >= 1 /\ unit[job.n].files = {"artifact"}
      BY <2>1 DEF PInv, Layout
    <3> QED
      BY <2>2, <3>1 DEF Snapshots
  <2>5. NewManifest \in ManRecords /\ NewManifest.id = job.id
    <3> DEFINE d == minted + 1
               p == job.prev
    <3>1. d \in Nat /\ p.id \in Nat /\ p.digest \in Nat /\ job.id \in Nat
      <4>1. minted \in Nat
        BY <2>1 DEF Typed
      <4>2. p \in ManRecords
        BY <2>1, JobParts
      <4>3. p.id \in Nat /\ p.digest \in Nat
        BY <4>2 DEF ManRecords
      <4> QED
        BY <2>2, <4>1, <4>3
    <3>2. NewManifest = [id |-> job.id, digest |-> d, prev |-> p.id, prevd |-> p.digest, ok |-> TRUE]
      BY DEF NewManifest
    <3> HIDE DEF d, p
    <3> QED
      BY <3>1, <3>2 DEF ManRecords
  <2>6. Linked(job.n, NewManifest)
    BY <1>2, <2>1, <2>4, <2>5, LinkedUnits
  <2>7. Census' = Census \union {job.id}
    <3>1. Census' = {m.id : m \in Manifests'}
      BY DEF Census
    <3>2. Manifests' = Manifests \union {NewManifest}
      BY <2>6 DEF Linked
    <3> HIDE DEF NewManifest
    <3> QED
      BY <2>5, <3>1, <3>2 DEF Census
  <2>8. /\ Census \in SUBSET Nat /\ IsFiniteSet(Census)
        /\ \A x \in Census : x < job.id
    <3>1. Census \in SUBSET Nat /\ IsFiniteSet(Census) /\ Census = {unit[n].man.id : n \in Published}
      BY CensusFacts
    <3> QED
      BY <2>1, <3>1 DEF PInv, Layout
  <2> DEFINE S == Census
             w == Sorted(Census)
  <2>9. Sorted(Census') = Append(w, job.id)
    BY <2>2, <2>7, <2>8, SortedGrown
  <2>10. \A i \in DOMAIN w : job.id > w[i]
    <3>1. Upwards(w, Census)
      BY <2>8, SortedLists
    <3> QED
      BY <2>2, <2>8, <3>1 DEF Upwards
  <2>11. w = Sorted({m.id : m \in Manifests}) /\ Sorted(Census') = Sorted({m.id : m \in Manifests})'
         /\ RemovedIds' = RemovedIds
    BY <2>1 DEF Census, RemovedIds
  <2> HIDE DEF w
  <2>12. intact => job.id > high
    BY <2>1, <2>2 DEF Typed
  <2>13. PW!Publish
    BY <1>2, <2>1, <2>3, <2>9, <2>10, <2>11, <2>12 DEF PW!Publish
  <2> QED
    BY <2>13 DEF WindowStep, PW!PNext
<1> QED
  BY <1>1, <1>2 DEF LinkManifest

\* The retention removes a file: the window stays, or loses its old end.
LEMMA PruneWindow ==
  ASSUME PInv, PruneRemove
  PROVE  WindowStep
<1>1. UNCHANGED <<high, outside, intact>> /\ job.at = "remove" /\ Typed /\ RemovedIds' = RemovedIds
  BY DEF PruneRemove, historyVars, TickAt, PInv, RemovedIds
<1>2. CASE UNCHANGED unit
  BY <1>1, <1>2, SameDirectory
<1> DEFINE f == Head(job.todo)
           n == job.n
<1>3. CASE f \in unit[n].files /\ unit' = [unit EXCEPT ![n].files = @ \ {f}]
  <2>1. /\ n \in Snapshots
        /\ \A k \in Published : k # n => unit[k].man.id > unit[n].man.id \/ n \notin Published
    BY <1>1, OldestFirst
  <2>2. Removed(n, f)
    BY <1>1, <1>3, <2>1, RemovedUnits
  <2>3. f \in Files
    BY <1>1, <1>3, <2>1, UnitParts
  <2>4. CASE f = "manifest"
    <3> DEFINE w == Sorted(Census)
    <3>1. n \in Published
      BY <1>3, <2>1, <2>4 DEF Published
    <3>2. Removed(n, "manifest")
      BY <2>2, <2>4
    <3> HIDE DEF n, f
    <3>3. w \in Seq(Nat) /\ w # <<>> /\ Sorted(Census') = ClosedUp(w, 1)
      BY <2>1, <3>1, <3>2, CensusShrinks
    <3>4. w = Sorted({m.id : m \in Manifests}) /\ Sorted(Census') = Sorted({m.id : m \in Manifests})'
      BY DEF Census
    <3> HIDE DEF w
    <3>5. Sorted(Census') = Tail(w)
      BY <3>3, ClosedUpTail
    <3>6. PW!Expire
      BY <1>1, <3>3, <3>4, <3>5 DEF PW!Expire
    <3> QED
      BY <3>6 DEF WindowStep, PW!PNext
  <2>5. CASE f = "artifact"
    <3>1. /\ Published' = Published /\ \A k \in Published : unit'[k].man = unit[k].man
      BY <2>1, <2>2, <2>5 DEF Removed, Published
    <3>2. Census' = {m.id : m \in {unit'[k].man : k \in Published'}}
      BY DEF Census, Manifests
    <3>3. Census' = Census
      BY <3>1, <3>2 DEF Census, Manifests
    <3> QED
      BY <1>1, <3>3, SameCensus
  <2> QED
    BY <2>3, <2>4, <2>5 DEF Files
<1> QED
  BY <1>2, <1>3 DEF PruneRemove

\* Somebody outside takes a manifest out of the window.
LEMMA RemovedWindow ==
  ASSUME PInv, NEW n \in Snapshots, RemovedOutside(n)
  PROVE  WindowStep
<1>1. /\ UNCHANGED <<high, intact>> /\ n \in Published /\ Typed /\ unit' = [unit EXCEPT ![n].files = @ \ {"manifest"}]
      /\ outside' = outside \cup {Reference(unit[n].man)}
  BY DEF RemovedOutside, PInv
<1> DEFINE w == Sorted(Census)
<1>2. Removed(n, "manifest")
  BY <1>1, RemovedUnits
<1>3. w \in Seq(Nat) /\ \E i \in DOMAIN w : w[i] = unit[n].man.id /\ Sorted(Census') = ClosedUp(w, i)
  BY <1>1, <1>2, CensusShrinks
<1>4. w = Sorted({m.id : m \in Manifests}) /\ Sorted(Census') = Sorted({m.id : m \in Manifests})'
  BY DEF Census
<1> HIDE DEF w
<1>5. PICK i \in DOMAIN w : w[i] = unit[n].man.id /\ Sorted(Census') = ClosedUp(w, i)
  BY <1>3
<1>6. Sorted(Census') = SubSeq(w, 1, i - 1) \o SubSeq(w, i + 1, Len(w))
  BY <1>3, <1>5, ClosedUpMiddle
<1>7. RemovedIds' = RemovedIds \cup {w[i]}
  <2>1. RemovedIds' = {r.id : r \in outside'}
    BY DEF RemovedIds
  <2>2. Reference(unit[n].man).id = w[i]
    BY <1>5 DEF Reference
  <2> QED
    BY <1>1, <2>1, <2>2 DEF RemovedIds
<1>8. PW!Lose
  BY <1>1, <1>4, <1>5, <1>6, <1>7 DEF PW!Lose
<1> QED
  BY <1>8 DEF WindowStep, PW!PNext

\* Somebody outside alters a manifest in place.
LEMMA AlteredWindow ==
  ASSUME PInv, NEW n \in Snapshots, AlteredOutside(n)
  PROVE  WindowStep
<1>1. /\ UNCHANGED <<high, outside, intact>> /\ unit' = [unit EXCEPT ![n].man.ok = FALSE]
      /\ unit \in [Snapshots -> Units] /\ \A k \in Snapshots : unit[k] \in Units
  BY DEF AlteredOutside, PInv, Typed
<1>2. \A k \in Snapshots : unit'[k].files = unit[k].files /\ unit'[k].man.id = unit[k].man.id
  BY <1>1 DEF Units, ManRecords
<1>3. Published' = Published /\ \A k \in Published : unit'[k].man.id = unit[k].man.id
  BY <1>2 DEF Published
<1>4. Census' = {unit'[k].man.id : k \in Published'} /\ Census = {unit[k].man.id : k \in Published}
  BY DEF Census, Manifests
<1>5. Census' = Census
  BY <1>3, <1>4
<1> QED
  BY <1>1, <1>5, SameCensus

\* Somebody outside replaces the watermark file.
LEMMA TouchedWindow ==
  ASSUME PInv, WatermarkReplaced
  PROVE  WindowStep
<1>1. UNCHANGED <<high, outside, unit>> /\ intact' = FALSE
  BY DEF WatermarkReplaced
<1>2. {m.id : m \in Manifests}' = {m.id : m \in Manifests} /\ RemovedIds' = RemovedIds
  BY <1>1 DEF Manifests, Published, RemovedIds
<1>3. CASE intact
  <2>1. PW!Touch
    BY <1>1, <1>2, <1>3 DEF PW!Touch
  <2> QED
    BY <2>1 DEF WindowStep, PW!PNext
<1>4. CASE ~ intact
  <2>1. intact \in BOOLEAN
    BY DEF PInv, Typed
  <2>2. intact' = intact
    BY <1>1, <1>4, <2>1, Zenon
  <2> QED
    BY <1>1, <2>2, SameDirectory
<1> QED
  BY <1>3, <1>4

LEMMA NextWindow ==
  ASSUME PInv, [Next]_vars
  PROVE  WindowStep
<1>1. CASE TickStep
  <2>1. CASE TickSkipped \/ AllocateWrite \/ AllocateCommit \/ ExtendChain
    BY <2>1, SameDirectory DEF TickSkipped, AllocateWrite, AllocateCommit, ExtendChain, dirVars, historyVars
  <2>2. CASE LedgerAppend \/ LedgerAppendTorn \/ LedgerObserve
    BY <2>2, SameDirectory DEF LedgerAppend, LedgerAppendTorn, LedgerObserve, dirVars, historyVars
  <2>3. CASE LedgerRewrite \/ LedgerClose \/ LedgerRelease
    BY <2>3, SameDirectory DEF LedgerRewrite, LedgerClose, LedgerRelease, dirVars, historyVars
  <2>4. CASE PruneScan \/ PruneBegin \/ PruneClose
    BY <2>4, SameDirectory DEF PruneScan, PruneBegin, PruneClose, dirVars, historyVars
  <2> QED
    BY <1>1, <2>1, <2>2, <2>3, <2>4, ArtifactsWindow, LinkWindow, PruneWindow DEF TickStep
<1>2. CASE OtherStep
  BY <1>2, SameDirectory DEF OtherStep, OtherOpen, OtherObserve, OtherClose, OtherRelease, dirVars, historyVars
<1>3. CASE SelfCompaction
  BY <1>3, SameDirectory DEF SelfCompaction, dirVars, historyVars
<1>4. CASE Crash
  BY <1>4, SameDirectory DEF Crash, historyVars
<1>5. CASE Outsider
  BY <1>5, RemovedWindow, AlteredWindow, TouchedWindow DEF Outsider
<1>6. CASE UNCHANGED vars
  BY <1>6, SameDirectory DEF vars, dirVars, historyVars
<1> QED
  BY <1>1, <1>2, <1>3, <1>4, <1>5, <1>6 DEF Next

LEMMA InitWindow ==
  ASSUME Init
  PROVE  PW!PInit
<1>1. /\ high = 0 /\ outside = {} /\ intact = TRUE /\ unit = [n \in Snapshots |-> NoUnit]
  BY DEF Init
<1>2. Manifests = {} /\ RemovedIds = {}
  BY <1>1 DEF Manifests, Published, NoUnit, RemovedIds
<1>3. {m.id : m \in Manifests} = {}
  BY <1>2
<1>4. Sorted({}) = <<>>
  <2>1. Cardinality({}) = 0
    BY FS_EmptySet
  <2> DEFINE F(i) == CHOOSE x \in {} : Cardinality({y \in {} : y <= x}) = i
  <2>2. Sorted({}) = [i \in 1 .. 0 |-> F(i)]
    BY <2>1 DEF Sorted
  <2> HIDE DEF F
  <2> QED
    BY <2>2
<1> QED
  BY <1>1, <1>2, <1>3, <1>4 DEF PW!PInit

\* The manifests on disk implement PublicationWindow: fresh ids at the new end,
\* removals at the old end, through crashes, failed removals and a restored
\* watermark (allocatePublicationID, publishSnapshot, prune).
THEOREM WindowImplemented ==
  Spec => WindowRefined
<1>1. Init => PW!PInit
  BY InitWindow
<1>2. PInv /\ [Next]_vars => [PW!PNext]_<<Sorted({m.id : m \in Manifests}), high, RemovedIds, intact>>
  BY NextWindow DEF WindowStep
<1> QED
  BY <1>1, <1>2, PublicationInvariant, PTL DEF Spec, WindowRefined, PW!PSpec
=============================================================================
