---------------------------- MODULE EvidenceProofs ----------------------------
(***************************************************************************)
(* TLAPS proofs about the logs of the evidence plane: the verification     *)
(* reports stay one chain and no view of them blames a publication without *)
(* reason (VerificationLog); the alert history loses nothing silently and  *)
(* a restart takes up the alert state it recorded (TransitionStore,        *)
(* HistoryReads); a client that follows cursors misses no record; the      *)
(* recorder of accepted records does not disturb the store, its ledger     *)
(* stays one chain, and the verdict drawn from both is right               *)
(* (AcceptanceLedger).                                                     *)
(***************************************************************************)
EXTENDS VerificationLog, AcceptanceLedger, HistoryReads, LogTheorems

-----------------------------------------------------------------------------
(* The verification reports.                                               *)

Scopes == {Dimensions, {"status"}}
Findings == [status : {"ok", "mismatch"}, lifecycle : {"bounded", ""},
             overall : {"contradicted", "attested", "unattested"}]
Statuses == UNION {[S -> {"ok", "mismatch"}] : S \in SUBSET Pubs}
ItemMaps == UNION {[S -> Findings] : S \in SUBSET Pubs}
Instants == Nat \ {0}
Digests == [group : Nat, at : Nat] \union {NoDigest}
Reports == [group : Nat \ {0}, at : Instants, evaluable : Scopes, items : ItemMaps, prev : Digests]
Lines == Reports \union {Torn}
Publications == [state : {"none", "generated", "listed", "pruned"}, at : Nat, altered : BOOLEAN]
Attestations ==
  {NoAtt, [step |-> "compact"]}
    \union [step : {"verify"}, at : Instants]
    \union [step : {"list"}, at : Instants, status : Statuses]
    \union [step : {"lock"}, at : Instants, evaluable : Scopes, items : ItemMaps]
    \union [step : {"append"}, line : Reports]

\* The values of the variables; an attestation's record by the step it is at.
VTypeOK ==
  /\ pub \in [Pubs -> Publications] /\ ruler \in {"bounded", "unreadable"} /\ clock \in Instants
  /\ vlog \in Seq(Lines)
  /\ att \in [Attesters -> Attestations]
  /\ reader # NoView => reader.log \in Seq(Lines) /\ reader.covered \subseteq Pubs
  /\ covered \subseteq Pubs /\ late \subseteq Pubs /\ overtaken \in BOOLEAN

Running(a, s) == att[a].step = s

\* The number a report that follows the log's last one bears.
NextGroup(log) == IF log = <<>> THEN 1 ELSE log[Len(log)].group + 1
LastLink(log) == IF log = <<>> THEN NoDigest ELSE Digest(log[Len(log)])

\* The numbers of a readable log run on from its first line, and so do the
\* links; whoever holds the mutex has read the log's present end.
Numbered(log) == \A i \in DOMAIN log : log[i].group = log[1].group + i - 1
Chaining ==
  /\ \A a \in Attesters : att[a].step \in {"append", "compact"} => writeMu = a
  /\ Classified(vlog) => Verifiable(vlog) /\ Numbered(vlog)
  /\ \A a \in Attesters : Running(a, "append") =>
       /\ Classified(vlog)
       /\ att[a].line.group = NextGroup(vlog) /\ att[a].line.prev = LastLink(vlog)

\* Every reading of the clock is in the past and belongs to one event.
Made == {p \in Pubs : pub[p].state # "none"}
Time(a) == IF Running(a, "append") THEN att[a].line.at ELSE att[a].at
Apart(t) == t < clock /\ \A p \in Pubs : pub[p].at # t
Ticking ==
  /\ \A p \in Pubs : pub[p].at < clock
  /\ \A a \in Attesters : att[a].step \in {"verify", "list", "lock", "append"} => Apart(Time(a))
  /\ \A i \in DOMAIN vlog : vlog[i] # Torn => Apart(vlog[i].at)

\* What a publication nobody altered is found to be.
Sound(scope) == Item("ok", IF scope = Dimensions THEN "bounded" ELSE "", scope)
Truthful(r) == \A p \in DOMAIN r.items : p \in Made /\ (~ pub[p].altered => r.items[p] = Sound(r.evaluable))
Finding ==
  /\ \A a \in Attesters :
       /\ Running(a, "list") =>
            \A p \in DOMAIN att[a].status : p \in Made /\ (~ pub[p].altered => att[a].status[p] = "ok")
       /\ Running(a, "lock") => Truthful(att[a])
       /\ Running(a, "append") => Truthful(att[a].line)
  /\ \A i \in DOMAIN vlog : vlog[i] # Torn => Truthful(vlog[i])
  /\ reader # NoView => \A i \in DOMAIN reader.log : reader.log[i] # Torn => Truthful(reader.log[i])

\* While reports are written in the order of their times, a publication some
\* report covered in time is covered by a report that is left, or a report was
\* dropped and all that are left are later than the publication.
Remembers(log, S) ==
  \A p \in S \ late : \/ Covers(log, p)
                      \/ log # <<>> /\ log[1].group > 1 /\ pub[p].at < log[1].at
InTime(r) == \A p \in DOMAIN r.items : p \in late \/ pub[p].at < r.at
InOrder(log) == \A i, j \in DOMAIN log : i < j => log[i].at <= log[j].at
Remembering ==
  /\ covered \subseteq Made
  /\ \A i \in DOMAIN vlog : vlog[i] # Torn => InTime(vlog[i])
  /\ ~ overtaken /\ Classified(vlog) => InOrder(vlog) /\ Remembers(vlog, covered)
  /\ reader # NoView => /\ reader.covered \subseteq Made
                        /\ ~ overtaken /\ Classified(reader.log) => Remembers(reader.log, reader.covered)

LEMMA LineFacts ==
  /\ \A r \in Reports : /\ r.group \in Nat \ {0} /\ r.at \in Instants /\ r.evaluable \in Scopes
                        /\ r # Torn /\ r \in Lines /\ DOMAIN r.items \subseteq Pubs
  /\ Torn \in Lines /\ \A l \in Lines : l # Torn => l \in Reports
<1>1. ASSUME NEW r \in Reports
      PROVE  /\ r.group \in Nat \ {0} /\ r.at \in Instants /\ r.evaluable \in Scopes
             /\ r \in Lines /\ r.items \in ItemMaps
  BY DEF Reports, Lines
<1>2. \A f \in ItemMaps : DOMAIN f \subseteq Pubs
  BY DEF ItemMaps
<1>3. Torn.group = 0
  BY DEF Torn
<1> QED
  BY <1>1, <1>2, <1>3 DEF Lines

LEMMA PubFacts ==
  /\ \A x \in Publications : /\ x.state \in {"none", "generated", "listed", "pruned"}
                             /\ x.at \in Nat /\ x.altered \in BOOLEAN
  /\ \A s \in {"none", "generated", "listed", "pruned"}, t \in Nat, b \in BOOLEAN :
       [state |-> s, at |-> t, altered |-> b] \in Publications
BY DEF Publications

LEMMA AttFacts ==
  /\ \A x \in Attestations :
       /\ x.step \in {"idle", "verify", "list", "lock", "append", "compact"}
       /\ x.step \in {"verify", "list", "lock"} => x.at \in Instants
       /\ x.step = "list" => x.status \in Statuses
       /\ x.step = "lock" => x.evaluable \in Scopes /\ x.items \in ItemMaps
       /\ x.step = "append" => x.line \in Reports
  /\ NoAtt \in Attestations /\ [step |-> "compact"] \in Attestations
  /\ \A t \in Instants : [step |-> "verify", at |-> t] \in Attestations
  /\ \A t \in Instants, f \in Statuses : [step |-> "list", at |-> t, status |-> f] \in Attestations
  /\ \A t \in Instants, e \in Scopes, f \in ItemMaps :
       [step |-> "lock", at |-> t, evaluable |-> e, items |-> f] \in Attestations
  /\ \A r \in Reports : [step |-> "append", line |-> r] \in Attestations
BY DEF Attestations, NoAtt

LEMMA ItemTyped ==
  ASSUME NEW st \in {"ok", "mismatch"}, NEW life \in {"bounded", ""}, NEW ev \in Scopes
  PROVE  Item(st, life, ev) \in Findings
BY DEF Item, Findings, MergeOverall

LEMMA ReadableLines ==
  ASSUME NEW log \in Seq(Lines), Classified(log)
  PROVE  \A i \in 1 .. Len(log) : log[i] \in Reports
<1>1. \A i \in 1 .. Len(log) : log[i] \in Lines /\ log[i] # Torn
  BY DEF Classified
<1> QED
  BY <1>1, LineFacts

LEMMA NumberedAscends ==
  ASSUME NEW log \in Seq(Lines), Classified(log), Numbered(log)
  PROVE  Ascending(log) /\ \A i \in DOMAIN log : log[i].group \in Nat
<1>1. \A i \in 1 .. Len(log) : log[i].group \in Nat
  BY ReadableLines, LineFacts
<1>2. DOMAIN log = 1 .. Len(log) /\ Len(log) \in Nat
  OBVIOUS
<1> QED
  BY <1>1, <1>2 DEF Numbered, Ascending

\* The highest number is the last line's.
LEMMA HighestIsLast ==
  ASSUME NEW log \in Seq(Lines), Classified(log), Numbered(log)
  PROVE  Max({0} \union Groups(log)) + 1 = NextGroup(log)
<1> DEFINE S == {0} \union Groups(log)
           m == IF log = <<>> THEN 0 ELSE log[Len(log)].group
<1>1. DOMAIN log = 1 .. Len(log) /\ Len(log) \in Nat /\ (log # <<>> => Len(log) > 0)
  BY EmptySeq, LenProperties
<1>2. \A i \in 1 .. Len(log) : log[i].group \in Nat
  BY ReadableLines, LineFacts
<1>3. m \in S /\ m \in Nat
  BY <1>1, <1>2 DEF Groups
<1>4. \A x \in S : x \in Nat /\ x <= m
  BY <1>1, <1>2, EmptySeq DEF Groups, Numbered
<1>5. Max(S) = m
  <2> HIDE DEF S, m
  <2>1. \A x \in S : (\A y \in S : x >= y) <=> x = m
    BY <1>3, <1>4
  <2> QED
    BY <1>3, <2>1 DEF Max
<1> QED
  BY <1>5 DEF NextGroup

LEMMA ChainGrows ==
  ASSUME NEW log \in Seq(Lines), Classified(log), Verifiable(log), Numbered(log),
         NEW line \in Reports, line.group = NextGroup(log), line.prev = LastLink(log)
  PROVE  LET grown == Append(log, line) IN
           grown \in Seq(Lines) /\ Classified(grown) /\ Verifiable(grown) /\ Numbered(grown)
<1> DEFINE grown == Append(log, line)
           n == Len(log)
<1>1. line \in Lines /\ line # Torn
  BY LineFacts
<1>2. /\ grown \in Seq(Lines) /\ Len(grown) = n + 1 /\ n \in Nat
      /\ DOMAIN grown = 1 .. n + 1 /\ DOMAIN log = 1 .. n
      /\ grown[n + 1] = line /\ \A i \in 1 .. n : grown[i] = log[i]
      /\ (log = <<>> <=> n = 0)
  BY <1>1, AppendProperties, EmptySeq
<1>3. \A i \in 1 .. n : log[i].group \in Nat
  BY ReadableLines, LineFacts
<1> HIDE DEF grown, n
<1>4. Classified(grown)
  BY <1>1, <1>2 DEF Classified
<1>5. Verifiable(grown)
  <2> SUFFICES ASSUME NEW i \in 2 .. n + 1
               PROVE  grown[i].prev = Digest(grown[i - 1]) /\ grown[i].group = grown[i - 1].group + 1
    BY <1>2 DEF Verifiable
  <2>1. CASE i = n + 1
    BY <1>2, <2>1 DEF NextGroup, LastLink, n
  <2>2. CASE i # n + 1
    <3>1. i \in 2 .. n /\ i - 1 \in 1 .. n /\ i \in 1 .. n
      BY <1>2, <2>2
    <3> QED
      BY <1>2, <3>1 DEF Verifiable, n
  <2> QED
    BY <2>1, <2>2
<1>6. Numbered(grown)
  <2> SUFFICES ASSUME NEW i \in 1 .. n + 1 PROVE grown[i].group = grown[1].group + i - 1
    BY <1>2 DEF Numbered
  <2>1. CASE n = 0
    BY <1>2, <2>1, LineFacts
  <2>2. CASE n # 0
    <3>1. grown[1] = log[1] /\ \A j \in 1 .. n : log[j].group = log[1].group + j - 1
      BY <1>2, <2>2 DEF Numbered
    <3>2. line.group = log[n].group + 1
      BY <1>2, <2>2 DEF NextGroup, n
    <3>3. n \in 1 .. n /\ 1 \in 1 .. n
      BY <1>2, <2>2
    <3> DEFINE g == grown[1].group
               h == log[n].group
               l == line.group
    <3>4. g \in Nat /\ h = g + n - 1 /\ l = h + 1
      BY <1>3, <3>1, <3>2, <3>3
    <3>5. CASE i = n + 1
      <4>1. grown[i].group = l
        BY <1>2, <3>5
      <4> HIDE DEF g, h, l
      <4>2. l = g + i - 1
        BY <1>2, <3>4, <3>5
      <4> QED
        BY <4>1, <4>2 DEF g
    <3>6. CASE i # n + 1
      <4>1. i \in 1 .. n
        BY <1>2, <3>6
      <4> QED
        BY <1>2, <3>1, <4>1
    <3> QED
      BY <3>5, <3>6
  <2> QED
    BY <2>1, <2>2
<1> QED
  BY <1>2, <1>4, <1>5, <1>6 DEF grown

LEMMA ChainShrinks ==
  ASSUME NEW log \in Seq(Lines), Classified(log), Verifiable(log), Numbered(log)
  PROVE  LET left == WithoutGroups(log, DroppedGroups(log, VerifyCapacity)) IN
           /\ left \in Seq(Lines) /\ Classified(left) /\ Verifiable(left) /\ Numbered(left)
           /\ \E k \in Nat : /\ k <= Len(log) /\ (log # <<>> => k < Len(log))
                            /\ left = [n \in 1 .. Len(log) - k |-> log[k + n]]
<1> DEFINE left == WithoutGroups(log, DroppedGroups(log, VerifyCapacity))
<1>1. Ascending(log) /\ \A i \in DOMAIN log : log[i].group \in Nat
  BY NumberedAscends
<1>2. PICK k \in Nat : /\ k <= Len(log) /\ (log # <<>> => k < Len(log))
                      /\ left = [n \in 1 .. Len(log) - k |-> log[k + n]]
  BY <1>1, CompactedIsSuffix, VerificationConstants
<1> HIDE DEF left
<1>3. Len(log) \in Nat /\ DOMAIN log = 1 .. Len(log) /\ \A i \in 1 .. Len(log) : log[i] \in Lines
  OBVIOUS
<1>4. left \in Seq(Lines) /\ Len(left) = Len(log) - k /\ DOMAIN left = 1 .. Len(log) - k
  <2>1. Len(log) - k \in Nat /\ \A i \in 1 .. Len(log) - k : log[k + i] \in Lines
    BY <1>2, <1>3
  <2> QED
    BY <1>2, <2>1, IsASeq
<1>5. \A i \in 1 .. Len(log) - k : left[i] = log[k + i] /\ k + i \in 1 .. Len(log)
  BY <1>2, <1>3
<1>6. Classified(left)
  BY <1>3, <1>4, <1>5 DEF Classified
<1>7. Verifiable(left)
  <2> SUFFICES ASSUME NEW i \in 2 .. Len(log) - k
               PROVE  left[i].prev = Digest(left[i - 1]) /\ left[i].group = left[i - 1].group + 1
    BY <1>4 DEF Verifiable
  <2>1. /\ i \in 1 .. Len(log) - k /\ i - 1 \in 1 .. Len(log) - k
        /\ k + i \in 2 .. Len(log) /\ k + i - 1 = k + (i - 1)
    BY <1>3
  <2>2. log[k + i].prev = Digest(log[k + i - 1]) /\ log[k + i].group = log[k + i - 1].group + 1
    BY <2>1 DEF Verifiable
  <2> QED
    BY <1>5, <2>1, <2>2
<1>8. Numbered(left)
  <2> SUFFICES ASSUME NEW i \in 1 .. Len(log) - k PROVE left[i].group = left[1].group + i - 1
    BY <1>4 DEF Numbered
  <2>1. left[i] = log[k + i] /\ left[1] = log[k + 1] /\ k + i \in 1 .. Len(log) /\ k + 1 \in 1 .. Len(log)
    BY <1>3, <1>5
  <2>2. log[k + i].group = log[1].group + (k + i) - 1 /\ log[k + 1].group = log[1].group + (k + 1) - 1
    BY <1>3, <2>1 DEF Numbered
  <2>3. log[1].group \in Nat
    BY <1>1, <1>3, <2>1
  <2> HIDE DEF left
  <2>4. i \in Int /\ k \in Int /\ log[1].group \in Int
    BY <1>3, <2>3
  <2> DEFINE g == log[1].group
             x == left[i].group
             y == left[1].group
  <2>5. g \in Int /\ x = g + (k + i) - 1 /\ y = g + (k + 1) - 1
    BY <2>1, <2>2, <2>4
  <2> HIDE DEF g, x, y
  <2>6. x = y + i - 1
    BY <2>4, <2>5
  <2> QED
    BY <2>6 DEF x, y
<1> QED
  BY <1>2, <1>4, <1>6, <1>7, <1>8 DEF left


LEMMA LinesKept ==
  ASSUME NEW log \in Seq(Lines), Classified(log), Verifiable(log), Numbered(log)
  PROVE  LET left == WithoutGroups(log, DroppedGroups(log, VerifyCapacity)) IN
           \A i \in DOMAIN left : \E j \in DOMAIN log : left[i] = log[j]
<1> DEFINE left == WithoutGroups(log, DroppedGroups(log, VerifyCapacity))
<1>1. PICK k \in Nat : k <= Len(log) /\ left = [n \in 1 .. Len(log) - k |-> log[k + n]]
  BY ChainShrinks
<1>2. Len(log) \in Nat /\ DOMAIN log = 1 .. Len(log)
  OBVIOUS
<1> HIDE DEF left
<1>3. \A i \in 1 .. Len(log) - k : k + i \in 1 .. Len(log) /\ left[i] = log[k + i]
  BY <1>1, <1>2
<1>4. DOMAIN left = 1 .. Len(log) - k
  BY <1>1
<1> QED
  BY <1>2, <1>3, <1>4 DEF left

LEMMA VTypeStep ==
  ASSUME VTypeOK, Chaining, VNext
  PROVE  VTypeOK'
<1> USE DEF VTypeOK, Running, NoView
<1>1. ASSUME NEW p \in Pubs, Generate(p) PROVE VTypeOK'
  <2>1. [state |-> "generated", at |-> clock, altered |-> FALSE] \in Publications
    BY PubFacts DEF Instants
  <2>2. clock' \in Instants
    BY <1>1 DEF Generate, Instants
  <2> QED
    BY <1>1, <2>1, <2>2 DEF Generate
<1>2. ASSUME NEW p \in Pubs, Link(p) PROVE VTypeOK'
  <2>1. [state |-> "listed", at |-> pub[p].at, altered |-> pub[p].altered] \in Publications
    BY PubFacts
  <2> QED
    BY <1>2, <2>1 DEF Link, Becomes
<1>3. ASSUME NEW a \in Attesters, Attest(a) PROVE VTypeOK'
  <2>1. clock' \in Instants
    BY <1>3 DEF Attest, Instants
  <2> QED
    BY <1>3, <2>1, AttFacts DEF Attest
<1>4. ASSUME NEW a \in Attesters, VerifySnapshots(a) PROVE VTypeOK'
  <2> DEFINE f == [p \in Listed |-> IF pub[p].altered THEN "mismatch" ELSE "ok"]
  <2>1. f \in Statuses
    <3>1. f \in [Listed -> {"ok", "mismatch"}] /\ Listed \in SUBSET Pubs
      BY DEF Listed
    <3> HIDE DEF f
    <3> QED
      BY <3>1 DEF Statuses
  <2>2. att[a].at \in Instants
    BY <1>4, AttFacts DEF VerifySnapshots
  <2> HIDE DEF f
  <2>3. [step |-> "list", at |-> att[a].at, status |-> f] \in Attestations
    BY <2>1, <2>2, AttFacts
  <2> QED
    BY <1>4, <2>3 DEF VerifySnapshots, f
<1>5. ASSUME NEW a \in Attesters, BuildReport(a) PROVE VTypeOK'
  <2> DEFINE ev == IF ruler = "bounded" THEN Dimensions ELSE Dimensions \ {"lifecycle"}
             life == IF ruler = "bounded" THEN "bounded" ELSE ""
             ids == DOMAIN att[a].status \intersect Listed
             f == [p \in ids |-> Item(att[a].status[p], life, ev)]
  <2>1. ev \in Scopes /\ life \in {"bounded", ""} /\ ids \in SUBSET Pubs
    BY DEF Scopes, Dimensions, Listed
  <2>2. \A p \in DOMAIN att[a].status : att[a].status[p] \in {"ok", "mismatch"}
    <3>1. att[a].status \in Statuses
      BY <1>5, AttFacts DEF BuildReport
    <3>2. PICK S \in SUBSET Pubs : att[a].status \in [S -> {"ok", "mismatch"}]
      BY <3>1 DEF Statuses
    <3> QED
      BY <3>2
  <2>3. f \in ItemMaps
    <3> HIDE DEF ev, life
    <3>1. \A p \in ids : Item(att[a].status[p], life, ev) \in Findings
      BY <2>1, <2>2, ItemTyped
    <3>2. f \in [ids -> Findings]
      BY <3>1
    <3> HIDE DEF f, ids
    <3> QED
      BY <2>1, <3>2 DEF ItemMaps
  <2>4. att[a].at \in Instants
    BY <1>5, AttFacts DEF BuildReport
  <2>5. att' = [att EXCEPT ![a] = [step |-> "lock", at |-> att[a].at, evaluable |-> ev, items |-> f]]
    BY <1>5 DEF BuildReport
  <2> HIDE DEF f, ev
  <2>6. att' \in [Attesters -> Attestations]
    BY <2>1, <2>3, <2>4, <2>5, AttFacts
  <2> QED
    BY <1>5, <2>6 DEF BuildReport
<1>6. ASSUME NEW a \in Attesters, ReportRefused(a) PROVE VTypeOK'
  BY <1>6, AttFacts DEF ReportRefused
<1>7. ASSUME NEW a \in Attesters, ReadHead(a) PROVE VTypeOK'
  <2> DEFINE line == [group |-> Max({0} \union Groups(vlog)) + 1, at |-> att[a].at,
                      evaluable |-> att[a].evaluable, items |-> att[a].items,
                      prev |-> IF vlog = <<>> THEN NoDigest ELSE Digest(vlog[Len(vlog)])]
  <2>1. Classified(vlog) /\ Numbered(vlog)
    BY <1>7 DEF ReadHead, Chaining
  <2>2. \A i \in 1 .. Len(vlog) : vlog[i].group \in Nat \ {0} /\ vlog[i].at \in Instants
    BY <2>1, ReadableLines, LineFacts
  <2>3. Len(vlog) \in Nat /\ (vlog # <<>> => Len(vlog) \in 1 .. Len(vlog))
    BY EmptySeq, LenProperties
  <2>4. Max({0} \union Groups(vlog)) + 1 \in Nat \ {0}
    BY <2>1, <2>2, <2>3, HighestIsLast DEF NextGroup
  <2>5. (IF vlog = <<>> THEN NoDigest ELSE Digest(vlog[Len(vlog)])) \in Digests
    BY <2>2, <2>3 DEF Digests, Digest, Instants
  <2>6. att[a].at \in Instants /\ att[a].evaluable \in Scopes /\ att[a].items \in ItemMaps
    BY <1>7, AttFacts DEF ReadHead
  <2>7. line \in Reports
    BY <2>4, <2>5, <2>6 DEF Reports
  <2>8. att' = [att EXCEPT ![a] = [step |-> "append", line |-> line]]
    BY <1>7 DEF ReadHead
  <2> HIDE DEF line
  <2>9. att' \in [Attesters -> Attestations]
    BY <2>7, <2>8, AttFacts
  <2> QED
    BY <1>7, <2>9 DEF ReadHead
<1>8. ASSUME NEW a \in Attesters, AppendReport(a) PROVE VTypeOK'
  <2>1. att[a].line \in Lines /\ DOMAIN att[a].line.items \subseteq Pubs
    BY <1>8, AttFacts, LineFacts DEF AppendReport
  <2>2. vlog' \in Seq(Lines)
    BY <1>8, <2>1, AppendProperties DEF AppendReport, Appended
  <2>3. overtaken' \in BOOLEAN
    BY <1>8 DEF AppendReport
  <2> QED
    BY <1>8, <2>1, <2>2, <2>3, AttFacts DEF AppendReport
<1>9. ASSUME NEW a \in Attesters, AppendFails(a) PROVE VTypeOK'
  <2>1. vlog' \in Seq(Lines)
    BY <1>9, LineFacts, AppendProperties DEF AppendFails, TornAppend
  <2> QED
    BY <1>9, <2>1, AttFacts DEF AppendFails
<1>10. ASSUME NEW a \in Attesters, CompactReports(a) PROVE VTypeOK'
  <2>1. vlog' \in Seq(Lines)
    BY <1>10, ChainShrinks DEF CompactReports, Chaining
  <2> QED
    BY <1>10, <2>1, AttFacts DEF CompactReports
<1>11. CASE Outside
  <2>1. \A p \in Pubs : /\ [state |-> "listed", at |-> pub[p].at, altered |-> TRUE] \in Publications
                       /\ [state |-> "pruned", at |-> pub[p].at, altered |-> pub[p].altered] \in Publications
    BY PubFacts
  <2>2. pub' \in [Pubs -> Publications]
    BY <1>11, <2>1 DEF Outside, Becomes, Listed
  <2>3. ruler' \in {"bounded", "unreadable"}
    BY <1>11 DEF Outside
  <2> QED
    BY <1>11, <2>2, <2>3 DEF Outside
<1>12. CASE ViewRead
  BY <1>12 DEF ViewRead
<1>13. CASE ViewDerive
  BY <1>13 DEF ViewDerive
<1> QED
  BY <1>1, <1>2, <1>3, <1>4, <1>5, <1>6, <1>7, <1>8, <1>9, <1>10, <1>11, <1>12, <1>13
     DEF VNext

LEMMA ChainingStep ==
  ASSUME VTypeOK, Chaining, VNext
  PROVE  Chaining'
<1> USE VerificationConstants DEF VTypeOK, Chaining, Running, NoAtt
<1>1. ASSUME NEW p \in Pubs, Generate(p) PROVE Chaining'
  BY <1>1 DEF Generate
<1>2. ASSUME NEW p \in Pubs, Link(p) PROVE Chaining'
  BY <1>2 DEF Link
<1>3. ASSUME NEW a \in Attesters, Attest(a) PROVE Chaining'
  BY <1>3 DEF Attest
<1>4. ASSUME NEW a \in Attesters, VerifySnapshots(a) PROVE Chaining'
  BY <1>4 DEF VerifySnapshots
<1>5. ASSUME NEW a \in Attesters, BuildReport(a) PROVE Chaining'
  BY <1>5 DEF BuildReport
<1>6. ASSUME NEW a \in Attesters, ReportRefused(a) PROVE Chaining'
  BY <1>6 DEF ReportRefused
<1>7. ASSUME NEW a \in Attesters, ReadHead(a) PROVE Chaining'
  <2>1. Classified(vlog) /\ Numbered(vlog) /\ writeMu = Nobody /\ writeMu' = a /\ vlog' = vlog
    BY <1>7 DEF ReadHead, WriteMuFree
  <2>2. Max({0} \union Groups(vlog)) + 1 = NextGroup(vlog)
    BY <2>1, HighestIsLast
  <2>3. /\ att'[a].step = "append" /\ \A b \in Attesters \ {a} : att'[b] = att[b]
        /\ att'[a].line.group = NextGroup(vlog) /\ att'[a].line.prev = LastLink(vlog)
    BY <1>7, <2>2 DEF ReadHead, LastLink
  <2> QED
    BY <2>1, <2>3
<1>8. ASSUME NEW a \in Attesters, AppendReport(a) PROVE Chaining'
  <2>1. /\ Classified(vlog) /\ Verifiable(vlog) /\ Numbered(vlog) /\ writeMu = a
        /\ att[a].line.group = NextGroup(vlog) /\ att[a].line.prev = LastLink(vlog)
    BY <1>8 DEF AppendReport
  <2>2. att[a].line \in Reports
    BY <1>8, AttFacts DEF AppendReport
  <2>3. Verifiable(vlog') /\ Numbered(vlog')
    BY <1>8, <2>1, <2>2, ChainGrows DEF AppendReport, Appended
  <2>4. /\ att'[a].step = "compact" /\ \A b \in Attesters \ {a} : att'[b] = att[b]
        /\ writeMu' = writeMu
    BY <1>8 DEF AppendReport
  <2> QED
    BY <2>1, <2>3, <2>4
<1>9. ASSUME NEW a \in Attesters, AppendFails(a) PROVE Chaining'
  <2>1. ~ Classified(vlog')
    <3>1. vlog' = Append(vlog, Torn)
      BY <1>9 DEF AppendFails, TornAppend
    <3>2. Len(vlog') \in DOMAIN vlog' /\ vlog'[Len(vlog')] = Torn
      BY <3>1, AppendProperties, LineFacts
    <3> QED
      BY <3>2 DEF Classified
  <2>2. /\ att'[a].step = "idle" /\ \A b \in Attesters \ {a} : att'[b] = att[b]
        /\ writeMu = a
    BY <1>9 DEF AppendFails
  <2> QED
    BY <2>1, <2>2
<1>10. ASSUME NEW a \in Attesters, CompactReports(a) PROVE Chaining'
  <2>1. Classified(vlog') => Verifiable(vlog') /\ Numbered(vlog')
    BY <1>10, ChainShrinks DEF CompactReports
  <2>2. /\ att'[a].step = "idle" /\ \A b \in Attesters \ {a} : att'[b] = att[b]
        /\ writeMu = a
    BY <1>10 DEF CompactReports
  <2> QED
    BY <2>1, <2>2
<1>11. CASE Outside
  BY <1>11 DEF Outside
<1>12. CASE ViewRead
  BY <1>12 DEF ViewRead
<1>13. CASE ViewDerive
  BY <1>13 DEF ViewDerive
<1> QED
  BY <1>1, <1>2, <1>3, <1>4, <1>5, <1>6, <1>7, <1>8, <1>9, <1>10, <1>11, <1>12, <1>13
     DEF VNext

LEMMA TickingStep ==
  ASSUME VTypeOK, Chaining, Ticking, VNext
  PROVE  Ticking'
<1>0. /\ clock \in Int /\ clock > 0
      /\ \A p \in Pubs : pub[p].at \in Int /\ pub[p].at >= 0
      /\ \A a \in Attesters :
           /\ att[a].step \in {"verify", "list", "lock"} => att[a].at \in Int /\ att[a].at > 0
           /\ Running(a, "append") => att[a].line.at \in Int /\ att[a].line.at > 0
      /\ \A i \in DOMAIN vlog : vlog[i] # Torn => vlog[i].at \in Int /\ vlog[i].at > 0
  <2>1. \A i \in DOMAIN vlog : vlog[i] # Torn => vlog[i] \in Reports
    BY LineFacts DEF VTypeOK
  <2>2. \A a \in Attesters :
           /\ att[a].step \in {"verify", "list", "lock"} => att[a].at \in Instants
           /\ Running(a, "append") => att[a].line \in Reports
    BY AttFacts DEF VTypeOK, Running
  <2>3. \A p \in Pubs : pub[p].at \in Nat
    BY PubFacts DEF VTypeOK
  <2> QED
    BY <2>1, <2>2, <2>3, LineFacts DEF VTypeOK, Instants
<1> USE DEF Ticking, Apart, Time, Running, NoAtt
<1> DEFINE Else(a) == \A b \in Attesters \ {a} : att'[b] = att[b]
<1>a. DOMAIN att = Attesters /\ DOMAIN pub = Pubs
  BY DEF VTypeOK
<1>1. ASSUME NEW p \in Pubs, Generate(p) PROVE Ticking'
  <2>1. /\ pub'[p].at = clock /\ \A q \in Pubs \ {p} : pub'[q] = pub[q]
        /\ clock' = clock + 1 /\ att' = att /\ vlog' = vlog
    BY <1>1, <1>a DEF Generate
  <2> QED
    BY <1>0, <2>1
<1>2. ASSUME NEW p \in Pubs, Link(p) PROVE Ticking'
  <2>1. /\ \A q \in Pubs : pub'[q].at = pub[q].at
        /\ clock' = clock /\ att' = att /\ vlog' = vlog
    BY <1>2, <1>a DEF Link, Becomes
  <2> QED
    BY <1>0, <2>1
<1>3. ASSUME NEW a \in Attesters, Attest(a) PROVE Ticking'
  <2>1. /\ att'[a].step = "verify" /\ att'[a].at = clock /\ Else(a)
        /\ clock' = clock + 1 /\ pub' = pub /\ vlog' = vlog
    BY <1>3, <1>a DEF Attest
  <2> QED
    BY <1>0, <2>1
<1>4. ASSUME NEW a \in Attesters, VerifySnapshots(a) PROVE Ticking'
  <2>1. /\ att[a].step = "verify" /\ att'[a].step = "list" /\ att'[a].at = att[a].at /\ Else(a)
        /\ clock' = clock /\ pub' = pub /\ vlog' = vlog
    BY <1>4, <1>a DEF VerifySnapshots
  <2> QED
    BY <1>0, <2>1
<1>5. ASSUME NEW a \in Attesters, BuildReport(a) PROVE Ticking'
  <2>1. /\ att[a].step = "list" /\ att'[a].step = "lock" /\ att'[a].at = att[a].at /\ Else(a)
        /\ clock' = clock /\ pub' = pub /\ vlog' = vlog
    BY <1>5, <1>a DEF BuildReport
  <2> QED
    BY <1>0, <2>1
<1>6. ASSUME NEW a \in Attesters, ReportRefused(a) PROVE Ticking'
  BY <1>6, <1>a DEF ReportRefused
<1>7. ASSUME NEW a \in Attesters, ReadHead(a) PROVE Ticking'
  <2>1. /\ att[a].step = "lock" /\ att'[a].step = "append" /\ att'[a].line.at = att[a].at /\ Else(a)
        /\ clock' = clock /\ pub' = pub /\ vlog' = vlog
    BY <1>7, <1>a DEF ReadHead
  <2> QED
    BY <1>0, <2>1
<1>8. ASSUME NEW a \in Attesters, AppendReport(a) PROVE Ticking'
  <2>1. /\ att[a].step = "append" /\ att'[a].step = "compact" /\ Else(a)
        /\ clock' = clock /\ pub' = pub /\ vlog' = Append(vlog, att[a].line)
    BY <1>8, <1>a DEF AppendReport, Appended
  <2>2. vlog \in Seq(Lines) /\ att[a].line \in Lines
    BY <2>1, AttFacts, LineFacts DEF VTypeOK
  <2>3. \A i \in DOMAIN vlog' : vlog'[i] = att[a].line \/ (i \in DOMAIN vlog /\ vlog'[i] = vlog[i])
    BY <2>1, <2>2, AppendProperties
  <2> QED
    BY <1>0, <2>1, <2>3
<1>9. ASSUME NEW a \in Attesters, AppendFails(a) PROVE Ticking'
  <2>1. /\ att'[a].step = "idle" /\ Else(a)
        /\ clock' = clock /\ pub' = pub /\ vlog' = Append(vlog, Torn)
    BY <1>9, <1>a DEF AppendFails, TornAppend
  <2>2. \A i \in DOMAIN vlog' : vlog'[i] = Torn \/ (i \in DOMAIN vlog /\ vlog'[i] = vlog[i])
    BY <2>1, AppendProperties, LineFacts DEF VTypeOK
  <2> QED
    BY <1>0, <2>1, <2>2
<1>10. ASSUME NEW a \in Attesters, CompactReports(a) PROVE Ticking'
  <2>1. /\ att'[a].step = "idle" /\ Else(a)
        /\ clock' = clock /\ pub' = pub
    BY <1>10, <1>a DEF CompactReports
  <2>2. \A i \in DOMAIN vlog' : \E j \in DOMAIN vlog : vlog'[i] = vlog[j]
    BY <1>10, LinesKept DEF CompactReports, VTypeOK, Chaining
  <2> QED
    BY <1>0, <2>1, <2>2
<1>11. CASE Outside
  <2>1. /\ \A q \in Pubs : pub'[q].at = pub[q].at
        /\ clock' = clock /\ att' = att /\ vlog' = vlog
    BY <1>11, <1>a DEF Outside, Becomes, Listed
  <2> QED
    BY <1>0, <2>1
<1>12. CASE ViewRead
  BY <1>12 DEF ViewRead
<1>13. CASE ViewDerive
  BY <1>13 DEF ViewDerive
<1> QED
  BY <1>1, <1>2, <1>3, <1>4, <1>5, <1>6, <1>7, <1>8, <1>9, <1>10, <1>11, <1>12, <1>13
     DEF VNext

\* A publication that is made stays made and altered, and keeps its time.
LEMMA PubsKept ==
  ASSUME VTypeOK, VNext
  PROVE  \A q \in Made : q \in Made' /\ (pub[q].altered => pub'[q].altered) /\ pub'[q].at = pub[q].at
<1>a. DOMAIN pub = Pubs
  BY DEF VTypeOK
<1> USE DEF Made
<1>1. ASSUME NEW p \in Pubs, Generate(p) \/ Link(p)
      PROVE  \A q \in Made : q \in Made' /\ (pub[q].altered => pub'[q].altered) /\ pub'[q].at = pub[q].at
  <2>1. CASE Generate(p)
    BY <1>a, <2>1 DEF Generate
  <2>2. CASE Link(p)
    BY <1>a, <2>2 DEF Link, Becomes
  <2> QED
    BY <1>1, <2>1, <2>2
<1>2. CASE Outside
  BY <1>2, <1>a DEF Outside, Becomes, Listed
<1>3. CASE UNCHANGED pub
  BY <1>3
<1>4. Outside \/ (\E p \in Pubs : Generate(p) \/ Link(p)) \/ UNCHANGED pub
  BY DEF VNext, Attest, VerifySnapshots, BuildReport, ReportRefused, ReadHead, AppendReport,
         AppendFails, CompactReports, ViewRead, ViewDerive
<1> QED
  BY <1>1, <1>2, <1>3, <1>4

LEMMA FindingStep ==
  ASSUME VTypeOK, Chaining, Finding, VNext
  PROVE  Finding'
<1> DEFINE Else(a) == \A b \in Attesters \ {a} : att'[b] = att[b]
<1>a. DOMAIN att = Attesters /\ DOMAIN pub = Pubs
  BY DEF VTypeOK
<1>b. \A q \in Made : q \in Made' /\ (pub[q].altered => pub'[q].altered)
  BY PubsKept
<1>c. Listed \subseteq Made
  BY DEF Listed, Made
<1> USE DEF Finding, Truthful, Running, NoAtt
<1>1. CASE UNCHANGED <<vlog, att, reader>>
  BY <1>1, <1>b
<1>3. ASSUME NEW a \in Attesters, Attest(a) PROVE Finding'
  <2>1. att'[a].step = "verify" /\ Else(a) /\ vlog' = vlog /\ reader' = reader
    BY <1>3, <1>a DEF Attest
  <2> QED
    BY <1>b, <2>1
<1>4. ASSUME NEW a \in Attesters, VerifySnapshots(a) PROVE Finding'
  <2>1. /\ att'[a].step = "list" /\ Else(a) /\ vlog' = vlog /\ reader' = reader /\ pub' = pub
        /\ att'[a].status = [p \in Listed |-> IF pub[p].altered THEN "mismatch" ELSE "ok"]
    BY <1>4, <1>a DEF VerifySnapshots
  <2> QED
    BY <1>b, <1>c, <2>1
<1>5. ASSUME NEW a \in Attesters, BuildReport(a) PROVE Finding'
  <2> DEFINE ev == IF ruler = "bounded" THEN Dimensions ELSE Dimensions \ {"lifecycle"}
             life == IF ruler = "bounded" THEN "bounded" ELSE ""
             ids == DOMAIN att[a].status \intersect Listed
  <2>1. /\ att[a].step = "list" /\ att'[a].step = "lock" /\ Else(a)
        /\ vlog' = vlog /\ reader' = reader /\ pub' = pub
        /\ att'[a].evaluable = ev
        /\ att'[a].items = [p \in ids |-> Item(att[a].status[p], life, ev)]
    BY <1>5, <1>a DEF BuildReport
  <2>2. Item("ok", life, ev) = Sound(ev)
    BY DEF Sound, Dimensions
  <2> HIDE DEF ev, life
  <2>3. \A p \in ids : p \in Made /\ (~ pub[p].altered => att[a].status[p] = "ok")
    BY <2>1
  <2>4. \A p \in DOMAIN att'[a].items :
          p \in Made /\ (~ pub[p].altered => att'[a].items[p] = Sound(att'[a].evaluable))
    BY <2>1, <2>2, <2>3
  <2>5. Made' = Made
    BY <2>1 DEF Made
  <2>6. Truthful(att[a])'
    BY <2>1, <2>4, <2>5
  <2>7. \A b \in Attesters \ {a} :
          /\ att'[b].step = "list" =>
               \A p \in DOMAIN att'[b].status : p \in Made /\ (~ pub[p].altered => att'[b].status[p] = "ok")
          /\ att'[b].step = "lock" => Truthful(att[b])'
          /\ att'[b].step = "append" => Truthful(att[b].line)'
    BY <2>1, <2>5
  <2> HIDE DEF Truthful, ids
  <2>8. /\ \A i \in DOMAIN vlog : vlog[i] # Torn => Truthful(vlog[i])'
        /\ reader # NoView => \A i \in DOMAIN reader.log : reader.log[i] # Torn => Truthful(reader.log[i])'
    BY <2>1, <2>5 DEF Truthful
  <2> QED
    BY <2>1, <2>5, <2>6, <2>7, <2>8
<1>6. ASSUME NEW a \in Attesters, ReportRefused(a) PROVE Finding'
  <2>1. att'[a].step = "idle" /\ Else(a) /\ vlog' = vlog /\ reader' = reader
    BY <1>6, <1>a DEF ReportRefused
  <2> QED
    BY <1>b, <2>1
<1>7. ASSUME NEW a \in Attesters, ReadHead(a) PROVE Finding'
  <2>1. /\ att[a].step = "lock" /\ att'[a].step = "append" /\ Else(a)
        /\ vlog' = vlog /\ reader' = reader
        /\ att'[a].line.items = att[a].items /\ att'[a].line.evaluable = att[a].evaluable
    BY <1>7, <1>a DEF ReadHead
  <2> QED
    BY <1>b, <2>1
<1>8. ASSUME NEW a \in Attesters, AppendReport(a) PROVE Finding'
  <2>1. /\ att[a].step = "append" /\ att'[a].step = "compact" /\ Else(a)
        /\ vlog' = Append(vlog, att[a].line) /\ reader' = reader
    BY <1>8, <1>a DEF AppendReport, Appended
  <2>2. vlog \in Seq(Lines) /\ att[a].line \in Lines
    BY <2>1, AttFacts, LineFacts DEF VTypeOK
  <2>3. \A i \in DOMAIN vlog' : vlog'[i] = att[a].line \/ (i \in DOMAIN vlog /\ vlog'[i] = vlog[i])
    BY <2>1, <2>2, AppendProperties
  <2> QED
    BY <1>b, <2>1, <2>3
<1>9. ASSUME NEW a \in Attesters, AppendFails(a) PROVE Finding'
  <2>1. /\ att'[a].step = "idle" /\ Else(a)
        /\ vlog' = Append(vlog, Torn) /\ reader' = reader
    BY <1>9, <1>a DEF AppendFails, TornAppend
  <2>2. \A i \in DOMAIN vlog' : vlog'[i] = Torn \/ (i \in DOMAIN vlog /\ vlog'[i] = vlog[i])
    BY <2>1, AppendProperties, LineFacts DEF VTypeOK
  <2> QED
    BY <1>b, <2>1, <2>2
<1>10. ASSUME NEW a \in Attesters, CompactReports(a) PROVE Finding'
  <2>1. att'[a].step = "idle" /\ Else(a) /\ reader' = reader
    BY <1>10, <1>a DEF CompactReports
  <2>2. \A i \in DOMAIN vlog' : \E j \in DOMAIN vlog : vlog'[i] = vlog[j]
    BY <1>10, LinesKept DEF CompactReports, VTypeOK, Chaining
  <2> QED
    BY <1>b, <2>1, <2>2
<1>12. CASE ViewRead
  <2>1. att' = att /\ vlog' = vlog /\ reader'.log = vlog
    BY <1>12 DEF ViewRead
  <2> QED
    BY <1>b, <2>1
<1>13. CASE ViewDerive
  <2>1. att' = att /\ vlog' = vlog /\ reader' = NoView
    BY <1>13 DEF ViewDerive
  <2> QED
    BY <1>b, <2>1
<1> QED
  BY <1>1, <1>3, <1>4, <1>5, <1>6, <1>7, <1>8, <1>9, <1>10, <1>12, <1>13
     DEF VNext, Generate, Link, Outside

LEMMA RememberingStep ==
  ASSUME VTypeOK, Chaining, Ticking, Finding, Remembering, VNext
  PROVE  Remembering'
<1>a. covered \subseteq Pubs /\ vlog \in Seq(Lines)
  BY DEF VTypeOK
<1>b. \A q \in Made : q \in Made' /\ pub'[q].at = pub[q].at
  BY PubsKept
<1>c. \A i \in DOMAIN vlog : vlog[i] # Torn => \A p \in DOMAIN vlog[i].items : p \in Made
  BY DEF Finding, Truthful
<1> USE DEF Remembering, Remembers, InTime, InOrder
<1>1. CASE UNCHANGED <<vlog, reader, covered, late, overtaken>>
  BY <1>1, <1>b, <1>c
<1>8. ASSUME NEW a \in Attesters, AppendReport(a) PROVE Remembering'
  <2> DEFINE line == att[a].line
  <2>1. /\ att[a].step = "append" /\ vlog' = Append(vlog, line) /\ reader' = reader /\ pub' = pub
        /\ covered' = covered \union DOMAIN line.items
        /\ late' = late \union {p \in DOMAIN line.items : pub[p].at > line.at}
    BY <1>8 DEF AppendReport, Appended
  <2>2. line \in Reports /\ line \in Lines /\ line # Torn /\ DOMAIN line.items \subseteq Pubs
    BY <2>1, AttFacts, LineFacts DEF VTypeOK
  <2>3. /\ \A i \in DOMAIN vlog : vlog[i] \in Reports
        /\ Classified(vlog)
    BY <2>1, ReadableLines DEF Chaining, Running, VTypeOK
  <2>4. /\ Len(vlog) \in Nat /\ DOMAIN vlog = 1 .. Len(vlog) /\ DOMAIN vlog' = 1 .. Len(vlog) + 1
        /\ vlog'[Len(vlog) + 1] = line /\ \A i \in 1 .. Len(vlog) : vlog'[i] = vlog[i]
        /\ (vlog = <<>> <=> Len(vlog) = 0)
    BY <1>a, <2>1, <2>2, AppendProperties, EmptySeq
  <2>5. \A p \in DOMAIN line.items : p \in Made /\ pub[p].at # line.at /\ pub[p].at \in Nat /\ line.at \in Nat
    BY <2>1, <2>2, PubFacts, LineFacts
       DEF Finding, Truthful, Running, Ticking, Apart, Time, VTypeOK, Instants
  <2>6. overtaken' = (overtaken \/ \E i \in DOMAIN vlog : vlog[i] # Torn /\ vlog[i].at > line.at)
    BY <1>8 DEF AppendReport
  <2>7. \A i \in DOMAIN vlog : vlog[i].at \in Nat /\ vlog[i] # Torn
    BY <2>3, LineFacts DEF Instants
  <2> HIDE DEF line
  <2>8. \A i \in DOMAIN vlog' : vlog'[i] # Torn =>
          \A p \in DOMAIN vlog'[i].items : p \in late' \/ pub[p].at < vlog'[i].at
    <3> TAKE i \in DOMAIN vlog'
    <3>1. CASE i \in 1 .. Len(vlog)
      BY <2>1, <2>4, <3>1
    <3>2. CASE i = Len(vlog) + 1
      BY <2>1, <2>4, <2>5, <3>2
    <3> QED
      BY <2>4, <3>1, <3>2
  <2>9. ~ overtaken' => ~ overtaken /\ \A i \in DOMAIN vlog : ~ (vlog[i].at > line.at)
    BY <2>6, <2>7, Zenon
  <2>10. ~ overtaken' => \A i, j \in DOMAIN vlog' : i < j => vlog'[i].at <= vlog'[j].at
    <3> SUFFICES ASSUME ~ overtaken', NEW i \in 1 .. Len(vlog) + 1, NEW j \in 1 .. Len(vlog) + 1, i < j
                 PROVE  vlog'[i].at <= vlog'[j].at
      BY <2>4
    <3>1. line.at \in Nat
      BY <2>2, LineFacts DEF Instants
    <3>2. i \in 1 .. Len(vlog) /\ vlog'[i] = vlog[i]
      BY <2>4
    <3>3. CASE j = Len(vlog) + 1
      <4>1. vlog'[j] = line
        BY <2>4, <3>3
      <4>2. ~ (vlog[i].at > line.at) /\ vlog[i].at \in Nat
        BY <2>4, <2>7, <2>9, <3>2
      <4> QED
        BY <3>1, <3>2, <4>1, <4>2
    <3>4. CASE j # Len(vlog) + 1
      <4>1. InOrder(vlog)
        BY <2>3, <2>9
      <4>2. j \in 1 .. Len(vlog) /\ vlog'[j] = vlog[j]
        BY <2>4, <3>4
      <4> QED
        BY <2>4, <3>2, <4>1, <4>2
    <3> QED
      BY <3>3, <3>4
  <2>11. ~ overtaken' => \A p \in covered' \ late' :
           \/ Covers(vlog', p)
           \/ vlog' # <<>> /\ vlog'[1].group > 1 /\ pub[p].at < vlog'[1].at
    <3> SUFFICES ASSUME ~ overtaken', NEW p \in covered' \ late'
                 PROVE  \/ Covers(vlog', p)
                        \/ vlog' # <<>> /\ vlog'[1].group > 1 /\ pub[p].at < vlog'[1].at
      OBVIOUS
    <3>1. Remembers(vlog, covered)
      BY <2>3, <2>9
    <3>2. CASE p \in DOMAIN line.items
      BY <2>4, <3>2 DEF Covers
    <3>3. CASE Covers(vlog, p)
      BY <2>4, <3>3 DEF Covers
    <3>4. CASE vlog # <<>> /\ vlog[1].group > 1 /\ pub[p].at < vlog[1].at
      BY <2>4, <3>4
    <3> QED
      BY <2>1, <3>1, <3>2, <3>3, <3>4
  <2>12. Made' = Made
    BY <2>1 DEF Made
  <2>13. /\ covered' \subseteq Made'
         /\ reader' # NoView => reader'.covered \subseteq Made'
    BY <2>1, <2>5, <2>12
  <2>14. reader' # NoView /\ ~ overtaken' /\ Classified(reader'.log) =>
           \A p \in reader'.covered \ late' :
             \/ Covers(reader'.log, p)
             \/ reader'.log # <<>> /\ reader'.log[1].group > 1 /\ pub[p].at < reader'.log[1].at
    BY <2>1, <2>9
  <2> QED
    BY <2>1, <2>8, <2>10, <2>11, <2>13, <2>14
<1>9. ASSUME NEW a \in Attesters, AppendFails(a) PROVE Remembering'
  <2>1. vlog' = Append(vlog, Torn) /\ UNCHANGED <<reader, covered, late, overtaken, pub>>
    BY <1>9 DEF AppendFails, TornAppend
  <2>2. /\ \A i \in DOMAIN vlog' : vlog'[i] = Torn \/ (i \in DOMAIN vlog /\ vlog'[i] = vlog[i])
        /\ Len(vlog') \in DOMAIN vlog' /\ vlog'[Len(vlog')] = Torn
    BY <1>a, <2>1, AppendProperties, LineFacts
  <2>3. ~ Classified(vlog')
    BY <2>2 DEF Classified
  <2>4. Made' = Made
    BY <2>1 DEF Made
  <2> QED
    BY <2>1, <2>2, <2>3, <2>4
<1>10. ASSUME NEW a \in Attesters, CompactReports(a) PROVE Remembering'
  <2>1. UNCHANGED <<reader, covered, late, overtaken, pub>>
    BY <1>10 DEF CompactReports
  <2>2. CASE vlog' = vlog
    BY <1>1, <2>1, <2>2
  <2>3. CASE vlog' # vlog
    <3>1. /\ Classified(vlog) /\ Numbered(vlog) /\ Verifiable(vlog)
          /\ vlog' = WithoutGroups(vlog, DroppedGroups(vlog, VerifyCapacity))
      BY <1>10, <2>3 DEF CompactReports, Chaining
    <3>2. PICK k \in Nat : /\ k <= Len(vlog) /\ (vlog # <<>> => k < Len(vlog))
                          /\ vlog' = [n \in 1 .. Len(vlog) - k |-> vlog[k + n]]
      BY <1>a, <3>1, ChainShrinks
    <3>3. Len(vlog) \in Nat /\ DOMAIN vlog = 1 .. Len(vlog) /\ (vlog = <<>> <=> Len(vlog) = 0)
      BY <1>a, EmptySeq
    <3>4. \A i \in DOMAIN vlog : vlog[i].at \in Nat /\ vlog[i] # Torn /\ vlog[i].group \in Nat
      BY <1>a, <3>1, <3>3, ReadableLines, LineFacts DEF Instants
    <3>5. /\ DOMAIN vlog' = 1 .. Len(vlog) - k
          /\ \A i \in 1 .. Len(vlog) - k : vlog'[i] = vlog[k + i] /\ k + i \in 1 .. Len(vlog)
      BY <3>2, <3>3
    <3>6. InOrder(vlog) => InOrder(vlog')
      <4> SUFFICES ASSUME InOrder(vlog), NEW i \in 1 .. Len(vlog) - k, NEW j \in 1 .. Len(vlog) - k, i < j
                   PROVE  vlog'[i].at <= vlog'[j].at
        BY <3>5
      <4>1. k + i < k + j
        BY <3>3
      <4> QED
        BY <3>3, <3>5, <4>1
    <3>7. ASSUME ~ overtaken PROVE Remembers(vlog', covered)
      <4>1. InOrder(vlog) /\ Remembers(vlog, covered)
        BY <3>1, <3>7
      <4> SUFFICES ASSUME NEW p \in covered \ late, ~ Covers(vlog', p)
                   PROVE  vlog' # <<>> /\ vlog'[1].group > 1 /\ pub[p].at < vlog'[1].at
        OBVIOUS
      <4>2. vlog # <<>>
        BY <4>1, <3>3 DEF Covers
      <4>3. k < Len(vlog) /\ vlog' # <<>> /\ vlog'[1] = vlog[k + 1] /\ k + 1 \in 1 .. Len(vlog)
        BY <3>2, <3>3, <3>5, <4>2
      <4>4. pub[p].at \in Nat
        BY <1>a, PubFacts DEF VTypeOK
      <4>5. CASE Covers(vlog, p)
        <5>1. PICK i \in DOMAIN vlog : p \in DOMAIN vlog[i].items
          BY <4>5 DEF Covers
        <5>2. i <= k
          <6>1. ASSUME i > k PROVE FALSE
            <7>1. i - k \in 1 .. Len(vlog) - k /\ k + (i - k) = i
              BY <3>3, <6>1
            <7> QED
              BY <3>5, <5>1, <7>1 DEF Covers
          <6> QED
            BY <6>1, <3>3
        <5>3. pub[p].at < vlog[i].at /\ vlog[i].at <= vlog[k + 1].at
          BY <3>3, <3>4, <4>1, <4>3, <5>1, <5>2
        <5>4. vlog[k + 1].group = vlog[1].group + k /\ vlog[1].group > 0 /\ k > 0
          <6>1. vlog[1] \in Reports /\ vlog[k + 1].group = vlog[1].group + (k + 1) - 1
            <7>1. 1 \in 1 .. Len(vlog)
              BY <3>3, <4>3
            <7>2. vlog[1] \in Reports
              BY <1>a, <3>1, <7>1, ReadableLines
            <7> QED
              BY <3>1, <3>3, <4>3, <7>2 DEF Numbered
          <6>2. vlog[1].group \in Nat \ {0}
            BY <6>1, LineFacts
          <6> QED
            BY <3>3, <5>1, <5>2, <6>1, <6>2
        <5>5. vlog[i].at \in Nat /\ vlog[k + 1].at \in Nat /\ vlog[1].group \in Nat
          BY <3>3, <3>4, <4>3, <5>1
        <5> QED
          BY <4>3, <4>4, <5>3, <5>4, <5>5
      <4>6. CASE vlog[1].group > 1 /\ pub[p].at < vlog[1].at
        <5>1. vlog[k + 1].group = vlog[1].group + (k + 1) - 1
          BY <3>1, <3>3, <4>3 DEF Numbered
        <5>2. vlog[1].at <= vlog[k + 1].at
          BY <3>3, <3>4, <4>1, <4>3
        <5>3. vlog[1].at \in Nat /\ vlog[k + 1].at \in Nat /\ vlog[1].group \in Nat
          BY <3>3, <3>4, <4>3
        <5> QED
          BY <4>3, <4>4, <4>6, <5>1, <5>2, <5>3
      <4> QED
        BY <4>1, <4>5, <4>6
    <3>8. \A i \in DOMAIN vlog' : vlog'[i] # Torn => InTime(vlog'[i])
      BY <3>3, <3>4, <3>5
    <3>9. Made' = Made
      BY <2>1 DEF Made
    <3> QED
      BY <2>1, <3>1, <3>6, <3>7, <3>8, <3>9
  <2> QED
    BY <2>2, <2>3
<1>12. CASE ViewRead
  <2>1. UNCHANGED <<vlog, covered, late, overtaken, pub>> /\ reader'.log = vlog /\ reader'.covered = covered
    BY <1>12 DEF ViewRead
  <2>2. Made' = Made
    BY <2>1 DEF Made
  <2> QED
    BY <2>1, <2>2
<1>13. CASE ViewDerive
  <2>1. UNCHANGED <<vlog, covered, late, overtaken, pub>> /\ reader' = NoView
    BY <1>13 DEF ViewDerive
  <2>2. Made' = Made
    BY <2>1 DEF Made
  <2> QED
    BY <2>1, <2>2
<1> QED
  BY <1>1, <1>8, <1>9, <1>10, <1>12, <1>13
     DEF VNext, Generate, Link, Outside, Attest, VerifySnapshots, BuildReport, ReportRefused, ReadHead

-----------------------------------------------------------------------------
(* What a view reports.                                                    *)

\* Two reports on a publication nobody altered differ at most in their scope.
LEMMA SoundAgrees ==
  ASSUME NEW e \in Scopes, NEW f \in Scopes, NEW r, NEW s, NEW p,
         r.evaluable = e, s.evaluable = f, r.items[p] = Sound(e), s.items[p] = Sound(f)
  PROVE  ~ Changed(r, s, p)
<1>1. \A g \in Scopes : /\ Sound(g)["status"] = "ok"
                        /\ g = Dimensions => Sound(g)["lifecycle"] = "bounded"
                        /\ g # Dimensions => Sound(g)["lifecycle"] = ""
  BY DEF Sound, Item, Scopes, Dimensions
<1>2. /\ e \in {Dimensions, {"status"}} /\ f \in {Dimensions, {"status"}}
      /\ Dimensions = {"status", "lifecycle"}
  BY DEF Scopes, Dimensions
<1>3. Available(r, p) = e /\ Available(s, p) = f
  BY <1>1, <1>2 DEF Available
<1>4. \A d \in e \intersect f : Sound(e)[d] = Sound(f)[d]
  <2>1. CASE e = f
    BY <2>1
  <2>2. CASE e # f
    <3>1. \A d \in e \intersect f : d = "status"
      BY <1>2, <2>2
    <3> QED
      BY <1>1, <3>1
  <2> QED
    BY <2>1, <2>2
<1> QED
  BY <1>3, <1>4 DEF Changed

LEMMA BlameStep ==
  ASSUME VTypeOK, Finding, Remembering, BlameJustified, VNext
  PROVE  BlameJustified'
<1> USE DEF BlameJustified, GapJustified, DivergenceJustified
<1>1. CASE ViewDerive
  <2> DEFINE sound == IF Classified(reader.log) THEN Verifiable(reader.log) ELSE FALSE
             log == reader.log
  <2>1. overtaken' = overtaken
    BY <1>1 DEF ViewDerive
  <2>2. CASE ~ sound
    <3>1. blamed' = blamed
      BY <1>1, <2>2 DEF ViewDerive
    <3> QED
      BY <2>1, <3>1
  <2>3. CASE sound
    <3>1. /\ reader # NoView /\ Classified(log)
          /\ blamed' = blamed
               \union {"gap" : p \in (Gaps(log) \intersect reader.covered) \ late}
               \union {"divergent" : p \in {q \in Divergent(log) : ~ pub[q].altered}}
      BY <1>1, <2>3 DEF ViewDerive
    <3>2. /\ log \in Seq(Lines)
          /\ \A i \in DOMAIN log : log[i] \in Reports /\ log[i].at \in Nat /\ log[i].evaluable \in Scopes
      <4>1. log \in Seq(Lines) /\ DOMAIN log = 1 .. Len(log)
        BY <3>1 DEF VTypeOK
      <4> HIDE DEF log
      <4> QED
        BY <3>1, <4>1, ReadableLines, LineFacts DEF Instants
    <3>3. ASSUME NEW p \in (Gaps(log) \intersect reader.covered) \ late PROVE overtaken
      <4> SUFFICES ASSUME ~ overtaken PROVE FALSE
        BY DEF VTypeOK
      <4>1. log # <<>> /\ p \in Pubs /\ ~ Covers(log, p) /\ Assertable(log, p)
        BY DEF Gaps, Listed
      <4>2. log[1].group > 1 /\ pub[p].at < log[1].at
        BY <3>1, <4>1 DEF Remembering, Remembers
      <4>3. log[1].at \in Nat /\ log[1].group \in Nat
        <5>1. 1 \in DOMAIN log
          BY <3>2, <4>1, EmptySeq
        <5> QED
          BY <3>2, <5>1, LineFacts
      <4>4. pub[p].at \in Nat
        BY <4>1, PubFacts DEF VTypeOK
      <4> QED
        BY <4>1, <4>2, <4>3, <4>4 DEF Assertable, FullHistory
    <3>4. ASSUME NEW q \in Divergent(log) PROVE pub[q].altered
      <4> SUFFICES ASSUME ~ pub[q].altered PROVE FALSE
        OBVIOUS
      <4>1. PICK i \in DOMAIN log, j \in DOMAIN log :
              /\ q \in DOMAIN log[i].items /\ q \in DOMAIN log[j].items
              /\ Changed(log[i], log[j], q)
        BY DEF Divergent
      <4>2. \A k \in DOMAIN log : log[k] # Torn
        BY <3>2, LineFacts
      <4>3. /\ log[i].items[q] = Sound(log[i].evaluable)
            /\ log[j].items[q] = Sound(log[j].evaluable)
        BY <3>1, <4>1, <4>2 DEF Finding, Truthful
      <4> QED
        BY <3>2, <4>1, <4>3, SoundAgrees
    <3> HIDE DEF log
    <3>5. "gap" \in blamed' => overtaken
      BY <3>1, <3>3
    <3>6. "divergent" \notin blamed'
      BY <3>1, <3>4
    <3> QED
      BY <2>1, <3>5, <3>6
  <2> QED
    BY <2>2, <2>3
<1>2. CASE ~ ViewDerive
  <2>1. blamed' = blamed /\ (overtaken => overtaken')
    BY <1>2 DEF VNext, Generate, Link, Outside, Attest, VerifySnapshots, BuildReport, ReportRefused,
                ReadHead, AppendReport, AppendFails, CompactReports, ViewRead
  <2> QED
    BY <2>1
<1> QED
  BY <1>1, <1>2

VInv == VTypeOK /\ Chaining /\ Ticking /\ Finding /\ Remembering /\ BlameJustified

LEMMA VerificationInit == VInit => VInv
<1> SUFFICES ASSUME VInit PROVE VInv
  OBVIOUS
<1>1. /\ vlog = <<>> /\ DOMAIN vlog = {} /\ reader = NoView /\ clock = 1 /\ ruler = "bounded"
      /\ covered = {} /\ late = {} /\ overtaken = FALSE /\ blamed = {}
      /\ \A a \in Attesters : att[a] = NoAtt /\ att[a].step = "idle"
      /\ \A p \in Pubs : pub[p].at = 0
  BY DEF VInit, NoAtt
<1>2. VTypeOK
  <2>1. pub \in [Pubs -> Publications]
    BY PubFacts DEF VInit
  <2>2. att \in [Attesters -> Attestations]
    BY AttFacts DEF VInit
  <2> QED
    <3>1. clock \in Instants
      BY <1>1 DEF Instants
    <3>2. vlog \in Seq(Lines)
      BY <1>1
    <3> QED
      BY <1>1, <2>1, <2>2, <3>1, <3>2, Zenon DEF VTypeOK
<1>3. Chaining
  BY <1>1 DEF Chaining, Verifiable, Numbered, Running
<1>4. Ticking
  BY <1>1 DEF Ticking
<1>5. Finding
  BY <1>1 DEF Finding, Running
<1>6. Remembering
  BY <1>1 DEF Remembering, InOrder, Remembers
<1>7. BlameJustified
  BY <1>1 DEF BlameJustified, GapJustified, DivergenceJustified
<1> QED
  BY <1>2, <1>3, <1>4, <1>5, <1>6, <1>7 DEF VInv

LEMMA VerificationStep == VInv /\ [VNext]_vvars => VInv'
<1> SUFFICES ASSUME VInv, [VNext]_vvars PROVE VInv'
  OBVIOUS
<1>1. CASE VNext
  BY <1>1, VTypeStep, ChainingStep, TickingStep, FindingStep, RememberingStep, BlameStep DEF VInv
<1>2. CASE UNCHANGED vvars
  BY <1>2 DEF vvars, VInv, VTypeOK, Chaining, Running, Ticking, Time, Apart, Finding, Truthful, Made,
              Remembering, Remembers, InTime, BlameJustified, GapJustified, DivergenceJustified,
              Assertable, Listed
<1> QED
  BY <1>1, <1>2

\* Every report written bears a number, a time, a scope and findings of their
\* types, whichever step of AttestVerification its attester stands at.
THEOREM VerificationTypeCorrect == VSpec => []VTypeOK
<1>1. VInv => VTypeOK
  BY DEF VInv
<1> QED
  BY <1>1, VerificationInit, VerificationStep, PTL DEF VSpec

\* For any number of attesters and any capacity, reports appended under
\* verificationWriteMu and compacted from the front are one verifiable chain
\* (appendVerificationReport, planLogPrefixDrop, loadVerificationState).
THEOREM VerificationChained == VSpec => []ReportsChained
<1>1. VInv => ReportsChained
  BY DEF VInv, Chaining, ReportsChained
<1> QED
  BY <1>1, VerificationInit, VerificationStep, PTL DEF VSpec

\* For any publications, attesters and capacity, a view names a publication
\* as never verified only when no report had covered it in time, and as
\* divergent only when it was altered (deriveVerificationGap,
\* deriveVerificationChanges).
THEOREM VerificationBlameJustified == VSpec => []BlameJustified
<1>1. VInv => BlameJustified
  BY DEF VInv
<1> QED
  BY <1>1, VerificationInit, VerificationStep, PTL DEF VSpec

-----------------------------------------------------------------------------
(* The transition store: what a scan finds, and what a write, a migration  *)
(* and an eviction make of a file.                                         *)

HistoryLines == [kind : {"meta", "rec", "junk"}, seq : Nat, to : BOOLEAN, at : Nat,
                 dropped : Nat, inc : BOOLEAN]

\* The fields of the lines.
LEMMA HistoryLineFacts ==
  /\ \A l \in HistoryLines : /\ l.kind \in {"meta", "rec", "junk"} /\ l.seq \in Nat /\ l.to \in BOOLEAN
                             /\ l.at \in Nat /\ l.dropped \in Nat /\ l.inc \in BOOLEAN
  /\ Junk \in HistoryLines /\ Junk.kind = "junk" /\ ~IsRec(Junk) /\ Junk.dropped = 0
BY DEF HistoryLines, Junk, IsRec

LEMMA MetaLineFacts ==
  ASSUME NEW d \in Nat, NEW s \in Nat, NEW i \in BOOLEAN
  PROVE  /\ MetaLine(d, s, i) \in HistoryLines /\ MetaLine(d, s, i).kind = "meta"
         /\ MetaLine(d, s, i).dropped = d /\ MetaLine(d, s, i).seq = s /\ MetaLine(d, s, i).inc = i
BY DEF HistoryLines, MetaLine

LEMMA RecLineFacts ==
  ASSUME NEW s \in Nat, NEW t \in BOOLEAN, NEW n \in Nat
  PROVE  /\ RecLine(s, t, n) \in HistoryLines /\ IsRec(RecLine(s, t, n)) /\ RecLine(s, t, n).kind = "rec"
         /\ RecLine(s, t, n).seq = s /\ RecLine(s, t, n).at = n /\ RecLine(s, t, n).to = t
BY DEF HistoryLines, RecLine, IsRec

\* The place of the last line a scan looks at.
Reach(f, t) == IF t /\ Len(f) > 1 /\ ~IsRec(f[Len(f)]) THEN Len(f) - 1 ELSE Len(f)

\* What a scan finds: the lines from the second to the last it reaches, all of
\* them records, or corruption.
LEMMA ScanFacts ==
  ASSUME NEW f \in Seq(HistoryLines), NEW t \in BOOLEAN, Slot(f) # "rec"
  PROVE  /\ Scan(f, t).corrupt \in BOOLEAN /\ Scan(f, t).inc \in BOOLEAN /\ Scan(f, t).legacy \in BOOLEAN
         /\ Scan(f, t).dropped \in Nat /\ Scan(f, t).lastSeq \in Nat
         /\ Scan(f, t).corrupt <=> \E i \in 2 .. Reach(f, t) : ~IsRec(f[i])
         /\ Scan(f, t).recs \in Seq(HistoryLines)
         /\ Len(Scan(f, t).recs) = IF f = <<>> \/ Scan(f, t).corrupt THEN 0 ELSE Reach(f, t) - 1
         /\ \A i \in 1 .. Len(Scan(f, t).recs) : Scan(f, t).recs[i] = f[i + 1]
         /\ Scan(f, t).inc = IF Slot(f) = "meta" THEN f[1].inc ELSE f # <<>>
         /\ Scan(f, t).dropped = IF Slot(f) = "meta" /\ ~Scan(f, t).corrupt THEN f[1].dropped ELSE 0
         /\ Scan(f, t).legacy <=> \E i \in 1 .. Len(Scan(f, t).recs) : Scan(f, t).recs[i].seq = 0
<1> DEFINE tx == TxLines(f)
           n == Len(tx)
           kept == IF t /\ n > 0 /\ ~IsRec(tx[n]) THEN SubSeq(tx, 1, n - 1) ELSE tx
           corrupt == \E i \in DOMAIN kept : ~IsRec(kept[i])
<1>1. Len(f) \in Nat /\ DOMAIN f = 1 .. Len(f) /\ (f = <<>> <=> Len(f) = 0)
  BY LenProperties, EmptySeq
<1>2. /\ tx \in Seq(HistoryLines) /\ n = (IF Len(f) = 0 THEN 0 ELSE Len(f) - 1)
      /\ \A i \in 1 .. n : tx[i] = f[i + 1]
  <2>1. tx = SubSeq(f, 2, Len(f))
    BY DEF TxLines
  <2>2. \A i \in 2 .. Len(f) : f[i] \in HistoryLines
    BY <1>1
  <2>3. /\ SubSeq(f, 2, Len(f)) \in Seq(HistoryLines)
        /\ Len(SubSeq(f, 2, Len(f))) = IF 2 <= Len(f) THEN Len(f) - 2 + 1 ELSE 0
        /\ \A i \in 1 .. Len(f) - 2 + 1 : SubSeq(f, 2, Len(f))[i] = f[2 + i - 1]
    BY <1>1, <2>2, SubSeqProperties
  <2> HIDE DEF tx
  <2> QED
    BY <1>1, <2>1, <2>3
<1>3. /\ kept \in Seq(HistoryLines) /\ Len(kept) = (IF Len(f) = 0 THEN 0 ELSE Reach(f, t) - 1)
      /\ \A i \in 1 .. Len(kept) : kept[i] = f[i + 1]
  <2>0. n = Len(tx)
    OBVIOUS
  <2> HIDE DEF tx, n
  <2>0a. Len(f) \in Nat /\ n = (IF Len(f) = 0 THEN 0 ELSE Len(f) - 1)
    BY <1>1, <1>2
  <2>1. n \in Nat /\ (n > 0 => n \in 1 .. n /\ n + 1 = Len(f) /\ Len(f) > 1) /\ (~(n > 0) => ~(Len(f) > 1))
    BY <2>0a
  <2>1a. n > 0 => tx[n] = f[Len(f)]
    BY <1>2, <2>1
  <2>2. CASE t /\ n > 0 /\ ~IsRec(tx[n])
    <3>1. \A i \in 1 .. n - 1 : tx[i] \in HistoryLines
      BY <1>2
    <3>2. /\ SubSeq(tx, 1, n - 1) \in Seq(HistoryLines)
          /\ Len(SubSeq(tx, 1, n - 1)) = IF 1 <= n - 1 THEN n - 1 - 1 + 1 ELSE 0
          /\ \A i \in 1 .. n - 1 - 1 + 1 : SubSeq(tx, 1, n - 1)[i] = tx[1 + i - 1]
      BY <2>1, <3>1, SubSeqProperties
    <3>3. Reach(f, t) = Len(f) - 1
      BY <2>1, <2>1a, <2>2 DEF Reach
    <3>4. kept = SubSeq(tx, 1, n - 1)
      BY <2>2
    <3>5. Len(kept) = n - 1 /\ \A i \in 1 .. n - 1 : kept[i] = f[i + 1]
      <4> HIDE DEF kept
      <4>1. n \in Nat /\ n > 0
        BY <2>1, <2>2
      <4>2. (IF 1 <= n - 1 THEN n - 1 - 1 + 1 ELSE 0) = n - 1
        BY <4>1
      <4>3. Len(kept) = n - 1
        BY <3>2, <3>4, <4>2
      <4>4. ASSUME NEW i \in 1 .. n - 1 PROVE kept[i] = f[i + 1]
        <5>1. i \in 1 .. n - 1 - 1 + 1 /\ 1 + i - 1 = i /\ i \in 1 .. n
          BY <4>1
        <5>2. kept[i] = tx[i]
          BY <3>2, <3>4, <5>1
        <5> QED
          BY <1>2, <5>1, <5>2
      <4> QED
        BY <4>3, <4>4
    <3>6. Len(kept) = (IF Len(f) = 0 THEN 0 ELSE Reach(f, t) - 1)
      <4> HIDE DEF kept
      <4>1. Len(f) # 0
        BY <2>1, <2>2
      <4>2. Len(kept) = n - 1
        BY <3>5
      <4>3. n + 1 = Len(f) /\ Len(f) \in Nat /\ n \in Nat
        BY <2>0a, <2>1, <2>2
      <4> QED
        BY <3>3, <4>1, <4>2, <4>3
    <3>7. kept \in Seq(HistoryLines)
      BY <3>2, <3>4
    <3> HIDE DEF kept
    <3> QED
      BY <3>5, <3>6, <3>7
  <2>3. CASE ~(t /\ n > 0 /\ ~IsRec(tx[n]))
    <3>1. Reach(f, t) = Len(f)
      BY <2>1, <2>1a, <2>3 DEF Reach
    <3>2. kept = tx
      BY <2>3
    <3> HIDE DEF kept
    <3>3. Len(kept) = (IF Len(f) = 0 THEN 0 ELSE Reach(f, t) - 1)
      BY <2>0, <2>0a, <3>1, <3>2
    <3> QED
      BY <1>2, <2>0, <3>2, <3>3
  <2> QED
    BY <2>2, <2>3
<1>4. Scan(f, t) = [corrupt |-> corrupt, lines |-> n, recs |-> IF corrupt THEN <<>> ELSE kept,
                    dropped |-> IF Slot(f) = "meta" /\ ~corrupt THEN f[1].dropped ELSE 0,
                    lastSeq |-> IF Slot(f) = "meta" THEN f[1].seq ELSE 0,
                    inc     |-> IF Slot(f) = "meta" THEN f[1].inc ELSE f # <<>>,
                    legacy  |-> ~corrupt /\ \E i \in DOMAIN kept : kept[i].seq = 0]
  BY ZenonT(40) DEF Scan
<1> HIDE DEF kept, tx, n
<1>5. /\ Scan(f, t).corrupt = corrupt /\ Scan(f, t).recs = (IF corrupt THEN <<>> ELSE kept)
      /\ Scan(f, t).dropped = (IF Slot(f) = "meta" /\ ~corrupt THEN f[1].dropped ELSE 0)
      /\ Scan(f, t).lastSeq = (IF Slot(f) = "meta" THEN f[1].seq ELSE 0)
      /\ Scan(f, t).inc = (IF Slot(f) = "meta" THEN f[1].inc ELSE f # <<>>)
      /\ Scan(f, t).legacy = (~corrupt /\ \E i \in DOMAIN kept : kept[i].seq = 0)
  <2> HIDE DEF corrupt
  <2> QED
    BY <1>4
<1>6. corrupt <=> \E i \in 2 .. Reach(f, t) : ~IsRec(f[i])
  <2>1. Reach(f, t) \in Nat /\ Reach(f, t) <= Len(f)
    BY <1>1 DEF Reach
  <2>2. DOMAIN kept = 1 .. Len(kept)
    BY <1>3
  <2>3. ASSUME NEW i \in 2 .. Reach(f, t), ~IsRec(f[i]) PROVE corrupt
    <3>1. i - 1 \in 1 .. Len(kept)
      BY <1>1, <1>3, <2>1
    <3> QED
      BY <1>3, <2>2, <2>3, <3>1
  <2>4. ASSUME NEW i \in DOMAIN kept, ~IsRec(kept[i]) PROVE \E j \in 2 .. Reach(f, t) : ~IsRec(f[j])
    <3>1. i + 1 \in 2 .. Reach(f, t)
      BY <1>1, <1>3, <2>1, <2>2
    <3> QED
      BY <1>3, <2>2, <2>4, <3>1
  <2> QED
    BY <2>3, <2>4
<1>7. /\ Scan(f, t).dropped \in Nat /\ Scan(f, t).lastSeq \in Nat /\ Scan(f, t).inc \in BOOLEAN
  <2>1. Slot(f) = "meta" => f # <<>>
    BY DEF Slot
  <2>2. Slot(f) = "meta" => f[1] \in HistoryLines
    BY <1>1, <2>1
  <2>3. Slot(f) = "meta" => f[1].dropped \in Nat /\ f[1].seq \in Nat /\ f[1].inc \in BOOLEAN
    BY <2>2, HistoryLineFacts
  <2>4. (f # <<>>) \in BOOLEAN
    OBVIOUS
  <2> HIDE DEF corrupt
  <2>5. CASE Slot(f) = "meta"
    BY <1>5, <2>3, <2>5
  <2>6. CASE Slot(f) # "meta"
    <3>1. Scan(f, t).dropped = 0 /\ Scan(f, t).lastSeq = 0 /\ Scan(f, t).inc = (f # <<>>)
      BY <1>5, <2>6
    <3> QED
      BY <2>4, <3>1
  <2> QED
    BY <2>5, <2>6
<1>8. Scan(f, t).recs \in Seq(HistoryLines)
  <2> HIDE DEF corrupt
  <2> QED
    BY <1>3, <1>5
<1>9. Len(Scan(f, t).recs) = IF f = <<>> \/ Scan(f, t).corrupt THEN 0 ELSE Reach(f, t) - 1
  <2> HIDE DEF corrupt
  <2> QED
    BY <1>1, <1>3, <1>5
<1>10. \A i \in 1 .. Len(Scan(f, t).recs) : Scan(f, t).recs[i] = f[i + 1]
  <2> HIDE DEF corrupt
  <2>1. CASE corrupt
    BY <1>5, <2>1
  <2>2. CASE ~corrupt
    BY <1>3, <1>5, <2>2
  <2> QED
    BY <2>1, <2>2
<1>11. Scan(f, t).legacy <=> \E i \in 1 .. Len(Scan(f, t).recs) : Scan(f, t).recs[i].seq = 0
  <2> HIDE DEF corrupt
  <2>0. DOMAIN kept = 1 .. Len(kept)
    BY <1>3
  <2>1. CASE corrupt
    <3>1. ~Scan(f, t).legacy /\ Scan(f, t).recs = <<>>
      BY <1>5, <2>1
    <3> QED
      BY <3>1
  <2>2. CASE ~corrupt
    <3>1. Scan(f, t).recs = kept
      BY <1>5, <2>2
    <3>2. Scan(f, t).legacy <=> \E i \in DOMAIN kept : kept[i].seq = 0
      BY <1>5, <2>2
    <3> QED
      BY <2>0, <3>1, <3>2
  <2> QED
    BY <2>1, <2>2
<1>12. Scan(f, t).corrupt \in BOOLEAN /\ Scan(f, t).legacy \in BOOLEAN
  BY <1>5
<1> QED
  BY <1>5, <1>6, <1>7, <1>8, <1>9, <1>10, <1>11, <1>12

IsWritten(w, f, t, l) ==
  /\ w \in Seq(HistoryLines)
  /\ t => Len(w) = Len(f) /\ w[Len(f)] = Junk /\ \A i \in 1 .. Len(f) - 1 : w[i] = f[i]
  /\ ~t => Len(w) = Len(f) + 1 /\ w[Len(f) + 1] = l /\ \A i \in 1 .. Len(f) : w[i] = f[i]
  /\ w # <<>> /\ IF t /\ Len(f) = 1 THEN Slot(w) = "junk" ELSE Slot(w) = Slot(f) /\ w[1] = f[1]

\* A write behind a line without terminator replaces it by a line of no use.
LEMMA WrittenFacts ==
  ASSUME NEW f \in Seq(HistoryLines), NEW t \in BOOLEAN, NEW l \in HistoryLines, f # <<>>,
         NEW w, w = Written(f, t, l)
  PROVE  IsWritten(w, f, t, l)
<1>1. Len(f) \in Nat /\ Len(f) > 0 /\ Len(f) \in 1 .. Len(f)
  BY LenProperties, EmptySeq
<1>2. ASSUME t
      PROVE  /\ w \in Seq(HistoryLines) /\ Len(w) = Len(f)
             /\ \A j \in 1 .. Len(f) : w[j] = IF j = Len(f) THEN Junk ELSE f[j]
  <2>1. w = [f EXCEPT ![Len(f)] = Junk]
    BY <1>2 DEF Written
  <2>2. Junk \in HistoryLines
    BY HistoryLineFacts
  <2> QED
    BY <1>1, <2>1, <2>2, ExceptSeq
<1>3. ASSUME ~t
      PROVE  /\ w \in Seq(HistoryLines) /\ Len(w) = Len(f) + 1 /\ w[Len(f) + 1] = l
             /\ \A i \in 1 .. Len(f) : w[i] = f[i]
  <2>1. w = Append(f, l)
    BY <1>3 DEF Written
  <2> QED
    BY <2>1, AppendProperties
<1>4. w \in Seq(HistoryLines) /\ w # <<>>
  BY <1>1, <1>2, <1>3, EmptySeq
<1>5. ASSUME t
      PROVE  Len(w) = Len(f) /\ w[Len(f)] = Junk /\ \A i \in 1 .. Len(f) - 1 : w[i] = f[i]
  <2>1. \A i \in 1 .. Len(f) - 1 : i \in 1 .. Len(f) /\ i # Len(f)
    BY <1>1
  <2> QED
    BY <1>1, <1>2, <1>5, <2>1
<1>6. IF t /\ Len(f) = 1 THEN w[1] = Junk ELSE w[1] = f[1]
  <2>1. CASE t /\ Len(f) = 1
    BY <1>5, <2>1
  <2>2. CASE t /\ Len(f) # 1
    <3>1. 1 \in 1 .. Len(f) /\ Len(f) # 1
      BY <1>1, <2>2
    <3> QED
      BY <1>2, <2>2, <3>1
  <2>3. CASE ~t
    BY <1>1, <1>3, <2>3
  <2> QED
    BY <2>1, <2>2, <2>3
<1>7. IF t /\ Len(f) = 1 THEN Slot(w) = "junk" ELSE Slot(w) = Slot(f) /\ w[1] = f[1]
  BY <1>4, <1>6, HistoryLineFacts DEF Slot
<1> QED
  BY <1>3, <1>4, <1>5, <1>7 DEF IsWritten

IsEvicted(e, f, d) ==
  /\ Len(EvictLines(f)) = IF Slot(f) = "meta" THEN Len(f) - 1 ELSE Len(f)
  /\ e \in Seq(HistoryLines) /\ Len(e) = FileCap + 1
  /\ \A j \in 1 .. FileCap : e[j + 1] = f[Len(f) - FileCap + j]
  /\ Slot(e) = "meta" /\ e[1].inc = (Slot(f) = "meta" /\ f[1].inc)
  /\ e[1].dropped = (IF Slot(f) = "meta" /\ f[1].inc THEN 0 ELSE d) + (Len(EvictLines(f)) - FileCap)
  /\ e[1].dropped > 0

\* An eviction keeps the newest lines behind new metadata.
LEMMA EvictedFacts ==
  ASSUME NEW f \in Seq(HistoryLines), f # <<>>, Slot(f) # "rec", NEW d \in Nat, NEW s \in Nat,
         Len(EvictLines(f)) > FileCap, NEW e, e = Evicted(f, d, s)
  PROVE  IsEvicted(e, f, d)
<1> DEFINE tx == EvictLines(f)
           n == Len(tx)
           a == IF Slot(f) = "meta" THEN 2 ELSE 1
           inc == Slot(f) = "meta" /\ f[1].inc
           m == MetaLine((IF inc THEN 0 ELSE d) + n - FileCap, s, inc)
           new == Newest(tx, FileCap)
<1>1. Len(f) \in Nat /\ Len(f) > 0 /\ (\A i \in 1 .. Len(f) : f[i] \in HistoryLines) /\ FileCap \in Nat /\ FileCap > 0
  BY LenProperties, EmptySeq, TransitionConstants
<1>2. a \in {1, 2} /\ a \in Int
  OBVIOUS
<1>3. /\ tx \in Seq(HistoryLines) /\ n = (IF a <= Len(f) THEN Len(f) - a + 1 ELSE 0)
      /\ \A i \in 1 .. Len(f) - a + 1 : tx[i] = f[a + i - 1]
  <2>1. tx = SubSeq(f, a, Len(f))
    BY DEF EvictLines
  <2> HIDE DEF a
  <2>2. \A i \in a .. Len(f) : f[i] \in HistoryLines
    BY <1>1, <1>2
  <2> QED
    BY <1>1, <1>2, <2>1, <2>2, SubSeqProperties
<1> HIDE DEF tx
<1>4. n = Len(f) - a + 1 /\ n \in Nat /\ n > FileCap /\ a \in {1, 2}
  <2>1. n > FileCap
    BY DEF tx
  <2>2. n = (IF a <= Len(f) THEN Len(f) - a + 1 ELSE 0)
    BY <1>3
  <2> HIDE DEF n, a
  <2> QED
    BY <1>1, <1>2, <2>1, <2>2
<1>5. /\ new \in Seq(HistoryLines) /\ Len(new) = FileCap
      /\ \A i \in 1 .. FileCap : new[i] = f[Len(f) - FileCap + i]
  <2>0. new = SubSeq(tx, n - FileCap + 1, n)
    <3>1. new = SubSeq(tx, IF n > FileCap THEN n - FileCap + 1 ELSE 1, n)
      BY DEF Newest
    <3> HIDE DEF new, n
    <3> QED
      BY <1>4, <3>1
  <2> HIDE DEF n, a, new
  <2>1. n - FileCap + 1 \in Int /\ n \in Int
    BY <1>1, <1>4
  <2>2. \A i \in n - FileCap + 1 .. n : i \in 1 .. n
    BY <1>1, <1>4
  <2>3. \A i \in 1 .. n : tx[i] \in HistoryLines
    BY <1>3 DEF n
  <2>3a. \A i \in n - FileCap + 1 .. n : tx[i] \in HistoryLines
    BY <2>2, <2>3
  <2>4. /\ new \in Seq(HistoryLines)
        /\ Len(new) = IF n - FileCap + 1 <= n THEN n - (n - FileCap + 1) + 1 ELSE 0
        /\ \A i \in 1 .. n - (n - FileCap + 1) + 1 : new[i] = tx[n - FileCap + 1 + i - 1]
    BY <2>0, <2>1, <2>3a, SubSeqProperties
  <2>5. Len(new) = FileCap
    BY <1>1, <1>4, <2>4
  <2>6. ASSUME NEW i \in 1 .. FileCap PROVE new[i] = f[Len(f) - FileCap + i]
    <3>1. i \in 1 .. n - (n - FileCap + 1) + 1
      BY <1>1, <1>4
    <3>2. new[i] = tx[n - FileCap + 1 + i - 1]
      BY <2>4, <3>1
    <3>3. n - FileCap + 1 + i - 1 \in 1 .. Len(f) - a + 1
      BY <1>1, <1>4
    <3>4. tx[n - FileCap + 1 + i - 1] = f[a + (n - FileCap + 1 + i - 1) - 1]
      BY <1>3, <3>3
    <3>5. a + (n - FileCap + 1 + i - 1) - 1 = Len(f) - FileCap + i
      BY <1>1, <1>4
    <3> QED
      BY <3>2, <3>4, <3>5
  <2> QED
    BY <2>4, <2>5, <2>6
<1>6. inc \in BOOLEAN
  OBVIOUS
<1>7. (IF inc THEN 0 ELSE d) + n - FileCap \in Nat /\ (IF inc THEN 0 ELSE d) + n - FileCap > 0
  <2> HIDE DEF n, inc, a
  <2> QED
    BY <1>1, <1>4
<1>8. /\ m \in HistoryLines /\ m.kind = "meta" /\ m.inc = inc
      /\ m.dropped = (IF inc THEN 0 ELSE d) + n - FileCap
  <2> HIDE DEF n, inc
  <2> DEFINE x == (IF inc THEN 0 ELSE d) + n - FileCap
  <2>1. x \in Nat /\ m = MetaLine(x, s, inc)
    BY <1>7
  <2> HIDE DEF x, m
  <2>2. MetaLine(x, s, inc).dropped = x
    BY <1>6, <2>1, MetaLineFacts
  <2>3. m \in HistoryLines /\ m.kind = "meta" /\ m.inc = inc
    BY <1>6, <2>1, MetaLineFacts
  <2> QED
    BY <2>1, <2>2, <2>3 DEF x
<1>9. e = <<m>> \o new
  BY DEF Evicted, tx
<1> HIDE DEF m, new
<1>10. <<m>> \in Seq(HistoryLines) /\ Len(<<m>>) = 1 /\ <<m>>[1] = m
  BY <1>8
<1>11. /\ e \in Seq(HistoryLines) /\ Len(e) = 1 + FileCap
       /\ \A i \in 1 .. 1 + FileCap : e[i] = IF i <= 1 THEN <<m>>[i] ELSE new[i - 1]
  BY <1>5, <1>9, <1>10, ConcatProperties
<1>12. e[1] = m
  BY <1>1, <1>10, <1>11
<1>13. \A j \in 1 .. FileCap : e[j + 1] = f[Len(f) - FileCap + j]
  <2> TAKE j \in 1 .. FileCap
  <2>1. j + 1 \in 1 .. 1 + FileCap /\ ~(j + 1 <= 1) /\ j + 1 - 1 = j
    BY <1>1
  <2>2. e[j + 1] = new[j]
    BY <1>11, <2>1
  <2> QED
    BY <1>5, <2>2
<1>14. e # <<>>
  BY <1>1, <1>11, EmptySeq
<1>15. Slot(e) = "meta"
  BY <1>8, <1>12, <1>14 DEF Slot
<1>17. e[1].dropped = (IF inc THEN 0 ELSE d) + n - FileCap /\ e[1].dropped > 0 /\ e[1].inc = inc
  BY <1>7, <1>8, <1>12
<1>18. /\ n = (IF Slot(f) = "meta" THEN Len(f) - 1 ELSE Len(f))
       /\ e[1].dropped = (IF inc THEN 0 ELSE d) + (n - FileCap)
       /\ Len(e) = FileCap + 1
  <2>1. n = (IF Slot(f) = "meta" THEN Len(f) - 1 ELSE Len(f))
    <3>1. n = Len(f) - a + 1
      BY <1>4
    <3> HIDE DEF n
    <3> QED
      BY <1>1, <3>1
  <2>2. n \in Nat
    BY <1>4
  <2> HIDE DEF n, inc
  <2> QED
    BY <1>1, <1>11, <1>17, <2>1, <2>2
<1> QED
  BY <1>11, <1>13, <1>15, <1>17, <1>18 DEF tx, IsEvicted

IsMigrated(m, recs, inc, d) ==
  /\ m \in Seq(HistoryLines) /\ Len(m) = Len(recs) + 1
  /\ Slot(m) = "meta" /\ m[1].inc = inc /\ m[1].dropped = IF inc THEN 0 ELSE d
  /\ \A i \in 1 .. Len(recs) :
       /\ m[i + 1].kind = recs[i].kind /\ m[i + 1].at = recs[i].at
       /\ m[i + 1].to = recs[i].to /\ m[i + 1].seq = i

\* A migration numbers the records and changes nothing else of them.
LEMMA MigratedFacts ==
  ASSUME NEW recs \in Seq(HistoryLines), NEW s, s.recs = recs, s.dropped \in Nat, s.inc \in BOOLEAN,
         NEW m, m = Migrated(s)
  PROVE  IsMigrated(m, recs, s.inc, s.dropped)
<1> DEFINE d == IF s.inc THEN 0 ELSE s.dropped
           h == MetaLine(d, Len(recs), s.inc)
           r == [i \in DOMAIN recs |-> [recs[i] EXCEPT !.seq = i]]
<1>1. Len(recs) \in Nat /\ DOMAIN recs = 1 .. Len(recs) /\ \A i \in 1 .. Len(recs) : recs[i] \in HistoryLines
  BY LenProperties
<1>2. \A l \in HistoryLines, i \in Nat :
        LET x == [l EXCEPT !.seq = i]
        IN  x \in HistoryLines /\ x.kind = l.kind /\ x.at = l.at /\ x.to = l.to /\ x.seq = i
  BY DEF HistoryLines
<1>3. h \in HistoryLines /\ h.kind = "meta" /\ h.inc = s.inc /\ h.dropped = d
  <2>1. d \in Nat
    OBVIOUS
  <2> HIDE DEF d
  <2>2. Len(recs) \in Nat /\ s.inc \in BOOLEAN
    BY <1>1
  <2> QED
    BY <2>1, <2>2, MetaLineFacts
<1>4. \A i \in 1 .. Len(recs) : /\ r[i] \in HistoryLines /\ r[i].kind = recs[i].kind
                               /\ r[i].at = recs[i].at /\ r[i].to = recs[i].to /\ r[i].seq = i
  <2> TAKE i \in 1 .. Len(recs)
  <2>1. i \in Nat /\ recs[i] \in HistoryLines /\ r[i] = [recs[i] EXCEPT !.seq = i]
    BY <1>1
  <2> QED
    BY <1>2, <2>1
<1>5. r \in Seq(HistoryLines) /\ Len(r) = Len(recs)
  <2>1. r \in [1 .. Len(recs) -> HistoryLines]
    BY <1>1, <1>4
  <2> HIDE DEF r
  <2> QED
    BY <1>1, <2>1
<1>6. m = <<h>> \o r
  BY DEF Migrated
<1> HIDE DEF h, r
<1>7. <<h>> \in Seq(HistoryLines) /\ Len(<<h>>) = 1 /\ <<h>>[1] = h
  BY <1>3
<1>8. /\ m \in Seq(HistoryLines) /\ Len(m) = 1 + Len(recs)
      /\ \A i \in 1 .. 1 + Len(recs) : m[i] = IF i <= 1 THEN <<h>>[i] ELSE r[i - 1]
  BY <1>5, <1>6, <1>7, ConcatProperties
<1>9. m[1] = h /\ m # <<>> /\ Len(m) = Len(recs) + 1
  BY <1>1, <1>7, <1>8, EmptySeq
<1>10. \A i \in 1 .. Len(recs) : m[i + 1] = r[i]
  <2> TAKE i \in 1 .. Len(recs)
  <2>1. i + 1 \in 1 .. 1 + Len(recs) /\ ~(i + 1 <= 1) /\ i + 1 - 1 = i
    BY <1>1
  <2> QED
    BY <1>8, <2>1
<1>11. Slot(m) = "meta"
  BY <1>3, <1>9 DEF Slot
<1> QED
  BY <1>3, <1>4, <1>8, <1>9, <1>10, <1>11, SMTT(40) DEF IsMigrated

\* The times a scan finds, by the places of the lines.
LEMMA TimesFacts ==
  ASSUME NEW f \in Seq(HistoryLines), NEW t \in BOOLEAN, Slot(f) # "rec", ~Scan(f, t).corrupt
  PROVE  /\ Reach(f, t) \in Nat /\ Reach(f, t) <= Len(f) /\ Len(f) - 1 <= Reach(f, t) /\ Len(f) \in Nat
         /\ Times(Scan(f, t).recs) = {f[p].at : p \in 2 .. Reach(f, t)}
         /\ \A p \in 2 .. Reach(f, t) : IsRec(f[p])
<1> DEFINE r == Scan(f, t).recs
           n == Reach(f, t)
<1>1. Len(f) \in Nat /\ (f = <<>> <=> Len(f) = 0)
  BY LenProperties, EmptySeq
<1>2. n \in Nat /\ n <= Len(f) /\ Len(f) - 1 <= n /\ (f = <<>> <=> n = 0)
  BY <1>1 DEF Reach
<1>3. /\ r \in Seq(HistoryLines) /\ Len(r) = (IF f = <<>> THEN 0 ELSE n - 1)
      /\ \A i \in 1 .. Len(r) : r[i] = f[i + 1]
  BY ScanFacts
<1>4. \A p \in 2 .. n : IsRec(f[p])
  BY ScanFacts
<1> HIDE DEF r, n
<1>5. DOMAIN r = 1 .. Len(r) /\ Len(r) \in Nat
  BY <1>3
<1>6. ASSUME NEW p \in 2 .. n PROVE p - 1 \in DOMAIN r /\ r[p - 1] = f[p]
  <2>1. Len(r) = n - 1 /\ p - 1 \in 1 .. n - 1 /\ p - 1 + 1 = p
    BY <1>2, <1>3
  <2> QED
    BY <1>3, <1>5, <2>1
<1>7. ASSUME NEW i \in DOMAIN r PROVE i + 1 \in 2 .. n /\ r[i] = f[i + 1]
  <2>1. i \in 1 .. Len(r) /\ Len(r) = n - 1
    BY <1>2, <1>3, <1>5
  <2> QED
    BY <1>2, <1>3, <2>1
<1>8. Times(r) = {f[p].at : p \in 2 .. n}
  BY <1>6, <1>7 DEF Times
<1> QED
  BY <1>1, <1>2, <1>4, <1>8 DEF r, n

\* What a write leaves: the synced records, the metadata line and its counts.
WriteKept(w, f, t, l, u, dur) ==
  /\ dur \cap Times(Scan(f, t).recs) \subseteq Times(Scan(w, u).recs)
  /\ t /\ Len(f) = 1 => Slot(w) = "junk" /\ Scan(w, u).inc /\ Scan(w, u).dropped = 0
  /\ ~(t /\ Len(f) = 1) => /\ Slot(w) = Slot(f) /\ Scan(w, u).inc = Scan(f, t).inc
                           /\ Scan(w, u).dropped = Scan(f, t).dropped
  /\ ~u /\ ~(t /\ Len(f) = 1) => ~t /\ l.at \in Times(Scan(w, u).recs)
  /\ w \in Seq(HistoryLines) /\ w # <<>> /\ Slot(w) # "rec"

\* A write leaves the synced records of a file that still is not corrupt.
LEMMA WriteKeeps ==
  ASSUME NEW f \in Seq(HistoryLines), NEW t \in BOOLEAN, NEW l \in HistoryLines, NEW u \in BOOLEAN, NEW dur,
         NEW w, w = Written(f, t, l),
         f # <<>>, Slot(f) # "rec", ~Scan(f, t).corrupt, ~Scan(w, u).corrupt,
         t /\ Len(f) > 1 /\ IsRec(f[Len(f)]) => f[Len(f)].at \notin dur
  PROVE  WriteKept(w, f, t, l, u, dur)
<1>1. IsWritten(w, f, t, l)
  BY WrittenFacts
<1>2. Len(f) \in Nat /\ Len(f) > 0 /\ w \in Seq(HistoryLines) /\ w # <<>>
  BY <1>1, LenProperties, EmptySeq DEF IsWritten
<1>3. ~Scan(w, u).corrupt
  OBVIOUS
<1>4. IF t /\ Len(f) = 1 THEN Slot(w) = "junk" ELSE Slot(w) = Slot(f) /\ w[1] = f[1]
  BY <1>1 DEF IsWritten
<1>5. /\ t => Len(w) = Len(f) /\ w[Len(f)] = Junk /\ \A i \in 1 .. Len(f) - 1 : w[i] = f[i]
      /\ ~t => Len(w) = Len(f) + 1 /\ w[Len(f) + 1] = l /\ \A i \in 1 .. Len(f) : w[i] = f[i]
  BY <1>1 DEF IsWritten
<1>6. Slot(w) # "rec"
  BY <1>4
<1>7. /\ Scan(w, u).inc = (IF Slot(w) = "meta" THEN w[1].inc ELSE w # <<>>)
      /\ Scan(w, u).dropped = (IF Slot(w) = "meta" THEN w[1].dropped ELSE 0)
  <2>1. w \in Seq(HistoryLines)
    BY <1>2
  <2> QED
    BY <1>3, <1>6, <2>1, ScanFacts, ZenonT(40)
<1>8. /\ Scan(f, t).inc = (IF Slot(f) = "meta" THEN f[1].inc ELSE f # <<>>)
      /\ Scan(f, t).dropped = (IF Slot(f) = "meta" THEN f[1].dropped ELSE 0)
  BY ScanFacts
<1>9. t /\ Len(f) = 1 => Slot(w) = "junk" /\ Scan(w, u).inc /\ Scan(w, u).dropped = 0
  <2> SUFFICES ASSUME t /\ Len(f) = 1 PROVE Slot(w) = "junk" /\ Scan(w, u).inc /\ Scan(w, u).dropped = 0
    OBVIOUS
  <2>1. Slot(w) = "junk"
    BY <1>4
  <2>2. Scan(w, u).inc = (w # <<>>) /\ Scan(w, u).dropped = 0
    BY <1>7, <2>1
  <2> QED
    BY <1>2, <2>1, <2>2
<1>10. ~(t /\ Len(f) = 1) => /\ Slot(w) = Slot(f) /\ Scan(w, u).inc = Scan(f, t).inc
                             /\ Scan(w, u).dropped = Scan(f, t).dropped
  <2> SUFFICES ASSUME ~(t /\ Len(f) = 1)
               PROVE  /\ Slot(w) = Slot(f) /\ Scan(w, u).inc = Scan(f, t).inc
                      /\ Scan(w, u).dropped = Scan(f, t).dropped
    OBVIOUS
  <2>1. Slot(w) = Slot(f) /\ w[1] = f[1]
    BY <1>4
  <2>2. CASE Slot(f) = "meta"
    BY <1>7, <1>8, <2>1, <2>2
  <2>3. CASE Slot(f) # "meta"
    <3>1. Scan(w, u).inc = (w # <<>>) /\ Scan(f, t).inc = (f # <<>>)
      BY <1>7, <1>8, <2>1, <2>3
    <3>2. Scan(w, u).dropped = Scan(f, t).dropped
      BY <1>7, <1>8, <2>1, <2>3
    <3> QED
      BY <1>2, <2>1, <3>1, <3>2
  <2> QED
    BY <2>2, <2>3
<1>11. /\ Reach(f, t) \in Nat /\ Reach(f, t) <= Len(f) /\ Len(f) - 1 <= Reach(f, t)
       /\ Times(Scan(f, t).recs) = {f[p].at : p \in 2 .. Reach(f, t)}
       /\ \A p \in 2 .. Reach(f, t) : IsRec(f[p])
  BY TimesFacts
<1>12. /\ Reach(w, u) \in Nat /\ Reach(w, u) <= Len(w) /\ Len(w) - 1 <= Reach(w, u)
       /\ Times(Scan(w, u).recs) = {w[p].at : p \in 2 .. Reach(w, u)}
       /\ \A p \in 2 .. Reach(w, u) : IsRec(w[p])
  BY <1>2, <1>3, <1>6, TimesFacts
<1>13. ASSUME NEW p \in 2 .. Reach(f, t), f[p].at \in dur PROVE f[p].at \in Times(Scan(w, u).recs)
  <2>1. p \in 2 .. Reach(w, u) /\ w[p] = f[p]
    <3>1. CASE t
      <4>1. p # Len(f)
        <5> SUFFICES ASSUME p = Len(f) PROVE FALSE
          OBVIOUS
        <5>1. IsRec(f[Len(f)]) /\ Len(f) > 1
          BY <1>2, <1>11
        <5> QED
          BY <1>13, <3>1, <5>1
      <4>2. p \in 1 .. Len(f) - 1
        BY <1>2, <1>11, <4>1
      <4>3. Len(w) = Len(f) /\ w[p] = f[p]
        BY <1>5, <3>1, <4>2
      <4> QED
        BY <1>2, <1>12, <4>2, <4>3
    <3>2. CASE ~t
      <4>1. p \in 1 .. Len(f)
        BY <1>2, <1>11
      <4>2. Len(w) = Len(f) + 1 /\ w[p] = f[p]
        BY <1>5, <3>2, <4>1
      <4> QED
        BY <1>2, <1>12, <4>1, <4>2
    <3> QED
      BY <3>1, <3>2
  <2> QED
    BY <1>12, <2>1
<1>14. dur \cap Times(Scan(f, t).recs) \subseteq Times(Scan(w, u).recs)
  BY <1>11, <1>13
<1>15. ~u /\ ~(t /\ Len(f) = 1) => ~t /\ l.at \in Times(Scan(w, u).recs)
  <2> SUFFICES ASSUME ~u, ~(t /\ Len(f) = 1) PROVE ~t /\ l.at \in Times(Scan(w, u).recs)
    OBVIOUS
  <2>1. Reach(w, u) = Len(w)
    BY DEF Reach
  <2>2. ~t
    <3> SUFFICES ASSUME t PROVE FALSE
      OBVIOUS
    <3>0. Len(w) = Len(f) /\ w[Len(f)] = Junk /\ Len(f) # 1
      BY <1>5
    <3>a. \A k \in Nat : k > 0 /\ k # 1 => k \in 2 .. k
      OBVIOUS
    <3>1. Len(f) \in 2 .. Reach(w, u) /\ w[Len(f)] = Junk
      BY <1>2, <2>1, <3>0, <3>a
    <3> QED
      BY <1>12, <3>1, HistoryLineFacts
  <2>3. Len(f) + 1 \in 2 .. Reach(w, u) /\ w[Len(f) + 1] = l
    BY <1>2, <1>5, <2>1, <2>2
  <2> QED
    BY <1>12, <2>2, <2>3
<1> QED
  BY <1>2, <1>6, <1>9, <1>10, <1>14, <1>15 DEF WriteKept

\* What a file may hold beside the synced records (their times are dur), and
\* the count that has to cover the ones it holds no longer.  A line written
\* behind an unterminated metadata line is lost with it, hence the slot.
Shape(f, t, dur, n) ==
  /\ f = <<>> => ~t /\ dur = {}
  /\ Slot(f) # "rec"
  /\ t /\ Len(f) = 1 => dur = {} /\ f[1].dropped = 0 /\ ~f[1].inc
  /\ dur \subseteq 1 .. n
  /\ t /\ Len(f) > 1 /\ IsRec(f[Len(f)]) => f[Len(f)].at \notin dur

\* The next start or read finds that the file is not what it was.
Blemished(f, t) == Scan(f, t).corrupt \/ Scan(f, t).inc \/ Scan(f, t).dropped > 0

Counted(f, t) == Slot(f) = "junk" \/ ~Scan(f, t).inc
Lost(f, t, dur) == dur \ Times(Scan(f, t).recs)
SlotLoss(f) == IF Slot(f) = "junk" THEN 1 ELSE 0
Balanced(f, t, dur) ==
  Counted(f, t) => Cardinality(Lost(f, t, dur)) <= Scan(f, t).dropped + SlotLoss(f)

\* Sets of times are finite.
LEMMA FewerLost ==
  ASSUME NEW n \in Nat, NEW dur \in SUBSET (1 .. n), NEW S \in SUBSET dur
  PROVE  IsFiniteSet(S) /\ Cardinality(S) \in Nat /\ Cardinality(S) <= Cardinality(dur)
<1>1. \A a, b \in Int : IsFiniteSet(a .. b)
  BY FS_Interval
<1>2. IsFiniteSet(1 .. n)
  BY <1>1
<1>3. IsFiniteSet(dur)
  BY <1>2, FS_Subset
<1> QED
  BY <1>3, FS_Subset, FS_CardinalityType

\* The count covers the losses after a write.
LEMMA WriteBalanced ==
  ASSUME NEW f \in Seq(HistoryLines), NEW t \in BOOLEAN, NEW l \in HistoryLines, NEW u \in BOOLEAN,
         NEW n \in Nat, NEW dur, NEW new \in {dur, dur \union {l.at}},
         f # <<>>, Shape(f, t, dur, n), ~Scan(f, t).corrupt, ~Scan(Written(f, t, l), u).corrupt,
         Balanced(f, t, dur), new # dur => ~u
  PROVE  Balanced(Written(f, t, l), u, new)
<1> DEFINE w == Written(f, t, l)
<1>0. /\ Slot(f) # "rec"
      /\ t /\ Len(f) > 1 /\ IsRec(f[Len(f)]) => f[Len(f)].at \notin dur
  BY DEF Shape
<1>w. w = Written(f, t, l) /\ ~Scan(w, u).corrupt
  OBVIOUS
<1> HIDE DEF w
<1>k. WriteKept(w, f, t, l, u, dur)
  BY <1>0, <1>w, WriteKeeps
<1>1. /\ dur \cap Times(Scan(f, t).recs) \subseteq Times(Scan(w, u).recs)
      /\ t /\ Len(f) = 1 => Slot(w) = "junk" /\ Scan(w, u).inc /\ Scan(w, u).dropped = 0
      /\ ~(t /\ Len(f) = 1) => /\ Slot(w) = Slot(f) /\ Scan(w, u).inc = Scan(f, t).inc
                               /\ Scan(w, u).dropped = Scan(f, t).dropped
      /\ ~u /\ ~(t /\ Len(f) = 1) => ~t /\ l.at \in Times(Scan(w, u).recs)
      /\ Slot(w) # "rec"
  BY <1>k DEF WriteKept
<1> SUFFICES ASSUME Counted(w, u)
             PROVE  Cardinality(Lost(w, u, new)) <= Scan(w, u).dropped + SlotLoss(w)
  BY DEF Balanced, w
<1>2. CASE t /\ Len(f) = 1
  <2>1. dur = {} /\ Scan(w, u).dropped = 0 /\ SlotLoss(w) = 1
    BY <1>1, <1>2 DEF Shape, SlotLoss
  <2>2. Lost(w, u, new) = {} \/ Lost(w, u, new) = {l.at}
    BY <2>1 DEF Lost
  <2>3. Cardinality(Lost(w, u, new)) \in {0, 1}
    BY <2>2, FS_EmptySet, FS_Singleton
  <2> QED
    BY <2>1, <2>3
<1>3. CASE ~(t /\ Len(f) = 1)
  <2>1. Slot(w) = Slot(f) /\ Scan(w, u).inc = Scan(f, t).inc /\ Scan(w, u).dropped = Scan(f, t).dropped
    BY <1>1, <1>3
  <2>2. Counted(f, t) /\ SlotLoss(w) = SlotLoss(f)
    BY <2>1 DEF Counted, SlotLoss
  <2>3. Lost(w, u, new) \subseteq Lost(f, t, dur)
    <3>1. new # dur => l.at \in Times(Scan(w, u).recs)
      BY <1>1, <1>3
    <3> QED
      BY <1>1, <3>1 DEF Lost
  <2>4. dur \subseteq 1 .. n /\ Lost(f, t, dur) \subseteq 1 .. n
    BY DEF Shape, Lost
  <2>5. /\ Cardinality(Lost(w, u, new)) \in Nat /\ Cardinality(Lost(w, u, new)) <= Cardinality(Lost(f, t, dur))
        /\ Cardinality(Lost(f, t, dur)) \in Nat
    BY <2>3, <2>4, FewerLost
  <2>6. Cardinality(Lost(f, t, dur)) <= Scan(f, t).dropped + SlotLoss(f)
    BY <2>2 DEF Balanced
  <2>7. Scan(f, t).dropped \in Nat /\ SlotLoss(f) \in Nat
    BY ScanFacts DEF Shape, SlotLoss
  <2> QED
    BY <2>1, <2>2, <2>5, <2>6, <2>7
<1> QED
  BY <1>2, <1>3

\* An eviction drops the oldest lines and counts every one of them.
LEMMA EvictBalanced ==
  ASSUME NEW f \in Seq(HistoryLines), NEW t \in BOOLEAN, NEW l \in HistoryLines, NEW n \in Nat, NEW dur,
         NEW w, w = Written(f, t, l), NEW d \in Nat, NEW s \in Nat, NEW e, e = Evicted(w, d, s),
         f # <<>>, Shape(f, t, dur, n), ~Scan(f, t).corrupt, ~Scan(e, FALSE).corrupt,
         Len(EvictLines(w)) > FileCap, IsRec(l),
         Balanced(f, t, dur), Counted(f, t) => d = Scan(f, t).dropped
  PROVE  Balanced(e, FALSE, dur \union {l.at})
<1>0. /\ Slot(f) # "rec" /\ dur \subseteq 1 .. n
      /\ t /\ Len(f) > 1 /\ IsRec(f[Len(f)]) => f[Len(f)].at \notin dur
  BY DEF Shape
<1>1. IsWritten(w, f, t, l)
  BY WrittenFacts
<1>2. Len(f) \in Nat /\ Len(f) > 0 /\ w \in Seq(HistoryLines) /\ w # <<>> /\ FileCap \in Nat /\ FileCap > 0
  BY <1>1, LenProperties, EmptySeq, TransitionConstants DEF IsWritten
<1>3. Len(w) \in Nat /\ Len(w) > 0
  BY <1>2, LenProperties, EmptySeq
<1>4. Slot(w) # "rec"
  BY <1>0, <1>1 DEF IsWritten
<1>5. /\ Len(EvictLines(w)) = (IF Slot(w) = "meta" THEN Len(w) - 1 ELSE Len(w))
      /\ e \in Seq(HistoryLines) /\ Len(e) = FileCap + 1
      /\ \A j \in 1 .. FileCap : e[j + 1] = w[Len(w) - FileCap + j]
      /\ Slot(e) = "meta" /\ e[1].inc = (Slot(w) = "meta" /\ w[1].inc)
      /\ e[1].dropped = (IF Slot(w) = "meta" /\ w[1].inc THEN 0 ELSE d) + (Len(EvictLines(w)) - FileCap)
  <2>1. IsEvicted(e, w, d)
    BY <1>2, <1>4, EvictedFacts
  <2> QED
    BY <2>1 DEF IsEvicted
<1>6. /\ Reach(e, FALSE) = Len(e) /\ Times(Scan(e, FALSE).recs) = {e[p].at : p \in 2 .. Len(e)}
      /\ \A p \in 2 .. Len(e) : IsRec(e[p])
  <2>1. Reach(e, FALSE) = Len(e)
    BY DEF Reach
  <2>2. e \in Seq(HistoryLines) /\ Slot(e) # "rec"
    BY <1>5
  <2> QED
    BY <2>1, <2>2, TimesFacts
<1>7. FileCap + 1 \in 2 .. Len(e) /\ e[FileCap + 1] = w[Len(w)]
  <2>1. FileCap \in 1 .. FileCap /\ Len(w) - FileCap + FileCap = Len(w) /\ FileCap + 1 \in 2 .. FileCap + 1
    BY <1>2, <1>3
  <2> QED
    BY <1>5, <2>1
<1>8. IsRec(w[Len(w)])
  BY <1>6, <1>7
<1>9. ~t
  BY <1>1, <1>8, HistoryLineFacts DEF IsWritten
<1>10. Len(w) = Len(f) + 1 /\ w[Len(f) + 1] = l /\ (\A i \in 1 .. Len(f) : w[i] = f[i])
       /\ w[1] = f[1] /\ Slot(w) = Slot(f)
  BY <1>1, <1>9 DEF IsWritten
<1>11. /\ Times(Scan(f, t).recs) = {f[p].at : p \in 2 .. Len(f)}
  <2>1. Reach(f, t) = Len(f)
    BY <1>9 DEF Reach
  <2> QED
    BY <1>0, <2>1, TimesFacts
<1> SUFFICES ASSUME Counted(e, FALSE)
             PROVE  Cardinality(Lost(e, FALSE, dur \union {l.at})) <= Scan(e, FALSE).dropped + SlotLoss(e)
  BY DEF Balanced
<1> DEFINE m == Len(w) - FileCap
           G == {w[p].at : p \in 2 .. m}
<1>12. ~(Slot(w) = "meta" /\ w[1].inc) /\ SlotLoss(e) = 0
       /\ Scan(e, FALSE).dropped = d + (Len(EvictLines(w)) - FileCap)
  <2>0. e \in Seq(HistoryLines) /\ Slot(e) = "meta"
    BY <1>5
  <2>1. Scan(e, FALSE).inc = e[1].inc /\ Scan(e, FALSE).dropped = e[1].dropped
    <3>1. /\ Scan(e, FALSE).inc = IF Slot(e) = "meta" THEN e[1].inc ELSE e # <<>>
          /\ Scan(e, FALSE).dropped = IF Slot(e) = "meta" /\ ~Scan(e, FALSE).corrupt THEN e[1].dropped ELSE 0
      BY <2>0, ScanFacts
    <3> QED
      BY <2>0, <3>1
  <2>2. ~Scan(e, FALSE).inc
    BY <2>0 DEF Counted
  <2>3. ~(Slot(w) = "meta" /\ w[1].inc)
    BY <1>5, <2>1, <2>2
  <2>4. e[1].dropped = d + (Len(EvictLines(w)) - FileCap)
    BY <1>5, <2>3
  <2> QED
    BY <2>0, <2>1, <2>3, <2>4 DEF SlotLoss
<1>13. Lost(e, FALSE, dur \union {l.at}) \subseteq Lost(f, t, dur) \union G
  <2> SUFFICES ASSUME NEW x \in dur \union {l.at}, x \notin Times(Scan(e, FALSE).recs), x \notin G
               PROVE  x \in dur /\ x \notin Times(Scan(f, t).recs)
    BY DEF Lost
  <2>1. ASSUME NEW p \in m + 1 .. Len(w) PROVE w[p].at \in Times(Scan(e, FALSE).recs)
    <3>1. p - m \in 1 .. FileCap /\ Len(w) - FileCap + (p - m) = p /\ p - m + 1 \in 2 .. FileCap + 1
      BY <1>2, <1>3
    <3>2. e[p - m + 1] = w[p]
      BY <1>5, <3>1
    <3> QED
      BY <1>5, <1>6, <3>1, <3>2, ZenonT(40)
  <2>2. l.at \in Times(Scan(e, FALSE).recs)
    <3>1. Len(w) \in m + 1 .. Len(w)
      BY <1>2, <1>3
    <3> QED
      BY <1>10, <2>1, <3>1
  <2>3. ASSUME NEW p \in 2 .. Len(f) PROVE x # f[p].at
    <3>1. w[p] = f[p] /\ p \in 2 .. Len(w)
      BY <1>2, <1>3, <1>10
    <3>2. p \in 2 .. m \/ p \in m + 1 .. Len(w)
      BY <1>2, <1>3, <3>1
    <3> QED
      BY <2>1, <3>1, <3>2
  <2> QED
    BY <1>11, <2>2, <2>3
<1>14. IsFiniteSet(G) /\ Cardinality(G) \in Nat /\ Cardinality(G) <= (IF m >= 1 THEN m - 1 ELSE 0)
  <2>1. m \in Int
    BY <1>2, <1>3
  <2> HIDE DEF m
  <2> DEFINE g == [p \in 2 .. m |-> w[p].at]
  <2>2. g \in Surjection(2 .. m, G)
    BY DEF Surjection
  <2>3. IsFiniteSet(2 .. m) /\ Cardinality(2 .. m) = IF 2 > m THEN 0 ELSE m - 2 + 1
    <3>1. \A a, b \in Int : IsFiniteSet(a .. b) /\ Cardinality(a .. b) = IF a > b THEN 0 ELSE b - a + 1
      BY FS_Interval
    <3> QED
      BY <2>1, <3>1
  <2> HIDE DEF G, g
  <2>4. IsFiniteSet(G) /\ Cardinality(G) <= Cardinality(2 .. m)
    BY <2>2, <2>3, FS_Surjection
  <2>5. Cardinality(G) \in Nat
    BY <2>4, FS_CardinalityType
  <2> QED
    BY <2>1, <2>3, <2>4, <2>5
<1>15. Lost(f, t, dur) \subseteq dur /\ IsFiniteSet(Lost(f, t, dur)) /\ Cardinality(Lost(f, t, dur)) \in Nat
  <2>1. Lost(f, t, dur) \in SUBSET dur /\ dur \in SUBSET (1 .. n)
    BY <1>0 DEF Lost
  <2> QED
    BY <2>1, FewerLost
<1> HIDE DEF G
<1>16. /\ Cardinality(Lost(e, FALSE, dur \union {l.at})) \in Nat
       /\ Cardinality(Lost(e, FALSE, dur \union {l.at})) <= Cardinality(Lost(f, t, dur)) + Cardinality(G)
  <2>1. /\ IsFiniteSet(Lost(f, t, dur) \union G)
        /\ Cardinality(Lost(f, t, dur) \union G)
             = Cardinality(Lost(f, t, dur)) + Cardinality(G) - Cardinality(Lost(f, t, dur) \cap G)
    BY <1>14, <1>15, FS_Union
  <2>2. Cardinality(Lost(f, t, dur) \cap G) \in Nat
    BY <1>14, FS_Intersection, FS_CardinalityType
  <2>3. /\ IsFiniteSet(Lost(e, FALSE, dur \union {l.at}))
        /\ Cardinality(Lost(e, FALSE, dur \union {l.at})) <= Cardinality(Lost(f, t, dur) \union G)
    BY <1>13, <2>1, FS_Subset
  <2>4. Cardinality(Lost(e, FALSE, dur \union {l.at})) \in Nat
    BY <2>3, FS_CardinalityType
  <2> DEFINE a == Cardinality(Lost(f, t, dur))
             b == Cardinality(G)
             x == Cardinality(Lost(e, FALSE, dur \union {l.at}))
             y == Cardinality(Lost(f, t, dur) \union G)
             z == Cardinality(Lost(f, t, dur) \cap G)
  <2>5. a \in Nat /\ b \in Nat /\ x \in Nat /\ z \in Nat /\ x <= y /\ y = a + b - z
    BY <1>14, <1>15, <2>1, <2>2, <2>3, <2>4
  <2> HIDE DEF a, b, x, y, z
  <2>6. x \in Nat /\ x <= a + b
    BY <2>5
  <2> QED
    BY <2>6 DEF a, b, x
<1>17. Counted(f, t)
  <2>1. /\ Scan(f, t).inc = IF Slot(f) = "meta" THEN f[1].inc ELSE f # <<>>
    BY <1>0, ScanFacts
  <2>2. Slot(f) \in {"meta", "junk"}
    <3>1. f[1] \in HistoryLines
      BY <1>2
    <3> QED
      BY <1>0, <3>1, HistoryLineFacts DEF Slot
  <2> QED
    BY <1>10, <1>12, <2>1, <2>2 DEF Counted
<1>18. Cardinality(Lost(f, t, dur)) <= d + SlotLoss(f) /\ SlotLoss(f) \in {0, 1}
  BY <1>17 DEF Balanced, SlotLoss
<1>19. /\ Slot(f) = "meta" => SlotLoss(f) = 0 /\ Len(EvictLines(w)) = Len(w) - 1
       /\ Slot(f) # "meta" => Len(EvictLines(w)) = Len(w)
  BY <1>5, <1>10 DEF SlotLoss
<1> DEFINE c == Len(EvictLines(w))
<1>20. c > FileCap /\ (c = Len(w) \/ (c = Len(w) - 1 /\ SlotLoss(f) = 0))
  BY <1>19
<1> HIDE DEF c
<1>21. Cardinality(Lost(e, FALSE, dur \union {l.at})) <= d + (c - FileCap)
  <2> DEFINE a == Cardinality(Lost(f, t, dur))
             b == Cardinality(G)
             x == Cardinality(Lost(e, FALSE, dur \union {l.at}))
             j == SlotLoss(f)
             k == Len(w)
  <2>1. /\ a \in Nat /\ b \in Nat /\ x \in Nat /\ j \in {0, 1} /\ k \in Nat /\ x <= a + b /\ a <= d + j
        /\ b <= (IF m >= 1 THEN m - 1 ELSE 0) /\ m = k - FileCap
        /\ c > FileCap /\ (c = k \/ (c = k - 1 /\ j = 0))
    BY <1>2, <1>3, <1>14, <1>15, <1>16, <1>18, <1>20
  <2> HIDE DEF a, b, x, j, k, m
  <2>2. x <= d + (c - FileCap)
    BY <1>2, <2>1
  <2> QED
    BY <2>2 DEF x
<1>22. Scan(e, FALSE).dropped + SlotLoss(e) = d + (c - FileCap)
  <2>1. SlotLoss(e) = 0 /\ Scan(e, FALSE).dropped = d + (c - FileCap)
    BY <1>12 DEF c
  <2>2. c \in Nat
    BY <1>2, <1>3, <1>20
  <2>3. d + (c - FileCap) \in Int
    BY <1>2, <2>2
  <2>4. Scan(e, FALSE).dropped \in Int
    BY <2>1, <2>3
  <2>5. \A p, q \in Int : q = 0 => p + q = p
    OBVIOUS
  <2>6. SlotLoss(e) = 0 /\ SlotLoss(e) \in Int
    BY <2>1
  <2>7. Scan(e, FALSE).dropped + SlotLoss(e) = Scan(e, FALSE).dropped
    BY <2>4, <2>5, <2>6
  <2> QED
    BY <2>1, <2>7
<1> QED
  BY <1>21, <1>22

\* No write hides that something is missing.
LEMMA BlemishStays ==
  ASSUME NEW f \in Seq(HistoryLines), NEW t \in BOOLEAN, NEW l \in HistoryLines, NEW u \in BOOLEAN,
         NEW w, w = Written(f, t, l), f # <<>>, Slot(f) # "rec", Blemished(f, t)
  PROVE  Blemished(w, u)
<1>1. IsWritten(w, f, t, l)
  BY WrittenFacts
<1>2. Len(f) \in Nat /\ Len(f) > 0 /\ w \in Seq(HistoryLines) /\ w # <<>> /\ Len(w) \in Nat
  BY <1>1, LenProperties, EmptySeq DEF IsWritten
<1>3. IF t /\ Len(f) = 1 THEN Slot(w) = "junk" ELSE Slot(w) = Slot(f) /\ w[1] = f[1]
  BY <1>1 DEF IsWritten
<1>4. /\ t => Len(w) = Len(f) /\ \A i \in 1 .. Len(f) - 1 : w[i] = f[i]
      /\ ~t => Len(w) = Len(f) + 1 /\ \A i \in 1 .. Len(f) : w[i] = f[i]
  BY <1>1 DEF IsWritten
<1>5. Slot(w) # "rec"
  BY <1>3
<1>6. /\ Scan(w, u).inc = (IF Slot(w) = "meta" THEN w[1].inc ELSE w # <<>>)
      /\ Scan(w, u).corrupt <=> \E i \in 2 .. Reach(w, u) : ~IsRec(w[i])
  BY <1>2, <1>5, ScanFacts, ZenonT(40)
<1>7. /\ Scan(f, t).inc = (IF Slot(f) = "meta" THEN f[1].inc ELSE f # <<>>)
      /\ Scan(f, t).corrupt <=> \E i \in 2 .. Reach(f, t) : ~IsRec(f[i])
  BY ScanFacts
<1>8. CASE t /\ Len(f) = 1
  <2>1. Slot(w) = "junk"
    BY <1>3, <1>8
  <2>2. Scan(w, u).inc = (w # <<>>)
    BY <1>6, <2>1
  <2> QED
    BY <1>2, <2>2 DEF Blemished
<1>9. CASE ~(t /\ Len(f) = 1)
  <2>1. Slot(w) = Slot(f) /\ w[1] = f[1]
    BY <1>3, <1>9
  <2>2. CASE Scan(f, t).inc
    <3>1. CASE Slot(f) = "meta"
      BY <1>6, <1>7, <2>1, <2>2, <3>1 DEF Blemished
    <3>2. CASE Slot(f) # "meta"
      <4>1. Scan(w, u).inc = (w # <<>>)
        BY <1>6, <2>1, <3>2
      <4> QED
        BY <1>2, <4>1 DEF Blemished
    <3> QED
      BY <3>1, <3>2
  <2>3. CASE Scan(f, t).corrupt
    <3>1. PICK p \in 2 .. Reach(f, t) : ~IsRec(f[p])
      BY <1>7, <2>3
    <3>2. /\ Reach(f, t) \in Nat /\ Reach(f, t) <= Len(f)
          /\ Reach(w, u) \in Nat /\ Len(w) - 1 <= Reach(w, u)
      BY <1>2 DEF Reach
    <3>3. p \in 2 .. Reach(w, u) /\ w[p] = f[p]
      <4>1. CASE t
        <5>1. p # Len(f)
          BY <1>2, <3>1, <3>2, <4>1 DEF Reach
        <5>2. p \in 1 .. Len(f) - 1
          BY <1>2, <3>2, <5>1
        <5>3. Len(w) = Len(f) /\ w[p] = f[p]
          BY <1>4, <4>1, <5>2
        <5> QED
          BY <1>2, <3>2, <5>2, <5>3
      <4>2. CASE ~t
        <5>1. p \in 1 .. Len(f)
          BY <1>2, <3>2
        <5>2. Len(w) = Len(f) + 1 /\ w[p] = f[p]
          BY <1>4, <4>2, <5>1
        <5> QED
          BY <1>2, <3>2, <5>1, <5>2
      <4> QED
        BY <4>1, <4>2
    <3> QED
      BY <1>6, <3>1, <3>3 DEF Blemished
  <2>4. CASE ~Scan(f, t).corrupt /\ Scan(f, t).dropped > 0 /\ ~Scan(w, u).corrupt
    <3>1. /\ Scan(f, t).dropped = IF Slot(f) = "meta" /\ ~Scan(f, t).corrupt THEN f[1].dropped ELSE 0
      BY ScanFacts
    <3>2. /\ Scan(w, u).dropped = IF Slot(w) = "meta" /\ ~Scan(w, u).corrupt THEN w[1].dropped ELSE 0
      BY <1>2, <1>5, ScanFacts, ZenonT(40)
    <3>3. Scan(w, u).dropped = Scan(f, t).dropped
      BY <2>1, <2>4, <3>1, <3>2
    <3> QED
      BY <2>4, <3>3 DEF Blemished
  <2> QED
    BY <2>2, <2>3, <2>4 DEF Blemished
<1> QED
  BY <1>8, <1>9

-----------------------------------------------------------------------------
(* What the steps of the store do to the file and to the tracker.          *)

Trackers == [firing : BOOLEAN, historyLoaded : BOOLEAN, loadError : BOOLEAN, historyCorrupt : BOOLEAN,
             metaInconsistent : BOOLEAN, fileDropped : Nat, transitions : Seq(Nat), historyDropped : Nat]

HTypeOK ==
  /\ file \in Seq(HistoryLines) /\ torn \in BOOLEAN /\ up \in BOOLEAN /\ openErr \in BOOLEAN
  /\ fileDropped \in Nat /\ lastSeq \in Nat /\ now \in Nat /\ tracker \in Trackers

Clean == "corrupt" \notin flaws
Writable == up /\ ~openErr

LEMMA TrackerFacts ==
  ASSUME NEW x \in Trackers
  PROVE  /\ x.firing \in BOOLEAN /\ x.historyLoaded \in BOOLEAN /\ x.loadError \in BOOLEAN
         /\ x.historyCorrupt \in BOOLEAN /\ x.metaInconsistent \in BOOLEAN /\ x.fileDropped \in Nat
         /\ x.transitions \in Seq(Nat) /\ x.historyDropped \in Nat
BY DEF Trackers

LEMMA DegradedFacts ==
  ASSUME NEW err \in BOOLEAN, NEW cor \in BOOLEAN
  PROVE  /\ Degraded(err, cor) \in Trackers /\ Degraded(err, cor).loadError = err
         /\ Degraded(err, cor).historyCorrupt = cor /\ ~Degraded(err, cor).historyLoaded
<1>1. <<>> \in Seq(Nat)
  OBVIOUS
<1> QED
  BY <1>1 DEF Degraded, Trackers

IsBaseline(y, x) == y \in Trackers /\ y.loadError = x.loadError /\ y.historyCorrupt = x.historyCorrupt

LEMMA BaselineFacts ==
  ASSUME NEW x \in Trackers, NEW b \in BOOLEAN, NEW y, y = [x EXCEPT !.firing = b, !.historyLoaded = TRUE]
  PROVE  IsBaseline(y, x)
BY DEF Trackers, IsBaseline

LEMMA PushFacts ==
  ASSUME NEW q \in Seq(Nat), now \in Nat
  PROVE  /\ Push(q).ring \in Seq(Nat) /\ Push(q).drop \in {0, 1}
         /\ Len(q) >= RingCap => Push(q).drop = 1
         /\ ~(Len(q) >= RingCap) => Push(q).ring = Append(q, now + 1)
<1>1. RingCap \in Nat /\ RingCap > 0 /\ Len(q) \in Nat
  BY TransitionConstants, LenProperties
<1>2. CASE Len(q) >= RingCap
  <2>1. q # <<>>
    BY <1>1, <1>2, EmptySeq
  <2>2. Tail(q) \in Seq(Nat)
    BY <2>1, HeadTailProperties
  <2>3. Push(q) = [drop |-> 1, ring |-> Append(Tail(q), now + 1)]
    BY <1>2 DEF Push
  <2>4. now + 1 \in Nat
    OBVIOUS
  <2>5. Append(Tail(q), now + 1) \in Seq(Nat)
    BY <2>2, <2>4, AppendProperties
  <2> QED
    BY <1>2, <2>3, <2>5
<1>3. CASE ~(Len(q) >= RingCap)
  <2>1. Push(q) = [drop |-> 0, ring |-> Append(q, now + 1)]
    BY <1>3 DEF Push
  <2>2. now + 1 \in Nat
    OBVIOUS
  <2>3. Append(q, now + 1) \in Seq(Nat)
    BY <2>2, AppendProperties
  <2> QED
    BY <1>3, <2>1, <2>3
<1> QED
  BY <1>2, <1>3

\* The tracker's part of an edge.
EdgeTaken ==
  /\ now' = now + 1 /\ tracker' \in Trackers /\ tracker'.firing = ~tracker.firing
  /\ tracker'.transitions = Push(tracker.transitions).ring
  /\ tracker'.historyDropped = tracker.historyDropped + Push(tracker.transitions).drop
  /\ tracker'.historyLoaded = tracker.historyLoaded /\ tracker'.loadError = tracker.loadError
  /\ tracker'.historyCorrupt = tracker.historyCorrupt
  /\ tracker'.metaInconsistent = tracker.metaInconsistent /\ tracker'.fileDropped = tracker.fileDropped

\* The tracker and its ring after an edge.
LEMMA EdgeEffect == HTypeOK /\ Edge => EdgeTaken
<1> SUFFICES ASSUME HTypeOK, Edge PROVE EdgeTaken
  OBVIOUS
<1> DEFINE b == ~tracker.firing
           q == Push(tracker.transitions).ring
           d == tracker.historyDropped + Push(tracker.transitions).drop
<1>1. tracker \in Trackers /\ now \in Nat
  BY DEF HTypeOK
<1>2. tracker.transitions \in Seq(Nat) /\ tracker.historyDropped \in Nat
  BY <1>1, TrackerFacts
<1>3. b \in BOOLEAN
  OBVIOUS
<1>4. q \in Seq(Nat) /\ Push(tracker.transitions).drop \in {0, 1}
  BY <1>1, <1>2, PushFacts
<1>5. d \in Nat
  BY <1>2, <1>4
<1>6. tracker' = [tracker EXCEPT !.firing = b, !.transitions = q, !.historyDropped = d] /\ now' = now + 1
  BY DEF Edge
<1> HIDE DEF b, q, d
<1>7. /\ tracker' \in Trackers /\ tracker'.firing = b /\ tracker'.transitions = q /\ tracker'.historyDropped = d
      /\ tracker'.historyLoaded = tracker.historyLoaded /\ tracker'.loadError = tracker.loadError
      /\ tracker'.historyCorrupt = tracker.historyCorrupt /\ tracker'.metaInconsistent = tracker.metaInconsistent
      /\ tracker'.fileDropped = tracker.fileDropped
  BY <1>1, <1>3, <1>4, <1>5, <1>6 DEF Trackers
<1> QED
  BY <1>6, <1>7 DEF EdgeTaken, b, q, d

LEMMA NewLineFacts ==
  HTypeOK => /\ NewLine \in HistoryLines /\ IsRec(NewLine) /\ NewLine.seq = lastSeq + 1
             /\ NewLine.to = ~tracker.firing /\ NewLine.at = now + 1
<1> SUFFICES ASSUME HTypeOK
             PROVE  /\ NewLine \in HistoryLines /\ IsRec(NewLine) /\ NewLine.seq = lastSeq + 1
                    /\ NewLine.to = ~tracker.firing /\ NewLine.at = now + 1
  OBVIOUS
<1>1. lastSeq + 1 \in Nat /\ now + 1 \in Nat /\ (~tracker.firing) \in BOOLEAN
  BY DEF HTypeOK
<1> DEFINE b == ~tracker.firing
<1>2. b \in BOOLEAN /\ NewLine = RecLine(lastSeq + 1, b, now + 1)
  BY DEF NewLine
<1> HIDE DEF b
<1>3. /\ NewLine \in HistoryLines /\ IsRec(NewLine) /\ NewLine.seq = lastSeq + 1
      /\ NewLine.to = b /\ NewLine.at = now + 1
  BY <1>1, <1>2, RecLineFacts
<1> QED
  BY <1>3 DEF b

IsRecovered(x, s) ==
  /\ x \in Trackers /\ x.historyLoaded /\ x.metaInconsistent = s.inc /\ x.fileDropped = s.dropped
  /\ Len(x.transitions) < RingCap =>
       Times(s.recs) \subseteq {x.transitions[i] : i \in 1 .. Len(x.transitions)}

\* The tracker after a start, with a ring that has room for more.
LEMMA RecoveredFacts ==
  ASSUME NEW s, s.recs \in Seq(HistoryLines), s.inc \in BOOLEAN, s.dropped \in Nat,
         NEW x, x = Recovered(s)
  PROVE  IsRecovered(x, s)
<1> DEFINE r == s.recs
           n == Len(r)
           new == Newest(r, RingCap)
           a == IF n > RingCap THEN n - RingCap + 1 ELSE 1
           q == [i \in DOMAIN new |-> new[i].at]
           b == r # <<>> /\ r[Len(r)].to
<1>1. n \in Nat /\ DOMAIN r = 1 .. n /\ RingCap \in Nat /\ RingCap > 0 /\ \A i \in 1 .. n : r[i] \in HistoryLines
  BY TransitionConstants, LenProperties
<1>2. a \in Nat /\ a >= 1
  <2> HIDE DEF r
  <2> QED
    BY <1>1
<1>3. /\ new \in Seq(HistoryLines) /\ Len(new) = (IF a <= n THEN n - a + 1 ELSE 0)
      /\ \A i \in 1 .. n - a + 1 : new[i] = r[a + i - 1]
  <2>1. new = SubSeq(r, a, n)
    BY DEF Newest
  <2> HIDE DEF r, a, new
  <2>2. \A i \in a .. n : r[i] \in HistoryLines
    BY <1>1, <1>2
  <2>3. a \in Int /\ n \in Int
    BY <1>1, <1>2
  <2> QED
    BY <2>1, <2>2, <2>3, SubSeqProperties
<1>4. q \in Seq(Nat) /\ Len(q) = Len(new) /\ \A i \in 1 .. Len(q) : q[i] = new[i].at
  <2> HIDE DEF new
  <2>1. DOMAIN new = 1 .. Len(new) /\ Len(new) \in Nat /\ \A i \in 1 .. Len(new) : new[i].at \in Nat
    BY <1>3, HistoryLineFacts
  <2>2. q \in [1 .. Len(new) -> Nat]
    BY <2>1
  <2> QED
    BY <2>1, <2>2
<1>5. b \in BOOLEAN
  OBVIOUS
<1>6. x = [firing |-> b, historyLoaded |-> TRUE, loadError |-> FALSE, historyCorrupt |-> FALSE,
           metaInconsistent |-> s.inc, fileDropped |-> s.dropped, transitions |-> q, historyDropped |-> 0]
  BY DEF Recovered
<1> HIDE DEF b, q
<1>7. x \in Trackers
  BY <1>4, <1>5, <1>6 DEF Trackers
<1>8. /\ x.historyLoaded /\ ~x.loadError /\ ~x.historyCorrupt /\ x.historyDropped = 0
      /\ x.metaInconsistent = s.inc /\ x.fileDropped = s.dropped /\ x.firing = b /\ x.transitions = q
  BY <1>6
<1>9. Len(q) < RingCap => Times(r) \subseteq {q[i] : i \in 1 .. Len(q)}
  <2> SUFFICES ASSUME Len(q) < RingCap, NEW i \in 1 .. n PROVE \E j \in 1 .. Len(q) : r[i].at = q[j]
    BY <1>1 DEF Times
  <2>1. Len(q) = (IF a <= n THEN n - a + 1 ELSE 0)
    BY <1>3, <1>4
  <2>2. a = 1 /\ Len(q) = n
    <3> HIDE DEF r, new
    <3>1. CASE n > RingCap
      <4>1. a = n - RingCap + 1
        BY <3>1
      <4> HIDE DEF a, n
      <4>2. a <= n /\ Len(q) = RingCap
        BY <1>1, <2>1, <4>1
      <4> QED
        BY <1>1, <4>2
    <3>2. CASE ~(n > RingCap)
      <4>1. a = 1
        BY <3>2
      <4> HIDE DEF a, n
      <4> QED
        BY <1>1, <2>1, <4>1
    <3> QED
      BY <3>1, <3>2
  <2> HIDE DEF r, n, a, new
  <2>3. i \in 1 .. n - a + 1 /\ a + i - 1 = i
    BY <1>1, <2>2
  <2>4. new[i] = r[i]
    BY <1>3, <2>3
  <2> QED
    BY <1>4, <2>2, <2>4
<1> QED
  BY <1>7, <1>8, <1>9 DEF IsRecovered

\* A step and the file: it leaves the file alone, creates it, migrates it, puts
\* a line behind it that is not synced, or one that is, and then may evict.
Noted == Clean' <=> Clean /\ ~View'.corrupt
Leaves ==
  /\ UNCHANGED <<file, torn, durable, flaws>> /\ now' \in {now, now + 1}
  /\ Writable' => Writable \/ file # <<>>
Creates ==
  /\ file = <<>> /\ ~torn /\ ~Writable /\ UNCHANGED <<now, durable, flaws>>
  /\ \/ file' = <<Junk>> /\ torn' = TRUE
     \/ file' = <<MetaLine(0, 0, FALSE)>> /\ torn' \in BOOLEAN
Migrates ==
  /\ ~View.corrupt /\ file' = Migrated(View) /\ torn' = FALSE
  /\ file # <<>> /\ ~Writable /\ UNCHANGED <<now, durable, flaws>>
Writes(l) ==
  /\ l \in {Junk, NewLine} /\ Writable /\ file' = Written(file, torn, l) /\ torn' \in BOOLEAN
  /\ now' = now + 1 /\ durable' = durable /\ Noted
  /\ Writable' => UNCHANGED <<fileDropped, lastSeq>>
Syncs ==
  /\ Writable /\ torn' = FALSE /\ now' = now + 1 /\ durable' = durable \union {now + 1} /\ Noted
  /\ Writable' /\ lastSeq' = lastSeq + 1
SyncsAll == Syncs /\ file' = Written(file, torn, NewLine) /\ fileDropped' = fileDropped
Evicts ==
  LET w == Written(file, torn, NewLine)
  IN  /\ Syncs /\ Len(EvictLines(w)) > FileCap
      /\ file' = Evicted(w, fileDropped, lastSeq + 1)
      /\ fileDropped' = fileDropped + Len(EvictLines(w)) - FileCap

LEMMA NotedFacts == NoteCorrupt => Noted
BY DEF NoteCorrupt, Noted, Clean, View

\* Every step is one of these.
LEMMA DiskStep ==
  ASSUME HTypeOK, Shape(file, torn, durable, now), Writable => file # <<>>, Next
  PROVE  \/ Leaves \/ Creates \/ Migrates \/ (\E l \in {Junk, NewLine} : Writes(l)) \/ SyncsAll \/ Evicts
<1>0. file = <<>> => ~torn
  BY DEF Shape
<1>1. CASE OpenFails
  <2>1. CASE UNCHANGED diskVars
    BY <1>1, <2>1 DEF OpenFails, diskVars, Leaves, Writable
  <2>2. CASE ~ UNCHANGED diskVars
    <3>1. /\ file = <<>> /\ file' \in {<<Junk>>, <<MetaLine(0, 0, FALSE)>>} /\ torn' = TRUE /\ ~up
          /\ UNCHANGED <<now, durable, flaws>>
      BY <1>1, <2>2 DEF OpenFails
    <3>2. torn' \in BOOLEAN
      BY <3>1
    <3> QED
      BY <1>0, <3>1, <3>2 DEF Creates, Writable
  <2> QED
    BY <2>1, <2>2
<1>2. CASE OpenUnreadable
  <2>1. torn' = torn /\ file' = Opened /\ UNCHANGED <<now, durable, flaws>> /\ ~up
    BY <1>2 DEF OpenUnreadable
  <2>2. CASE file = <<>>
    <3>1. torn' \in BOOLEAN
      BY <2>1 DEF HTypeOK
    <3> QED
      BY <1>0, <2>1, <2>2, <3>1 DEF Opened, Creates, Writable
  <2>3. CASE file # <<>>
    BY <2>1, <2>3 DEF Opened, Leaves, Writable
  <2> QED
    BY <2>2, <2>3
<1>3. CASE OpenCorrupt
  <2>1. Scan(file, torn).corrupt /\ UNCHANGED <<file, torn, durable, flaws, now>>
    BY <1>3 DEF OpenCorrupt, diskVars
  <2>2. file # <<>>
    <3>1. file \in Seq(HistoryLines) /\ torn \in BOOLEAN /\ Slot(file) # "rec"
      BY DEF HTypeOK, Shape
    <3>2. \E i \in 2 .. Reach(file, torn) : ~IsRec(file[i])
      BY <2>1, <3>1, ScanFacts
    <3> QED
      BY <3>2 DEF Reach
  <2> QED
    BY <2>1, <2>2 DEF Leaves
<1>4. CASE Open
  <2> DEFINE s0 == Scan(Opened, torn)
  <2>1. /\ ~up /\ ~s0.corrupt /\ UNCHANGED <<now, durable, flaws>>
        /\ file' = IF s0.legacy THEN Migrated(s0) ELSE Opened
        /\ torn' = IF s0.legacy THEN FALSE ELSE torn
    BY <1>4 DEF Open
  <2>2. CASE file = <<>>
    <3>1. Opened = <<MetaLine(0, 0, FALSE)>> /\ ~torn
      BY <1>0, <2>2 DEF Opened
    <3> DEFINE o == MetaLine(0, 0, FALSE)
    <3>2. o \in HistoryLines /\ o.kind = "meta"
      BY MetaLineFacts
    <3> HIDE DEF o
    <3>3. <<o>> \in Seq(HistoryLines) /\ Len(<<o>>) = 1 /\ <<o>>[1] = o /\ <<o>> # <<>>
      BY <3>2
    <3>4. Slot(<<o>>) # "rec"
      BY <3>2, <3>3 DEF Slot
    <3>5. Reach(<<o>>, torn) = 1
      BY <3>1, <3>3 DEF Reach
    <3>6. torn \in BOOLEAN
      BY DEF HTypeOK
    <3>7. /\ Len(Scan(<<o>>, torn).recs) = IF <<o>> = <<>> \/ Scan(<<o>>, torn).corrupt THEN 0 ELSE Reach(<<o>>, torn) - 1
          /\ Scan(<<o>>, torn).legacy <=> \E i \in 1 .. Len(Scan(<<o>>, torn).recs) : Scan(<<o>>, torn).recs[i].seq = 0
      BY <3>3, <3>4, <3>6, ScanFacts
    <3>8. ~Scan(<<o>>, torn).legacy
      BY <3>5, <3>7
    <3>9. ~s0.legacy
      BY <3>1, <3>8 DEF o
    <3>10. file' = <<MetaLine(0, 0, FALSE)>> /\ torn' = torn
      BY <2>1, <3>1, <3>9
    <3> QED
      BY <1>0, <2>1, <2>2, <3>6, <3>10 DEF Creates, Writable
  <2>3. CASE file # <<>>
    <3>1. Opened = file /\ s0 = View
      BY <2>3 DEF Opened, View
    <3>2. CASE s0.legacy
      BY <2>1, <2>3, <3>1, <3>2 DEF Migrates, Writable
    <3>3. CASE ~s0.legacy
      BY <2>1, <2>3, <3>1, <3>3 DEF Leaves
    <3> QED
      BY <3>2, <3>3
  <2> QED
    BY <2>2, <2>3
<1>5. ASSUME NEW firing \in BOOLEAN, ObserveBaseline(firing) PROVE Leaves
  BY <1>5 DEF ObserveBaseline, diskVars, Leaves, Writable, storeVars
<1>6. CASE ObserveNoEdge
  BY <1>6 DEF ObserveNoEdge, vars, diskVars, histVars, storeVars, Leaves, Writable
<1>7. CASE AppendRefused
  BY <1>7 DEF AppendRefused, Edge, diskVars, Leaves, Writable
<1>8. CASE AppendShort
  <2>1. Noted
    BY <1>8, NotedFacts DEF AppendShort
  <2>2. Writable /\ now' = now + 1 /\ durable' = durable /\ torn' = TRUE /\ UNCHANGED <<fileDropped, lastSeq>>
    BY <1>8 DEF AppendShort, Edge, Writable
  <2>3. \E l \in {Junk, NewLine} : file' = Written(file, torn, l)
    BY <1>8 DEF AppendShort
  <2>4. torn' \in BOOLEAN
    BY <2>2
  <2> QED
    BY <2>1, <2>2, <2>3, <2>4 DEF Writes
<1>9. CASE AppendUnsynced
  <2>1. Noted
    BY <1>9 DEF AppendUnsynced, Noted, Clean, View
  <2>2. Writable /\ now' = now + 1 /\ durable' = durable /\ torn' = FALSE /\ UNCHANGED <<fileDropped, lastSeq>>
        /\ file' = Written(file, torn, NewLine)
    BY <1>9 DEF AppendUnsynced, Edge, Writable
  <2>3. torn' \in BOOLEAN
    BY <2>2
  <2>4. Writes(NewLine)
    BY <2>1, <2>2, <2>3 DEF Writes
  <2> QED
    BY <2>4
<1>10. CASE AppendSynced
  <2> DEFINE w == Written(file, torn, NewLine)
  <2>1. Noted
    BY <1>10, NotedFacts DEF AppendSynced
  <2>2. Syncs
    BY <1>10, <2>1 DEF AppendSynced, Edge, Syncs, Writable, Watermark
  <2>3. \/ file' = w /\ fileDropped' = fileDropped
        \/ /\ Len(EvictLines(w)) > FileCap /\ file' = Evicted(w, fileDropped, lastSeq + 1)
           /\ fileDropped' = fileDropped + Len(EvictLines(w)) - FileCap
    BY <1>10 DEF AppendSynced, Watermark
  <2> QED
    BY <2>2, <2>3 DEF SyncsAll, Evicts
<1>11. CASE ReadAll
  BY <1>11 DEF ReadAll, diskVars, histVars, Leaves, Writable
<1>12. CASE ReadBefore
  BY <1>12 DEF ReadBefore, diskVars, histVars, Leaves, Writable
<1>13. CASE Crash
  BY <1>13 DEF Crash, Down, diskVars, Leaves, Writable
<1>14. CASE CrashInAppend
  <2>1. Noted
    BY <1>14, NotedFacts DEF CrashInAppend
  <2>2. Writable /\ now' = now + 1 /\ durable' = durable /\ ~Writable'
    BY <1>14 DEF CrashInAppend, Down, Writable
  <2>3. /\ \E l \in {Junk, NewLine} : file' = Written(file, torn, l)
        /\ torn' \in BOOLEAN
    BY <1>14 DEF CrashInAppend
  <2> QED
    BY <2>1, <2>2, <2>3 DEF Writes
<1> QED
  BY <1>1, <1>2, <1>3, <1>4, <1>5, <1>6, <1>7, <1>8, <1>9, <1>10, <1>11, <1>12, <1>13, <1>14 DEF Next

Disk ==
  /\ Shape(file, torn, durable, now)
  /\ Writable => file # <<>>
  /\ Clean => ~View.corrupt /\ Balanced(file, torn, durable)
  /\ ~Clean => Blemished(file, torn)

\* The mirror of the eviction count is the count on disk.
Mirrored == Clean /\ Writable /\ Counted(file, torn) => fileDropped = View.dropped

\* The file after a write.
LEMMA WrittenStep ==
  ASSUME HTypeOK, Disk, NEW l \in HistoryLines, Writable, Noted, torn' \in BOOLEAN, now' = now + 1,
         file' = Written(file, torn, l),
         \/ durable' = durable /\ (IsRec(l) => l.at = now + 1)
         \/ durable' = durable \union {l.at} /\ l.at = now + 1 /\ torn' = FALSE
  PROVE  /\ file' \in Seq(HistoryLines) /\ file' # <<>> /\ Shape(file', torn', durable', now')
         /\ Clean' => ~View'.corrupt /\ Balanced(file', torn', durable')
         /\ ~Clean' => Blemished(file', torn')
<1>0. /\ file \in Seq(HistoryLines) /\ torn \in BOOLEAN /\ now \in Nat /\ file # <<>> /\ Slot(file) # "rec"
      /\ Shape(file, torn, durable, now)
  BY DEF HTypeOK, Disk, Shape
<1>1. /\ file' \in Seq(HistoryLines)
      /\ torn => Len(file') = Len(file) /\ file'[Len(file)] = Junk /\ \A i \in 1 .. Len(file) - 1 : file'[i] = file[i]
      /\ ~torn => Len(file') = Len(file) + 1 /\ file'[Len(file) + 1] = l /\ \A i \in 1 .. Len(file) : file'[i] = file[i]
      /\ file' # <<>> /\ Slot(file') # "rec"
  <2>1. IsWritten(file', file, torn, l)
    BY <1>0, WrittenFacts
  <2> QED
    BY <1>0, <2>1 DEF IsWritten
<1>2. Len(file) \in Nat /\ Len(file) > 0
  BY <1>0, LenProperties, EmptySeq
<1>3. Shape(file', torn', durable', now')
  <2>1. durable \subseteq 1 .. now /\ durable' \subseteq 1 .. now'
    <3>1. durable \subseteq 1 .. now
      BY <1>0 DEF Shape
    <3>2. \A x \in 1 .. now : x \in 1 .. now + 1
      BY <1>0
    <3>3. now + 1 \in 1 .. now + 1
      BY <1>0
    <3>4. durable' \subseteq durable \union {now + 1}
      OBVIOUS
    <3> QED
      BY <3>1, <3>2, <3>3, <3>4
  <2>2. torn' /\ Len(file') = 1 => durable' = {} /\ file'[1].dropped = 0 /\ ~file'[1].inc
    <3> SUFFICES ASSUME torn', Len(file') = 1 PROVE durable' = {} /\ file'[1].dropped = 0 /\ ~file'[1].inc
      OBVIOUS
    <3>1. torn /\ Len(file) = 1 /\ file'[1] = Junk
      <4>1. CASE ~torn
        <5>1. Len(file') = Len(file) + 1
          BY <1>1, <4>1
        <5>2. \A k \in Nat : k > 0 => k + 1 # 1
          OBVIOUS
        <5>3. Len(file') # 1
          BY <1>2, <5>1, <5>2
        <5> QED
          BY <5>3
      <4>2. CASE torn
        BY <1>1, <4>2
      <4> QED
        BY <4>1, <4>2
    <3>2. durable = {}
      BY <1>0, <3>1 DEF Shape
    <3>3. Junk.dropped = 0 /\ ~Junk.inc
      BY DEF Junk
    <3>4. durable' = durable
      OBVIOUS
    <3> QED
      BY <3>1, <3>2, <3>3, <3>4
  <2>3. torn' /\ Len(file') > 1 /\ IsRec(file'[Len(file')]) => file'[Len(file')].at \notin durable'
    <3> SUFFICES ASSUME torn', IsRec(file'[Len(file')]) PROVE file'[Len(file')].at \notin durable'
      OBVIOUS
    <3>1. ~torn
      BY <1>1, HistoryLineFacts
    <3>2. file'[Len(file')] = l
      BY <1>1, <3>1
    <3>3. durable' = durable /\ l.at = now + 1
      BY <3>2
    <3> QED
      BY <1>0, <2>1, <3>2, <3>3
  <2> QED
    BY <1>1, <2>1, <2>2, <2>3 DEF Shape
<1>4. ASSUME Clean' PROVE ~View'.corrupt /\ Balanced(file', torn', durable')
  <2>1. Clean /\ ~View'.corrupt /\ ~View.corrupt /\ Balanced(file, torn, durable)
    BY <1>4 DEF Noted, Disk
  <2>2. ~Scan(file', torn').corrupt /\ ~Scan(file, torn).corrupt
    BY <2>1 DEF View
  <2>3. durable' \in {durable, durable \union {l.at}} /\ (durable' # durable => ~torn')
    OBVIOUS
  <2>4. Balanced(Written(file, torn, l), torn', durable')
    BY <1>0, <2>1, <2>2, <2>3, WriteBalanced
  <2> QED
    BY <2>1, <2>4
<1>5. ASSUME ~Clean' PROVE Blemished(file', torn')
  <2>1. CASE View'.corrupt
    BY <2>1 DEF View, Blemished
  <2>2. CASE ~Clean
    <3>1. Blemished(file, torn)
      BY <2>2 DEF Disk
    <3> QED
      BY <1>0, <3>1, BlemishStays
  <2> QED
    BY <1>5, <2>1, <2>2 DEF Noted
<1> QED
  BY <1>1, <1>3, <1>4, <1>5

\* The file and the mirror of its count after an eviction.
LEMMA EvictedStep ==
  ASSUME HTypeOK, Disk, Mirrored, Evicts
  PROVE  /\ file' \in Seq(HistoryLines) /\ file' # <<>> /\ Shape(file', torn', durable', now')
         /\ Clean' => ~View'.corrupt /\ Balanced(file', torn', durable')
         /\ Blemished(file', torn') /\ fileDropped' \in Nat
         /\ ~View'.corrupt /\ Counted(file', torn') => fileDropped' = View'.dropped
<1> DEFINE w == Written(file, torn, NewLine)
<1>0. /\ file \in Seq(HistoryLines) /\ torn \in BOOLEAN /\ now \in Nat /\ file # <<>> /\ Slot(file) # "rec"
      /\ fileDropped \in Nat /\ lastSeq \in Nat /\ lastSeq + 1 \in Nat
      /\ Shape(file, torn, durable, now) /\ Writable /\ FileCap \in Nat /\ FileCap > 0
  BY TransitionConstants DEF HTypeOK, Disk, Shape, Evicts, Syncs
<1>1. /\ torn' = FALSE /\ now' = now + 1 /\ durable' = durable \union {now + 1} /\ Noted
      /\ Len(EvictLines(w)) > FileCap /\ file' = Evicted(w, fileDropped, lastSeq + 1)
      /\ fileDropped' = fileDropped + Len(EvictLines(w)) - FileCap
  BY DEF Evicts, Syncs
<1>2. NewLine \in HistoryLines /\ IsRec(NewLine) /\ NewLine.at = now + 1
  BY NewLineFacts
<1>3. IsWritten(w, file, torn, NewLine)
  BY <1>0, <1>2, WrittenFacts
<1>4. w \in Seq(HistoryLines) /\ w # <<>> /\ Slot(w) # "rec"
  BY <1>0, <1>3 DEF IsWritten
<1> HIDE DEF w
<1>5. IsEvicted(file', w, fileDropped)
  BY <1>0, <1>1, <1>4, EvictedFacts
<1>6. /\ file' \in Seq(HistoryLines) /\ Len(file') = FileCap + 1 /\ Slot(file') = "meta"
      /\ file'[1].inc = (Slot(w) = "meta" /\ w[1].inc) /\ file'[1].dropped > 0
      /\ file'[1].dropped = (IF Slot(w) = "meta" /\ w[1].inc THEN 0 ELSE fileDropped) + (Len(EvictLines(w)) - FileCap)
  BY <1>5 DEF IsEvicted
<1>7. file' # <<>>
  BY <1>0, <1>6, EmptySeq
<1>8. durable \subseteq 1 .. now /\ durable' \subseteq 1 .. now'
  <2>1. durable \subseteq 1 .. now
    BY <1>0 DEF Shape
  <2> QED
    BY <1>0, <1>1, <2>1
<1>9. Shape(file', torn', durable', now')
  BY <1>1, <1>6, <1>7, <1>8 DEF Shape
<1>10. ASSUME Clean' PROVE ~View'.corrupt /\ Balanced(file', torn', durable')
  <2>1. Clean /\ ~View'.corrupt /\ ~View.corrupt /\ Balanced(file, torn, durable)
    BY <1>1, <1>10 DEF Noted, Disk
  <2>2. ~Scan(file', FALSE).corrupt /\ ~Scan(file, torn).corrupt
    BY <1>1, <2>1 DEF View
  <2>3. Counted(file, torn) => fileDropped = Scan(file, torn).dropped
    BY <1>0, <2>1 DEF Mirrored, View
  <2>4. Balanced(file', FALSE, durable \union {NewLine.at})
    BY <1>0, <1>1, <1>2, <2>1, <2>2, <2>3, EvictBalanced DEF w
  <2> QED
    BY <1>1, <1>2, <2>1, <2>4
<1>11. /\ Scan(file', FALSE).corrupt \in BOOLEAN
       /\ Scan(file', FALSE).inc = IF Slot(file') = "meta" THEN file'[1].inc ELSE file' # <<>>
       /\ Scan(file', FALSE).dropped = IF Slot(file') = "meta" /\ ~Scan(file', FALSE).corrupt THEN file'[1].dropped ELSE 0
  BY <1>6, ScanFacts
<1>12. Blemished(file', torn')
  BY <1>1, <1>6, <1>11 DEF Blemished
<1>13. Len(EvictLines(w)) = (IF Slot(w) = "meta" THEN Len(w) - 1 ELSE Len(w)) /\ Len(w) \in Nat
  BY <1>4, <1>5, LenProperties DEF IsEvicted
<1>14. Len(EvictLines(w)) \in Int
  BY <1>13
<1>15. fileDropped' \in Nat /\ fileDropped' = fileDropped + (Len(EvictLines(w)) - FileCap)
  BY <1>0, <1>1, <1>14
<1>16. ASSUME ~View'.corrupt, Counted(file', torn') PROVE fileDropped' = View'.dropped
  <2>1. View' = Scan(file', FALSE)
    BY <1>1 DEF View
  <2>2. ~file'[1].inc
    BY <1>1, <1>6, <1>11, <1>16 DEF Counted
  <2>3. View'.dropped = fileDropped + (Len(EvictLines(w)) - FileCap)
    BY <1>6, <1>11, <1>16, <2>1, <2>2
  <2> QED
    BY <1>15, <2>3
<1> QED
  BY <1>6, <1>7, <1>9, <1>10, <1>12, <1>15, <1>16

\* The file after its creation, complete or not.
LEMMA CreatedStep ==
  ASSUME HTypeOK, Disk, Creates
  PROVE  /\ file' \in Seq(HistoryLines) /\ file' # <<>> /\ Shape(file', torn', durable', now')
         /\ Clean' /\ ~View'.corrupt /\ Balanced(file', torn', durable') /\ View'.dropped = 0
         /\ Len(file') = 1
<1>1. PICK o \in {Junk, MetaLine(0, 0, FALSE)} : file' = <<o>>
  BY DEF Creates
<1>2. /\ file = <<>> /\ torn' \in BOOLEAN /\ now' = now /\ durable' = durable /\ flaws' = flaws
  BY DEF Creates
<1>3. o \in HistoryLines /\ o.kind \in {"junk", "meta"} /\ o.dropped = 0 /\ ~o.inc
  <2>1. CASE o = Junk
    BY <2>1, HistoryLineFacts DEF Junk
  <2>2. CASE o = MetaLine(0, 0, FALSE)
    BY <2>2, MetaLineFacts
  <2> QED
    BY <2>1, <2>2
<1>4. file' \in Seq(HistoryLines) /\ Len(file') = 1 /\ file'[1] = o /\ file' # <<>>
  BY <1>1, <1>3
<1>5. Slot(file') = o.kind
  BY <1>4 DEF Slot
<1>6. durable = {} /\ ~torn /\ durable \subseteq 1 .. now
  BY <1>2 DEF Disk, Shape
<1>7. Shape(file', torn', durable', now')
  BY <1>2, <1>3, <1>4, <1>5, <1>6 DEF Shape
<1>8. Reach(file', torn') = 1
  BY <1>4 DEF Reach
<1>9. /\ Scan(file', torn').corrupt <=> \E i \in 2 .. Reach(file', torn') : ~IsRec(file'[i])
      /\ Scan(file', torn').dropped
           = IF Slot(file') = "meta" /\ ~Scan(file', torn').corrupt THEN file'[1].dropped ELSE 0
  BY <1>2, <1>3, <1>4, <1>5, ScanFacts
<1>10. ~View'.corrupt /\ View'.dropped = 0
  BY <1>3, <1>4, <1>8, <1>9 DEF View
<1>11. Balanced(file', torn', durable')
  <2>1. Lost(file', torn', durable') = {}
    BY <1>2, <1>6 DEF Lost
  <2>2. Cardinality(Lost(file', torn', durable')) = 0
    BY <2>1, FS_EmptySet
  <2>3. Scan(file', torn').dropped = 0 /\ SlotLoss(file') \in {0, 1}
    BY <1>10 DEF View, SlotLoss
  <2> QED
    BY <2>2, <2>3 DEF Balanced
<1>12. Clean'
  <2> SUFFICES ASSUME ~Clean PROVE FALSE
    BY <1>2 DEF Clean
  <2>1. Blemished(file, torn)
    BY DEF Disk
  <2>2. Slot(file) = "none" /\ file \in Seq(HistoryLines) /\ torn \in BOOLEAN
    BY <1>2 DEF Slot, HTypeOK
  <2>3. /\ Scan(file, torn).corrupt <=> \E i \in 2 .. Reach(file, torn) : ~IsRec(file[i])
        /\ Scan(file, torn).inc = (IF Slot(file) = "meta" THEN file[1].inc ELSE file # <<>>)
        /\ Scan(file, torn).dropped
             = IF Slot(file) = "meta" /\ ~Scan(file, torn).corrupt THEN file[1].dropped ELSE 0
    BY <2>2, ScanFacts
  <2>4. Reach(file, torn) = 0
    BY <1>2 DEF Reach
  <2>5. ~Scan(file, torn).corrupt /\ Scan(file, torn).dropped = 0
    BY <2>2, <2>3, <2>4
  <2>6. ~Scan(file, torn).inc
    <3>1. Scan(file, torn).inc = (file # <<>>)
      BY <2>2, <2>3
    <3> QED
      BY <1>2, <3>1
  <2> QED
    BY <2>1, <2>5, <2>6 DEF Blemished
<1> QED
  BY <1>4, <1>7, <1>10, <1>11, <1>12

\* The file after a migration.
LEMMA MigratedStep ==
  ASSUME HTypeOK, Disk, Migrates
  PROVE  /\ file' \in Seq(HistoryLines) /\ file' # <<>> /\ Shape(file', torn', durable', now')
         /\ ~View'.corrupt /\ (Clean' => Balanced(file', torn', durable'))
         /\ ~Clean' => Blemished(file', torn')
         /\ \A p \in 2 .. Len(file') : file'[p].seq # 0
<1> DEFINE r == View.recs
<1>1. /\ file' = Migrated(View) /\ torn' = FALSE /\ ~View.corrupt /\ file # <<>>
      /\ now' = now /\ durable' = durable /\ flaws' = flaws
  BY DEF Migrates
<1>2. /\ file \in Seq(HistoryLines) /\ torn \in BOOLEAN /\ Slot(file) # "rec" /\ ~Scan(file, torn).corrupt
      /\ durable \subseteq 1 .. now
  BY <1>1 DEF HTypeOK, Disk, Shape, View
<1>3. /\ r \in Seq(HistoryLines) /\ Len(r) = Reach(file, torn) - 1
      /\ View.inc \in BOOLEAN /\ View.dropped \in Nat
      /\ \A i \in 1 .. Len(r) : r[i] = file[i + 1]
  BY <1>1, <1>2, ScanFacts DEF View
<1> HIDE DEF r
<1>4. IsMigrated(file', r, View.inc, View.dropped)
  BY <1>1, <1>3, MigratedFacts DEF r
<1>5. /\ file' \in Seq(HistoryLines) /\ Len(file') = Len(r) + 1 /\ Slot(file') = "meta"
      /\ file'[1].inc = View.inc /\ file'[1].dropped = (IF View.inc THEN 0 ELSE View.dropped)
      /\ \A i \in 1 .. Len(r) : /\ file'[i + 1].kind = r[i].kind /\ file'[i + 1].at = r[i].at
                                /\ file'[i + 1].seq = i
  BY <1>4 DEF IsMigrated
<1>6. Len(r) \in Nat /\ file' # <<>>
  BY <1>3, <1>5, LenProperties, EmptySeq
<1>7. Shape(file', torn', durable', now')
  BY <1>1, <1>2, <1>5, <1>6 DEF Shape
<1>8. /\ Reach(file, torn) \in Nat
      /\ Times(Scan(file, torn).recs) = {file[p].at : p \in 2 .. Reach(file, torn)}
      /\ \A p \in 2 .. Reach(file, torn) : IsRec(file[p])
  BY <1>2, TimesFacts
<1>9. ASSUME NEW p \in 2 .. Len(file')
      PROVE  p \in 2 .. Reach(file, torn) /\ IsRec(file'[p]) /\ file'[p].at = file[p].at /\ file'[p].seq # 0
  <2>0. Len(r) = Reach(file, torn) - 1 /\ Len(file') = Len(r) + 1 /\ Reach(file, torn) \in Nat /\ Len(r) \in Nat
    BY <1>3, <1>5, <1>6, <1>8
  <2>1. p - 1 \in 1 .. Len(r) /\ p - 1 + 1 = p /\ Len(file') = Reach(file, torn)
    BY <2>0
  <2>2. r[p - 1] = file[p]
    BY <1>3, <2>1
  <2>3. file'[p].kind = r[p - 1].kind /\ file'[p].at = r[p - 1].at /\ file'[p].seq = p - 1
    BY <1>5, <2>1
  <2>4. p \in 2 .. Reach(file, torn)
    BY <2>1
  <2>5. IsRec(file[p])
    BY <1>8, <2>4
  <2> QED
    BY <2>1, <2>2, <2>3, <2>4, <2>5 DEF IsRec
<1>10. Reach(file', FALSE) = Len(file') /\ Len(file') = Reach(file, torn)
  <2>1. Reach(file', FALSE) = Len(file')
    BY DEF Reach
  <2>2. Len(r) = Reach(file, torn) - 1 /\ Len(file') = Len(r) + 1 /\ Reach(file, torn) \in Nat
    BY <1>3, <1>5, <1>8
  <2>3. \A j, k, m \in Int : j = k - 1 /\ m = j + 1 => m = k
    OBVIOUS
  <2>4. Len(file') = Reach(file, torn)
    BY <1>5, <1>6, <2>2, <2>3
  <2> QED
    BY <2>1, <2>4
<1>11. /\ Scan(file', FALSE).corrupt <=> \E i \in 2 .. Reach(file', FALSE) : ~IsRec(file'[i])
       /\ Scan(file', FALSE).inc = (IF Slot(file') = "meta" THEN file'[1].inc ELSE file' # <<>>)
       /\ Scan(file', FALSE).dropped
            = IF Slot(file') = "meta" /\ ~Scan(file', FALSE).corrupt THEN file'[1].dropped ELSE 0
  BY <1>5, ScanFacts
<1>12. ~Scan(file', FALSE).corrupt /\ View' = Scan(file', FALSE)
  <2>1. ~Scan(file', FALSE).corrupt
    BY <1>9, <1>10, <1>11
  <2> QED
    BY <1>1, <2>1 DEF View
<1>13. Scan(file', FALSE).inc = View.inc /\ Scan(file', FALSE).dropped = (IF View.inc THEN 0 ELSE View.dropped)
  BY <1>5, <1>11, <1>12
<1>14. Times(Scan(file', FALSE).recs) = Times(Scan(file, torn).recs)
  <2>1. Times(Scan(file', FALSE).recs) = {file'[p].at : p \in 2 .. Reach(file', FALSE)}
    BY <1>5, <1>12, TimesFacts
  <2> QED
    BY <1>8, <1>9, <1>10, <2>1
<1>15. Clean' => Balanced(file', torn', durable')
  <2> SUFFICES ASSUME Clean', Counted(file', FALSE)
               PROVE  Cardinality(Lost(file', FALSE, durable)) <= Scan(file', FALSE).dropped + SlotLoss(file')
    BY <1>1 DEF Balanced
  <2>1. ~View.inc /\ SlotLoss(file') = 0
    BY <1>5, <1>13 DEF Counted, SlotLoss
  <2>2. Balanced(file, torn, durable)
    BY <1>1 DEF Disk, Clean
  <2>3. Slot(file) = "meta"
    <3>1. Scan(file, torn).inc = IF Slot(file) = "meta" THEN file[1].inc ELSE file # <<>>
      BY <1>2, ScanFacts
    <3> QED
      BY <1>1, <2>1, <3>1 DEF View
  <2>4. Counted(file, torn) /\ SlotLoss(file) = 0
    BY <2>1, <2>3 DEF Counted, View, SlotLoss
  <2>5. Cardinality(Lost(file, torn, durable)) <= Scan(file, torn).dropped + SlotLoss(file)
    BY <2>2, <2>4 DEF Balanced
  <2>6. Lost(file', FALSE, durable) = Lost(file, torn, durable)
    BY <1>14 DEF Lost
  <2>7. Scan(file', FALSE).dropped = Scan(file, torn).dropped
    BY <1>13, <2>1 DEF View
  <2> QED
    BY <2>1, <2>4, <2>5, <2>6, <2>7
<1>16. ~Clean' => Blemished(file', torn')
  <2> SUFFICES ASSUME ~Clean' PROVE Blemished(file', torn')
    OBVIOUS
  <2>1. Blemished(file, torn)
    BY <1>1 DEF Disk, Clean
  <2>2. View.inc \/ View.dropped > 0
    BY <1>2, <2>1 DEF Blemished, View
  <2> QED
    BY <1>1, <1>13, <2>2 DEF Blemished
<1> QED
  BY <1>5, <1>6, <1>7, <1>9, <1>12, <1>15, <1>16

\* Every step keeps what the file holds and what it counts.
LEMMA DiskInvStep ==
  ASSUME HTypeOK, Disk, Mirrored, Next
  PROVE  file' \in Seq(HistoryLines) /\ torn' \in BOOLEAN /\ now' \in Nat /\ Disk'
<1>0. /\ file \in Seq(HistoryLines) /\ torn \in BOOLEAN /\ now \in Nat
      /\ Shape(file, torn, durable, now) /\ (Writable => file # <<>>)
  BY DEF HTypeOK, Disk
<1>1. CASE Leaves
  <2>1. /\ file' = file /\ torn' = torn /\ durable' = durable /\ flaws' = flaws /\ now' \in {now, now + 1}
        /\ Writable' => file' # <<>>
    BY <1>0, <1>1 DEF Leaves
  <2>2. now' \in Nat /\ \A x \in 1 .. now : x \in 1 .. now'
    BY <1>0, <2>1
  <2>3. Shape(file', torn', durable', now')
    BY <1>0, <2>1, <2>2 DEF Shape
  <2> QED
    BY <1>0, <2>1, <2>2, <2>3 DEF Disk, Clean, View
<1>2. CASE Creates
  <2>1. torn' \in BOOLEAN /\ now' = now
    BY <1>2 DEF Creates
  <2>2. /\ file' \in Seq(HistoryLines) /\ file' # <<>> /\ Shape(file', torn', durable', now')
        /\ Clean' /\ ~View'.corrupt /\ Balanced(file', torn', durable')
    BY <1>2, CreatedStep
  <2> QED
    BY <1>0, <2>1, <2>2 DEF Disk
<1>3. CASE Migrates
  <2>1. torn' \in BOOLEAN /\ now' = now
    BY <1>3 DEF Migrates
  <2>2. /\ file' \in Seq(HistoryLines) /\ file' # <<>> /\ Shape(file', torn', durable', now')
        /\ ~View'.corrupt /\ (Clean' => Balanced(file', torn', durable'))
        /\ ~Clean' => Blemished(file', torn')
    BY <1>3, MigratedStep
  <2> QED
    BY <1>0, <2>1, <2>2 DEF Disk
<1>4. ASSUME NEW l \in {Junk, NewLine}, Writes(l)
      PROVE  file' \in Seq(HistoryLines) /\ torn' \in BOOLEAN /\ now' \in Nat /\ Disk'
  <2>1. /\ Writable /\ Noted /\ torn' \in BOOLEAN /\ now' = now + 1 /\ durable' = durable
        /\ file' = Written(file, torn, l)
    BY <1>4 DEF Writes
  <2>2. l \in HistoryLines /\ (IsRec(l) => l.at = now + 1)
    BY HistoryLineFacts, NewLineFacts
  <2>3. /\ file' \in Seq(HistoryLines) /\ file' # <<>> /\ Shape(file', torn', durable', now')
        /\ Clean' => ~View'.corrupt /\ Balanced(file', torn', durable')
        /\ ~Clean' => Blemished(file', torn')
    BY <2>1, <2>2, WrittenStep
  <2> QED
    BY <1>0, <2>1, <2>3 DEF Disk
<1>5. CASE SyncsAll
  <2>1. /\ Writable /\ Noted /\ torn' = FALSE /\ now' = now + 1 /\ durable' = durable \union {now + 1}
        /\ file' = Written(file, torn, NewLine)
    BY <1>5 DEF SyncsAll, Syncs
  <2>2. NewLine \in HistoryLines /\ NewLine.at = now + 1 /\ torn' \in BOOLEAN
    BY <2>1, NewLineFacts
  <2>3. /\ file' \in Seq(HistoryLines) /\ file' # <<>> /\ Shape(file', torn', durable', now')
        /\ Clean' => ~View'.corrupt /\ Balanced(file', torn', durable')
        /\ ~Clean' => Blemished(file', torn')
    BY <2>1, <2>2, WrittenStep
  <2> QED
    BY <1>0, <2>1, <2>2, <2>3 DEF Disk
<1>6. CASE Evicts
  <2>1. torn' = FALSE /\ now' = now + 1 /\ torn' \in BOOLEAN
    BY <1>6 DEF Evicts, Syncs
  <2>2. /\ file' \in Seq(HistoryLines) /\ file' # <<>> /\ Shape(file', torn', durable', now')
        /\ Clean' => ~View'.corrupt /\ Balanced(file', torn', durable')
        /\ Blemished(file', torn')
    BY <1>6, EvictedStep
  <2> QED
    BY <1>0, <2>1, <2>2 DEF Disk
<1> QED
  BY <1>0, <1>1, <1>2, <1>3, <1>4, <1>5, <1>6, DiskStep

\* What a scan of the current file returns.
LEMMA ViewFacts ==
  ASSUME HTypeOK, Disk
  PROVE  /\ View.recs \in Seq(HistoryLines) /\ View.inc \in BOOLEAN /\ View.dropped \in Nat
         /\ View.lastSeq \in Nat /\ View.corrupt \in BOOLEAN
<1>1. file \in Seq(HistoryLines) /\ torn \in BOOLEAN /\ Slot(file) # "rec"
  BY DEF HTypeOK, Disk, Shape
<1> QED
  BY <1>1, ScanFacts DEF View

\* A start, in terms of the file it leaves.
LEMMA OpenFacts ==
  ASSUME HTypeOK, Disk, Mirrored, Open
  PROVE  /\ Writable' /\ fileDropped' = View'.dropped
         /\ View'.recs \in Seq(HistoryLines) /\ View'.inc \in BOOLEAN /\ View'.dropped \in Nat
         /\ lastSeq' \in Nat
         /\ \/ tracker' = Recovered(View') /\ settled' = TRUE
            \/ tracker' = Degraded(TRUE, FALSE) /\ settled' = FALSE
<1>1. Next
  BY DEF Next
<1>2. file' \in Seq(HistoryLines) /\ torn' \in BOOLEAN /\ Disk'
  BY <1>1, DiskInvStep
<1>3. Slot(file') # "rec"
  BY <1>2 DEF Disk, Shape
<1>4. /\ View'.recs \in Seq(HistoryLines) /\ View'.inc \in BOOLEAN /\ View'.dropped \in Nat /\ View'.lastSeq \in Nat
  BY <1>2, <1>3, ScanFacts DEF View
<1>5. /\ up' = TRUE /\ openErr' = FALSE /\ fileDropped' = View'.dropped
      /\ \/ tracker' = Recovered(View') /\ settled' = TRUE
         \/ tracker' = Degraded(TRUE, FALSE) /\ settled' = FALSE
  BY DEF Open, View
<1>6. lastSeq' \in {View'.lastSeq} \union {View'.recs[i].seq : i \in DOMAIN View'.recs}
  BY DEF Open, View
<1>7. \A i \in DOMAIN View'.recs : View'.recs[i].seq \in Nat
  BY <1>4, HistoryLineFacts
<1> QED
  BY <1>4, <1>5, <1>6, <1>7 DEF Writable

\* Every step keeps the types.
LEMMA HTypeStep ==
  ASSUME HTypeOK, Disk, Mirrored, Next
  PROVE  HTypeOK'
<1>0. /\ file' \in Seq(HistoryLines) /\ torn' \in BOOLEAN /\ now' \in Nat
  BY DiskInvStep
<1>a. /\ up \in BOOLEAN /\ openErr \in BOOLEAN /\ fileDropped \in Nat /\ lastSeq \in Nat /\ tracker \in Trackers
      /\ View.dropped \in Nat
  BY ViewFacts DEF HTypeOK
<1>b. Degraded(TRUE, FALSE) \in Trackers /\ Degraded(FALSE, TRUE) \in Trackers /\ Degraded(FALSE, FALSE) \in Trackers
  BY DegradedFacts
<1> DEFINE Typed == /\ up' \in BOOLEAN /\ openErr' \in BOOLEAN /\ fileDropped' \in Nat /\ lastSeq' \in Nat
                    /\ tracker' \in Trackers
<1> SUFFICES Typed
  BY <1>0 DEF HTypeOK
<1>c. ASSUME Edge PROVE up' = up /\ openErr' = openErr /\ tracker' \in Trackers
  <2>1. EdgeTaken
    BY <1>c, EdgeEffect
  <2> QED
    BY <1>c, <2>1 DEF Edge, EdgeTaken
<1>1. CASE OpenFails
  BY <1>a, <1>b, <1>1 DEF OpenFails
<1>2. CASE OpenUnreadable
  BY <1>a, <1>b, <1>2 DEF OpenUnreadable
<1>3. CASE OpenCorrupt
  <2>1. /\ up' = TRUE /\ openErr' = FALSE /\ lastSeq' = 0 /\ fileDropped' = 0
        /\ tracker' \in {Degraded(FALSE, TRUE), Degraded(TRUE, FALSE)}
    BY <1>3 DEF OpenCorrupt
  <2> QED
    BY <1>b, <2>1
<1>4. CASE Open
  <2>1. /\ Writable' /\ fileDropped' = View'.dropped /\ View'.recs \in Seq(HistoryLines) /\ View'.inc \in BOOLEAN
        /\ View'.dropped \in Nat /\ lastSeq' \in Nat /\ tracker' \in {Recovered(View'), Degraded(TRUE, FALSE)}
    BY <1>4, OpenFacts
  <2>2. Recovered(View') \in Trackers
    BY <2>1, RecoveredFacts DEF IsRecovered
  <2>3. up' = TRUE /\ openErr' = FALSE
    BY <1>4 DEF Open
  <2> QED
    BY <1>b, <2>1, <2>2, <2>3
<1>5. CASE \E firing \in BOOLEAN : ObserveBaseline(firing)
  <2>1. PICK firing \in BOOLEAN : ObserveBaseline(firing)
    BY <1>5
  <2>2. /\ tracker' = [tracker EXCEPT !.firing = firing, !.historyLoaded = TRUE] /\ up' = up /\ openErr' = openErr
        /\ fileDropped' = fileDropped /\ lastSeq' = lastSeq
    BY <2>1 DEF ObserveBaseline, storeVars
  <2>3. tracker' \in Trackers
    BY <1>a, <2>2, BaselineFacts DEF IsBaseline
  <2> QED
    BY <1>a, <2>2, <2>3
<1>6. CASE ObserveNoEdge
  BY <1>a, <1>6 DEF ObserveNoEdge, vars, storeVars
<1>7. CASE AppendRefused
  BY <1>a, <1>c, <1>7 DEF AppendRefused
<1>8. CASE AppendShort
  BY <1>a, <1>c, <1>8 DEF AppendShort
<1>9. CASE AppendUnsynced
  BY <1>a, <1>c, <1>9 DEF AppendUnsynced
<1>10. CASE AppendSynced
  <2>1. Edge /\ lastSeq' = lastSeq + 1
    BY <1>10 DEF AppendSynced, Watermark
  <2>2. CASE fileDropped' = fileDropped
    BY <1>a, <1>c, <2>1, <2>2
  <2>3. CASE fileDropped' # fileDropped
    <3>1. Evicts
      <4>1. /\ Edge /\ ~openErr /\ torn' = FALSE /\ durable' = durable \union {now + 1} /\ NoteCorrupt
            /\ Len(EvictLines(Written(file, torn, NewLine))) > FileCap
            /\ file' = Evicted(Written(file, torn, NewLine), fileDropped, lastSeq + 1)
            /\ fileDropped' = fileDropped + Len(EvictLines(Written(file, torn, NewLine))) - FileCap
        BY <1>10, <2>3 DEF AppendSynced, Watermark
      <4>2. Noted
        BY <4>1, NotedFacts
      <4>3. up /\ up' = up /\ openErr' = openErr /\ now' = now + 1
        BY <4>1 DEF Edge
      <4> QED
        BY <2>1, <4>1, <4>2, <4>3 DEF Evicts, Syncs, Writable
    <3> QED
      BY <1>a, <1>c, <2>1, <3>1, EvictedStep
  <2> QED
    BY <2>2, <2>3
<1>11. CASE ReadAll
  <2>1. /\ fileDropped' = (IF View.corrupt THEN fileDropped ELSE View.dropped)
        /\ up' = up /\ openErr' = openErr /\ lastSeq' = lastSeq /\ tracker' = tracker
    BY <1>11 DEF ReadAll, Mirror, View
  <2> QED
    BY <1>a, <2>1
<1>12. CASE ReadBefore
  <2>1. /\ fileDropped' = (IF View.corrupt THEN fileDropped ELSE View.dropped)
        /\ up' = up /\ openErr' = openErr /\ lastSeq' = lastSeq /\ tracker' = tracker
    BY <1>12 DEF ReadBefore, Mirror, View
  <2> QED
    BY <1>a, <2>1
<1>13. CASE Crash \/ CrashInAppend
  <2>1. Down
    BY <1>13 DEF Crash, CrashInAppend
  <2>2. up' = FALSE /\ openErr' = FALSE /\ fileDropped' = 0 /\ lastSeq' = 0 /\ tracker' = Degraded(FALSE, FALSE)
    BY <2>1 DEF Down
  <2> QED
    BY <1>b, <2>2
<1> QED
  BY <1>1, <1>2, <1>3, <1>4, <1>5, <1>6, <1>7, <1>8, <1>9, <1>10, <1>11, <1>12, <1>13 DEF Next

\* The mirror follows a write, which moves no count.
LEMMA WriteMirrored ==
  ASSUME HTypeOK, Disk, Mirrored, NEW l \in HistoryLines, Writable, Noted, torn' \in BOOLEAN,
         file' = Written(file, torn, l), fileDropped' = fileDropped
  PROVE  Mirrored'
<1> SUFFICES ASSUME Clean', Counted(file', torn') PROVE fileDropped = View'.dropped
  BY DEF Mirrored
<1>1. /\ file \in Seq(HistoryLines) /\ torn \in BOOLEAN /\ file # <<>> /\ Slot(file) # "rec"
      /\ torn /\ Len(file) > 1 /\ IsRec(file[Len(file)]) => file[Len(file)].at \notin durable
      /\ torn /\ Len(file) = 1 => file[1].dropped = 0 /\ ~file[1].inc
  BY DEF HTypeOK, Disk, Shape
<1>2. Clean /\ ~View.corrupt /\ ~View'.corrupt
  BY DEF Noted, Disk
<1>3. ~Scan(file, torn).corrupt /\ ~Scan(file', torn').corrupt
  BY <1>2 DEF View
<1>k. WriteKept(file', file, torn, l, torn', durable)
  BY <1>1, <1>3, WriteKeeps
<1>4. /\ torn /\ Len(file) = 1 => Scan(file', torn').dropped = 0
      /\ ~(torn /\ Len(file) = 1) => /\ Slot(file') = Slot(file) /\ Scan(file', torn').inc = Scan(file, torn).inc
                                     /\ Scan(file', torn').dropped = Scan(file, torn).dropped
  BY <1>k DEF WriteKept
<1>5. CASE torn /\ Len(file) = 1
  <2>1. /\ Scan(file, torn).inc = IF Slot(file) = "meta" THEN file[1].inc ELSE file # <<>>
        /\ Scan(file, torn).dropped = IF Slot(file) = "meta" /\ ~Scan(file, torn).corrupt THEN file[1].dropped ELSE 0
    BY <1>1, ScanFacts
  <2>2. Slot(file) \in {"meta", "junk"}
    <3>1. file[1] \in HistoryLines
      BY <1>1, <1>5
    <3> QED
      BY <1>1, <3>1, HistoryLineFacts DEF Slot
  <2>3. Counted(file, torn) /\ Scan(file, torn).dropped = 0
    BY <1>1, <1>5, <2>1, <2>2 DEF Counted
  <2>4. fileDropped = 0
    BY <1>2, <2>3 DEF Mirrored, View
  <2> QED
    BY <1>4, <1>5, <2>4 DEF View
<1>6. CASE ~(torn /\ Len(file) = 1)
  <2>1. Counted(file, torn)
    BY <1>4, <1>6 DEF Counted
  <2>2. fileDropped = Scan(file, torn).dropped
    BY <1>2, <2>1 DEF Mirrored, View
  <2> QED
    BY <1>4, <1>6, <2>2 DEF View
<1> QED
  BY <1>5, <1>6

\* A synced append leaves the line behind the file or evicts.
LEMMA SyncStep ==
  ASSUME HTypeOK, AppendSynced
  PROVE  SyncsAll \/ Evicts
<1>1. /\ Edge /\ ~openErr /\ torn' = FALSE /\ durable' = durable \union {now + 1} /\ NoteCorrupt
      /\ lastSeq' = lastSeq + 1
  BY DEF AppendSynced, Watermark
<1>2. Noted /\ up /\ up' = up /\ openErr' = openErr /\ now' = now + 1
  BY <1>1, NotedFacts DEF Edge
<1>3. Syncs
  BY <1>1, <1>2 DEF Syncs, Writable
<1>4. \/ file' = Written(file, torn, NewLine) /\ fileDropped' = fileDropped
      \/ /\ Len(EvictLines(Written(file, torn, NewLine))) > FileCap
         /\ file' = Evicted(Written(file, torn, NewLine), fileDropped, lastSeq + 1)
         /\ fileDropped' = fileDropped + Len(EvictLines(Written(file, torn, NewLine))) - FileCap
  BY DEF AppendSynced, Watermark
<1> QED
  BY <1>3, <1>4 DEF SyncsAll, Evicts

\* Every step keeps the mirror.
LEMMA MirrorStep ==
  ASSUME HTypeOK, Disk, Mirrored, Next
  PROVE  Mirrored'
<1>a. NewLine \in HistoryLines /\ Junk \in HistoryLines
  BY NewLineFacts, HistoryLineFacts
<1>1. CASE OpenFails \/ OpenUnreadable
  BY <1>1 DEF OpenFails, OpenUnreadable, Mirrored, Writable
<1>2. CASE OpenCorrupt
  <2>1. View.corrupt /\ flaws' = flaws
    BY <1>2 DEF OpenCorrupt, View
  <2>2. ~Clean'
    BY <2>1 DEF Disk, Clean
  <2> QED
    BY <2>2 DEF Mirrored
<1>3. CASE Open
  BY <1>3, OpenFacts DEF Mirrored
<1>4. CASE UNCHANGED <<file, torn, flaws, fileDropped, up, openErr>>
  BY <1>4 DEF Mirrored, Clean, Writable, View
<1>5. CASE \E firing \in BOOLEAN : ObserveBaseline(firing)
  BY <1>4, <1>5 DEF ObserveBaseline, diskVars, storeVars
<1>6. CASE ObserveNoEdge
  BY <1>4, <1>6 DEF ObserveNoEdge, vars, diskVars, storeVars, histVars
<1>7. CASE AppendRefused
  BY <1>4, <1>7 DEF AppendRefused, diskVars, Edge
<1>8. CASE AppendShort \/ AppendUnsynced
  <2>1. /\ Edge /\ ~openErr /\ torn' \in BOOLEAN /\ fileDropped' = fileDropped
        /\ file' \in {Written(file, torn, Junk), Written(file, torn, NewLine)}
    BY <1>8 DEF AppendShort, AppendUnsynced
  <2>2. Writable
    BY <2>1 DEF Edge, Writable
  <2>3. Noted
    BY <1>8, NotedFacts DEF AppendShort, AppendUnsynced, Noted, Clean, View
  <2> QED
    BY <1>a, <2>1, <2>2, <2>3, WriteMirrored
<1>9. CASE AppendSynced
  <2>1. CASE SyncsAll
    <3>1. /\ Writable /\ Noted /\ torn' \in BOOLEAN /\ file' = Written(file, torn, NewLine)
          /\ fileDropped' = fileDropped
      BY <2>1 DEF SyncsAll, Syncs
    <3> QED
      BY <1>a, <3>1, WriteMirrored
  <2>2. CASE Evicts
    <3>1. Clean' => ~View'.corrupt
      BY <2>2 DEF Evicts, Syncs, Noted
    <3>2. ~View'.corrupt /\ Counted(file', torn') => fileDropped' = View'.dropped
      BY <2>2, EvictedStep
    <3> QED
      BY <3>1, <3>2 DEF Mirrored
  <2> QED
    BY <1>9, <2>1, <2>2, SyncStep
<1>10. CASE ReadAll \/ ReadBefore
  <2>1. /\ fileDropped' = (IF View.corrupt THEN fileDropped ELSE View.dropped)
        /\ file' = file /\ torn' = torn /\ flaws' = flaws
    BY <1>10 DEF ReadAll, ReadBefore, Mirror, View, diskVars, histVars
  <2>2. Clean' => ~View.corrupt
    BY <2>1 DEF Disk, Clean
  <2>3. View' = View
    BY <2>1 DEF View
  <2> QED
    BY <2>1, <2>2, <2>3 DEF Mirrored
<1>11. CASE Crash \/ CrashInAppend
  BY <1>11 DEF Crash, CrashInAppend, Down, Mirrored, Writable
<1> QED
  BY <1>1, <1>2, <1>3, <1>5, <1>6, <1>7, <1>8, <1>9, <1>10, <1>11 DEF Next

\* The records of a file without blemish have sequence numbers once the store is open.
Sequenced == Writable /\ ~Blemished(file, torn) => \A p \in 2 .. Reach(file, torn) : file[p].seq # 0

\* A start migrates a file whose records have none, and never opens a corrupt one.
LEMMA OpenSequenced ==
  ASSUME HTypeOK, Disk, Mirrored, Open
  PROVE  ~View'.corrupt /\ \A p \in 2 .. Reach(file', torn') : file'[p].seq # 0
<1> DEFINE s0 == Scan(Opened, torn)
<1>1. /\ ~up /\ ~s0.corrupt /\ UNCHANGED <<now, durable, flaws>>
      /\ file' = IF s0.legacy THEN Migrated(s0) ELSE Opened
      /\ torn' = IF s0.legacy THEN FALSE ELSE torn
  BY DEF Open
<1>2. file \in Seq(HistoryLines) /\ torn \in BOOLEAN /\ Slot(file) # "rec"
  BY DEF HTypeOK, Disk, Shape
<1>3. CASE ~s0.legacy
  <2>1. View' = s0 /\ file' = Opened /\ torn' = torn
    BY <1>1, <1>3 DEF View
  <2>2. file' \in Seq(HistoryLines) /\ Disk'
    BY DiskInvStep DEF Next
  <2>3. Slot(file') # "rec" /\ torn' \in BOOLEAN
    BY <1>2, <2>1, <2>2 DEF Disk, Shape
  <2>4. /\ Scan(file', torn').legacy <=> \E i \in 1 .. Len(Scan(file', torn').recs) : Scan(file', torn').recs[i].seq = 0
        /\ \A i \in 1 .. Len(Scan(file', torn').recs) : Scan(file', torn').recs[i] = file'[i + 1]
        /\ Len(Scan(file', torn').recs) = IF file' = <<>> \/ Scan(file', torn').corrupt THEN 0 ELSE Reach(file', torn') - 1
    BY <2>2, <2>3, ScanFacts
  <2>5. ~Scan(file', torn').corrupt /\ ~Scan(file', torn').legacy
    BY <1>1, <1>3, <2>1
  <2>6. file' # <<>>
    BY <2>1 DEF Opened
  <2>7. Reach(file', torn') \in Int
    BY <2>2, LenProperties DEF Reach
  <2>8. ASSUME NEW p \in 2 .. Reach(file', torn') PROVE file'[p].seq # 0
    <3>1. p - 1 \in 1 .. Len(Scan(file', torn').recs) /\ p - 1 + 1 = p
      BY <2>4, <2>5, <2>6, <2>7
    <3>2. Scan(file', torn').recs[p - 1].seq # 0
      BY <2>4, <2>5, <3>1
    <3>3. Scan(file', torn').recs[p - 1] = file'[p - 1 + 1]
      BY <2>4, <3>1
    <3> QED
      BY <3>1, <3>2, <3>3
  <2> QED
    BY <1>1, <2>1, <2>8
<1>4. CASE s0.legacy
  <2>1. file # <<>>
    <3> SUFFICES ASSUME file = <<>> PROVE FALSE
      OBVIOUS
    <3> DEFINE o == MetaLine(0, 0, FALSE)
    <3>1. o \in HistoryLines /\ o.kind = "meta"
      BY MetaLineFacts
    <3>2. Opened = <<o>>
      BY DEF Opened
    <3> HIDE DEF o
    <3>3. <<o>> \in Seq(HistoryLines) /\ Len(<<o>>) = 1 /\ <<o>>[1] = o /\ <<o>> # <<>>
      BY <3>1
    <3>4. Slot(<<o>>) # "rec"
      BY <3>1, <3>3 DEF Slot
    <3>5. Reach(<<o>>, torn) = 1
      BY <3>3 DEF Reach
    <3>6. /\ Len(Scan(<<o>>, torn).recs) = IF <<o>> = <<>> \/ Scan(<<o>>, torn).corrupt THEN 0 ELSE Reach(<<o>>, torn) - 1
          /\ Scan(<<o>>, torn).legacy <=> \E i \in 1 .. Len(Scan(<<o>>, torn).recs) : Scan(<<o>>, torn).recs[i].seq = 0
      BY <1>2, <3>3, <3>4, ScanFacts, ZenonT(40)
    <3>7. ~Scan(<<o>>, torn).legacy
      BY <3>5, <3>6
    <3> QED
      BY <1>4, <3>2, <3>7
  <2>2. s0 = View
    BY <2>1 DEF Opened, View
  <2>3. Migrates
    BY <1>1, <1>4, <2>1, <2>2 DEF Migrates, Writable
  <2>4. /\ ~View'.corrupt /\ file' \in Seq(HistoryLines)
        /\ \A p \in 2 .. Len(file') : file'[p].seq # 0
    BY <2>3, MigratedStep
  <2>5. torn' = FALSE
    BY <1>1, <1>4
  <2>6. Reach(file', torn') = Len(file')
    BY <2>5 DEF Reach
  <2> QED
    BY <2>4, <2>6
<1> QED
  BY <1>3, <1>4

\* A write to a file without blemish has a sequence number.
LEMMA WriteSequenced ==
  ASSUME HTypeOK, Disk, Sequenced, NEW l \in HistoryLines, Writable, torn' \in BOOLEAN,
         file' = Written(file, torn, l), IsRec(l) => l.seq # 0
  PROVE  Sequenced'
<1> SUFFICES ASSUME ~Blemished(file', torn'), NEW p \in 2 .. Reach(file', torn') PROVE file'[p].seq # 0
  BY DEF Sequenced
<1>1. file \in Seq(HistoryLines) /\ torn \in BOOLEAN /\ file # <<>> /\ Slot(file) # "rec"
  BY DEF HTypeOK, Disk, Shape
<1>2. ~Blemished(file, torn)
  BY <1>1, BlemishStays
<1>3. IsWritten(file', file, torn, l)
  BY <1>1, WrittenFacts
<1>4. Len(file) \in Nat /\ Len(file) > 0 /\ file' \in Seq(HistoryLines) /\ Len(file') \in Nat
  BY <1>1, <1>3, LenProperties, EmptySeq DEF IsWritten
<1>5. Slot(file') # "rec"
  BY <1>1, <1>3 DEF IsWritten
<1>6. IsRec(file'[p])
  BY <1>4, <1>5, ScanFacts DEF Blemished
<1>7. Reach(file', torn') <= Len(file') /\ Reach(file', torn') \in Nat
  BY <1>4 DEF Reach
<1>8. CASE torn
  <2>1. Len(file') = Len(file) /\ file'[Len(file)] = Junk /\ \A i \in 1 .. Len(file) - 1 : file'[i] = file[i]
    BY <1>3, <1>8 DEF IsWritten
  <2>2. p # Len(file)
    BY <1>6, <2>1, HistoryLineFacts
  <2>3. p \in 1 .. Len(file) - 1
    BY <1>4, <1>7, <2>1, <2>2
  <2>4. p \in 2 .. Reach(file, torn)
    BY <1>4, <2>3 DEF Reach
  <2> QED
    BY <1>2, <2>1, <2>3, <2>4 DEF Sequenced
<1>9. CASE ~torn
  <2>1. Len(file') = Len(file) + 1 /\ file'[Len(file) + 1] = l /\ \A i \in 1 .. Len(file) : file'[i] = file[i]
    BY <1>3, <1>9 DEF IsWritten
  <2>2. CASE p = Len(file) + 1
    BY <1>6, <2>1, <2>2
  <2>3. CASE p # Len(file) + 1
    <3>1. p \in 1 .. Len(file)
      BY <1>4, <1>7, <2>1, <2>3
    <3>2. p \in 2 .. Reach(file, torn)
      BY <1>4, <1>9, <3>1 DEF Reach
    <3> QED
      BY <1>2, <2>1, <3>1, <3>2 DEF Sequenced
  <2> QED
    BY <2>2, <2>3
<1> QED
  BY <1>8, <1>9

\* Every step keeps the records sequenced.
LEMMA SequencedStep ==
  ASSUME HTypeOK, Disk, Mirrored, Sequenced, Next
  PROVE  Sequenced'
<1>a. /\ NewLine \in HistoryLines /\ Junk \in HistoryLines
      /\ IsRec(NewLine) => NewLine.seq # 0
      /\ IsRec(Junk) => Junk.seq # 0
  <2>1. NewLine \in HistoryLines /\ NewLine.seq = lastSeq + 1 /\ lastSeq \in Nat
    BY NewLineFacts DEF HTypeOK
  <2> QED
    BY <2>1, HistoryLineFacts
<1>1. CASE OpenFails \/ OpenUnreadable
  BY <1>1 DEF OpenFails, OpenUnreadable, Sequenced, Writable
<1>2. CASE OpenCorrupt
  <2>1. View.corrupt /\ file' = file /\ torn' = torn
    BY <1>2 DEF OpenCorrupt, View, diskVars
  <2> QED
    BY <2>1 DEF Sequenced, Blemished, View
<1>3. CASE Open
  BY <1>3, OpenSequenced DEF Sequenced
<1>4. CASE UNCHANGED <<file, torn, up, openErr>>
  BY <1>4 DEF Sequenced, Writable
<1>5. CASE \E firing \in BOOLEAN : ObserveBaseline(firing)
  BY <1>4, <1>5 DEF ObserveBaseline, diskVars, storeVars
<1>6. CASE ObserveNoEdge
  BY <1>4, <1>6 DEF ObserveNoEdge, vars, diskVars, storeVars
<1>7. CASE AppendRefused
  BY <1>4, <1>7 DEF AppendRefused, diskVars, Edge
<1>8. CASE AppendShort \/ AppendUnsynced
  <2>1. /\ Edge /\ ~openErr /\ torn' \in BOOLEAN
        /\ file' \in {Written(file, torn, Junk), Written(file, torn, NewLine)}
    BY <1>8 DEF AppendShort, AppendUnsynced
  <2>2. Writable
    BY <2>1 DEF Edge, Writable
  <2> QED
    BY <1>a, <2>1, <2>2, WriteSequenced
<1>9. CASE AppendSynced
  <2>1. CASE SyncsAll
    <3>1. Writable /\ torn' \in BOOLEAN /\ file' = Written(file, torn, NewLine)
      BY <2>1 DEF SyncsAll, Syncs
    <3> QED
      BY <1>a, <3>1, WriteSequenced
  <2>2. CASE Evicts
    BY <2>2, EvictedStep DEF Sequenced
  <2> QED
    BY <1>9, <2>1, <2>2, SyncStep
<1>10. CASE ReadAll \/ ReadBefore
  BY <1>4, <1>10 DEF ReadAll, ReadBefore, diskVars
<1>11. CASE Crash \/ CrashInAppend
  BY <1>11 DEF Crash, CrashInAppend, Down, Sequenced, Writable
<1> QED
  BY <1>1, <1>2, <1>3, <1>5, <1>6, <1>7, <1>8, <1>9, <1>10, <1>11 DEF Next

\* A file without blemish holds every synced record.
LEMMA ViewComplete ==
  ASSUME HTypeOK, Disk, ~Blemished(file, torn)
  PROVE  durable \subseteq Times(View.recs)
<1>1. /\ file \in Seq(HistoryLines) /\ torn \in BOOLEAN /\ Slot(file) # "rec" /\ durable \subseteq 1 .. now
      /\ now \in Nat /\ (file = <<>> => durable = {})
  BY DEF HTypeOK, Disk, Shape
<1>2. Clean /\ Balanced(file, torn, durable)
  BY DEF Disk
<1>3. ~Scan(file, torn).inc /\ Scan(file, torn).dropped = 0
  <2>1. Scan(file, torn).dropped \in Nat
    BY <1>1, ScanFacts
  <2> QED
    BY <2>1 DEF Blemished
<1>4. CASE file = <<>>
  BY <1>1, <1>4
<1>5. CASE file # <<>>
  <2>1. Slot(file) = "meta"
    <3>1. Scan(file, torn).inc = IF Slot(file) = "meta" THEN file[1].inc ELSE file # <<>>
      BY <1>1, ScanFacts
    <3> QED
      BY <1>3, <1>5, <3>1
  <2>2. Counted(file, torn) /\ SlotLoss(file) = 0
    BY <1>3, <2>1 DEF Counted, SlotLoss
  <2>3. Cardinality(Lost(file, torn, durable)) <= 0
    BY <1>2, <1>3, <2>2 DEF Balanced
  <2>4. IsFiniteSet(Lost(file, torn, durable)) /\ Cardinality(Lost(file, torn, durable)) \in Nat
    <3>1. Lost(file, torn, durable) \in SUBSET durable
      BY DEF Lost
    <3> QED
      BY <1>1, <3>1, FewerLost
  <2>5. Cardinality(Lost(file, torn, durable)) = 0
    BY <2>3, <2>4
  <2>6. Lost(file, torn, durable) = {}
    BY <2>4, <2>5, FS_EmptySet
  <2> QED
    BY <2>6 DEF Lost, View
<1> QED
  BY <1>4, <1>5

\* A ring that calls itself complete, and is not full, shows every synced record.
Claims ==
  /\ tracker.historyLoaded /\ ~tracker.loadError /\ ~tracker.historyCorrupt /\ ~tracker.metaInconsistent
  /\ tracker.historyDropped = 0 /\ tracker.fileDropped = 0 /\ Len(tracker.transitions) < RingCap
RingTimes == {tracker.transitions[i] : i \in 1 .. Len(tracker.transitions)}
Ringed ==
  up => /\ tracker.historyLoaded \/ tracker.loadError \/ tracker.historyCorrupt
        /\ Claims => durable \subseteq RingTimes

\* An edge reaches the ring, or the ring says that it dropped one.
LEMMA EdgeRinged ==
  ASSUME HTypeOK, Ringed, Edge, durable' \subseteq durable \union {now + 1}
  PROVE  Ringed'
<1> DEFINE q == tracker.transitions
           r == Push(q).ring
<1>1. EdgeTaken /\ up
  BY EdgeEffect DEF Edge
<1>2. tracker \in Trackers /\ now \in Nat /\ RingCap \in Nat
  BY TransitionConstants DEF HTypeOK
<1>3. q \in Seq(Nat) /\ tracker.historyDropped \in Nat
  BY <1>2, TrackerFacts
<1>4. /\ Push(q).drop \in {0, 1} /\ r \in Seq(Nat)
      /\ Len(q) >= RingCap => Push(q).drop = 1
      /\ ~(Len(q) >= RingCap) => r = Append(q, now + 1)
  BY <1>2, <1>3, PushFacts
<1>5. /\ tracker'.historyLoaded = tracker.historyLoaded /\ tracker'.loadError = tracker.loadError
      /\ tracker'.historyCorrupt = tracker.historyCorrupt /\ tracker'.metaInconsistent = tracker.metaInconsistent
      /\ tracker'.fileDropped = tracker.fileDropped /\ tracker'.transitions = r
      /\ tracker'.historyDropped = tracker.historyDropped + Push(q).drop
  BY <1>1 DEF EdgeTaken
<1> HIDE DEF q, r
<1>6. ASSUME Claims' PROVE durable' \subseteq RingTimes'
  <2>1. tracker.historyDropped = 0 /\ Push(q).drop = 0
    BY <1>3, <1>4, <1>5, <1>6 DEF Claims
  <2>2. ~(Len(q) >= RingCap) /\ r = Append(q, now + 1)
    BY <1>4, <2>1
  <2>3. Len(q) \in Nat
    BY <1>3, LenProperties
  <2>4. Len(q) < RingCap
    BY <1>2, <2>2, <2>3
  <2>5. Claims
    BY <1>5, <1>6, <2>1, <2>4 DEF Claims, q
  <2>6. durable \subseteq RingTimes
    BY <1>1, <2>5 DEF Ringed
  <2>7. Len(r) = Len(q) + 1 /\ r[Len(q) + 1] = now + 1 /\ \A i \in 1 .. Len(q) : r[i] = q[i]
    BY <1>2, <1>3, <2>2, AppendProperties
  <2>8. Len(q) + 1 \in 1 .. Len(r) /\ \A i \in 1 .. Len(q) : i \in 1 .. Len(r)
    BY <2>3, <2>7
  <2>9. RingTimes' = {r[i] : i \in 1 .. Len(r)} /\ RingTimes = {q[i] : i \in 1 .. Len(q)}
    BY <1>5 DEF RingTimes, q
  <2> QED
    BY <2>6, <2>7, <2>8, <2>9
<1> QED
  BY <1>1, <1>5, <1>6 DEF Ringed

\* Every step keeps the claim of the ring.
LEMMA RingedStep ==
  ASSUME HTypeOK, Disk, Mirrored, Ringed, Next
  PROVE  Ringed'
<1>a. /\ Degraded(TRUE, FALSE).loadError /\ Degraded(FALSE, TRUE).historyCorrupt
      /\ ~Degraded(TRUE, FALSE).historyLoaded /\ ~Degraded(FALSE, TRUE).historyLoaded
  BY DegradedFacts
<1>b. CASE tracker' \in {Degraded(TRUE, FALSE), Degraded(FALSE, TRUE)}
  BY <1>a, <1>b DEF Ringed, Claims
<1>1. CASE OpenFails \/ OpenUnreadable \/ OpenCorrupt
  BY <1>b, <1>1 DEF OpenFails, OpenUnreadable, OpenCorrupt
<1>3. CASE Open
  <2>1. /\ View'.recs \in Seq(HistoryLines) /\ View'.inc \in BOOLEAN /\ View'.dropped \in Nat
        /\ tracker' \in {Recovered(View'), Degraded(TRUE, FALSE)}
    BY <1>3, OpenFacts
  <2>2. CASE tracker' = Recovered(View')
    <3>1. /\ tracker'.historyLoaded /\ tracker'.metaInconsistent = View'.inc
          /\ tracker'.fileDropped = View'.dropped
          /\ Len(tracker'.transitions) < RingCap => Times(View'.recs) \subseteq RingTimes'
      <4> DEFINE s == View'
                 x == tracker'
      <4>1. s.recs \in Seq(HistoryLines) /\ s.inc \in BOOLEAN /\ s.dropped \in Nat /\ x = Recovered(s)
        BY <2>1, <2>2
      <4>2. RingTimes' = {x.transitions[i] : i \in 1 .. Len(x.transitions)}
        BY DEF RingTimes
      <4> HIDE DEF s, x
      <4>3. IsRecovered(x, s)
        BY <4>1, RecoveredFacts
      <4>4. /\ x.historyLoaded /\ x.metaInconsistent = s.inc /\ x.fileDropped = s.dropped
            /\ Len(x.transitions) < RingCap => Times(s.recs) \subseteq RingTimes'
        BY <4>2, <4>3 DEF IsRecovered
      <4> QED
        BY <4>4 DEF s, x
    <3>2. ~View'.corrupt
      BY <1>3, OpenSequenced
    <3>3. HTypeOK' /\ Disk'
      BY HTypeStep, DiskInvStep
    <3>4. ASSUME Claims' PROVE durable' \subseteq RingTimes'
      <4>1. ~View'.inc /\ View'.dropped = 0 /\ Len(tracker'.transitions) < RingCap
        BY <3>1, <3>4 DEF Claims
      <4>2. ~Blemished(file, torn)'
        BY <3>2, <4>1 DEF Blemished, View
      <4>3. (durable \subseteq Times(View.recs))'
        BY <3>3, <4>2, ViewComplete, PTL
      <4> QED
        BY <3>1, <4>1, <4>3
    <3> QED
      BY <3>1, <3>4 DEF Ringed
  <2> QED
    BY <1>b, <2>1, <2>2
<1>4. CASE tracker' = tracker /\ up' = up /\ durable' = durable
  BY <1>4 DEF Ringed, Claims, RingTimes
<1>5. CASE \E firing \in BOOLEAN : ObserveBaseline(firing)
  <2>1. PICK firing \in BOOLEAN : ObserveBaseline(firing)
    BY <1>5
  <2>2. /\ tracker' = [tracker EXCEPT !.firing = firing, !.historyLoaded = TRUE] /\ up /\ ~tracker.historyLoaded
        /\ tracker \in Trackers
    BY <2>1 DEF ObserveBaseline, HTypeOK
  <2>3. tracker'.loadError = tracker.loadError /\ tracker'.historyCorrupt = tracker.historyCorrupt
    <3> DEFINE y == tracker'
    <3>1. y = [tracker EXCEPT !.firing = firing, !.historyLoaded = TRUE] /\ tracker \in Trackers
      BY <2>2
    <3> HIDE DEF y
    <3>2. IsBaseline(y, tracker)
      BY <3>1, BaselineFacts
    <3> QED
      BY <3>2 DEF y, IsBaseline
  <2>4. tracker.loadError \/ tracker.historyCorrupt
    BY <2>2 DEF Ringed
  <2>5. tracker'.loadError \/ tracker'.historyCorrupt
    BY <2>3, <2>4
  <2> QED
    BY <2>5 DEF Ringed, Claims
<1>6. CASE ObserveNoEdge
  BY <1>4, <1>6 DEF ObserveNoEdge, vars, histVars
<1>7. CASE AppendRefused \/ AppendShort \/ AppendUnsynced
  <2>1. Edge /\ durable' = durable
    BY <1>7 DEF AppendRefused, AppendShort, AppendUnsynced
  <2> QED
    BY <2>1, EdgeRinged
<1>9. CASE AppendSynced
  <2>1. Edge /\ durable' = durable \union {now + 1}
    BY <1>9 DEF AppendSynced
  <2> QED
    BY <2>1, EdgeRinged
<1>10. CASE ReadAll \/ ReadBefore
  BY <1>4, <1>10 DEF ReadAll, ReadBefore, histVars
<1>11. CASE Crash \/ CrashInAppend
  BY <1>11 DEF Crash, CrashInAppend, Down, Ringed
<1> QED
  BY <1>1, <1>3, <1>5, <1>6, <1>7, <1>9, <1>10, <1>11 DEF Next

\* A synced record is the last line a scan of a sound file finds.
LEMMA SyncedLast ==
  ASSUME HTypeOK, Disk, Mirrored, AppendSynced, ~View'.corrupt, ~View'.inc
  PROVE  View'.recs # <<>> /\ View'.recs[Len(View'.recs)] = NewLine
<1> DEFINE w == Written(file, torn, NewLine)
<1>0. Writable /\ torn' = FALSE
  BY DEF AppendSynced, Edge, Writable
<1>1. /\ file \in Seq(HistoryLines) /\ torn \in BOOLEAN /\ file # <<>> /\ Slot(file) # "rec"
      /\ FileCap \in Nat /\ FileCap > 0 /\ fileDropped \in Nat /\ lastSeq + 1 \in Nat
  BY <1>0, TransitionConstants DEF HTypeOK, Disk, Shape
<1>2. NewLine \in HistoryLines /\ IsRec(NewLine)
  BY NewLineFacts
<1>3. IsWritten(w, file, torn, NewLine)
  BY <1>1, <1>2, WrittenFacts
<1>4. /\ w \in Seq(HistoryLines) /\ w # <<>> /\ w[Len(w)] \in {Junk, NewLine} /\ Slot(w) # "rec"
  BY <1>1, <1>3 DEF IsWritten
<1>5. file' \in Seq(HistoryLines) /\ file' # <<>> /\ file'[Len(file')] \in {Junk, NewLine} /\ Slot(file') # "rec"
  <2>1. CASE SyncsAll
    BY <1>4, <2>1 DEF SyncsAll
  <2>2. CASE Evicts
    <3> HIDE DEF w
    <3>1. file' = Evicted(w, fileDropped, lastSeq + 1) /\ Len(EvictLines(w)) > FileCap
      BY <2>2 DEF Evicts, w
    <3>2. IsEvicted(file', w, fileDropped)
      BY <1>1, <1>4, <3>1, EvictedFacts
    <3>3. /\ file' \in Seq(HistoryLines) /\ Len(file') = FileCap + 1 /\ Slot(file') = "meta"
          /\ \A j \in 1 .. FileCap : file'[j + 1] = w[Len(w) - FileCap + j]
      BY <3>2 DEF IsEvicted
    <3>4. FileCap \in 1 .. FileCap /\ Len(w) - FileCap + FileCap = Len(w)
      BY <1>1, <1>4, LenProperties
    <3>5. file'[FileCap + 1] = w[Len(w) - FileCap + FileCap]
      BY <3>3, <3>4
    <3>6. file' # <<>>
      BY <1>1, <3>3, EmptySeq
    <3> QED
      BY <1>4, <3>3, <3>4, <3>5, <3>6
  <2> QED
    BY <2>1, <2>2, SyncStep
<1>6. /\ ~Scan(file', FALSE).corrupt /\ ~Scan(file', FALSE).inc /\ View' = Scan(file', FALSE)
      /\ Reach(file', FALSE) = Len(file')
  BY <1>0 DEF View, Reach
<1>7. /\ Scan(file', FALSE).corrupt <=> \E i \in 2 .. Reach(file', FALSE) : ~IsRec(file'[i])
      /\ Scan(file', FALSE).inc = (IF Slot(file') = "meta" THEN file'[1].inc ELSE file' # <<>>)
      /\ Len(Scan(file', FALSE).recs) = (IF file' = <<>> \/ Scan(file', FALSE).corrupt THEN 0 ELSE Reach(file', FALSE) - 1)
      /\ \A i \in 1 .. Len(Scan(file', FALSE).recs) : Scan(file', FALSE).recs[i] = file'[i + 1]
      /\ Scan(file', FALSE).recs \in Seq(HistoryLines)
  BY <1>5, ScanFacts
<1>8. Slot(file') = "meta"
  BY <1>5, <1>6, <1>7
<1>9. Len(file') \in Nat /\ Len(file') > 0
  BY <1>5, LenProperties, EmptySeq
<1>10. Len(file') > 1
  <2>1. file'[1].kind = "meta"
    BY <1>5, <1>8 DEF Slot
  <2>2. file'[Len(file')].kind # "meta"
    BY <1>2, <1>5, HistoryLineFacts DEF IsRec
  <2>3. Len(file') # 1
    BY <2>1, <2>2
  <2>4. \A k \in Nat : k > 0 /\ k # 1 => k > 1
    OBVIOUS
  <2> QED
    BY <1>9, <2>3, <2>4
<1>11. file'[Len(file')] = NewLine
  <2>1. Len(file') \in 2 .. Reach(file', FALSE)
    <3>1. \A k \in Nat : k > 1 => k \in 2 .. k
      OBVIOUS
    <3>2. Len(file') \in 2 .. Len(file')
      BY <1>9, <1>10, <3>1
    <3> QED
      BY <1>6, <3>2
  <2>2. IsRec(file'[Len(file')])
    BY <1>6, <1>7, <2>1
  <2> QED
    BY <1>5, <2>2, HistoryLineFacts
<1> DEFINE r == View'.recs
<1>12. Len(r) = Len(file') - 1 /\ r \in Seq(HistoryLines) /\ \A i \in 1 .. Len(r) : r[i] = file'[i + 1]
  BY <1>5, <1>6, <1>7
<1> HIDE DEF r
<1>13. Len(r) \in 1 .. Len(r) /\ Len(r) + 1 = Len(file')
  BY <1>9, <1>10, <1>12
<1>14. r # <<>> /\ r[Len(r)] = NewLine
  BY <1>11, <1>12, <1>13, EmptySeq
<1> QED
  BY <1>14 DEF r

\* The last record of the file is what the tracker holds.
LEMMA FiringStep ==
  ASSUME HTypeOK, Disk, Mirrored, FiringReconstructed, Next
  PROVE  FiringReconstructed'
<1>1. CASE settled' = FALSE
  BY <1>1 DEF FiringReconstructed
<1>2. CASE Open
  <2>1. \/ tracker' = Recovered(View') /\ settled' = TRUE
        \/ settled' = FALSE
    BY <1>2, OpenFacts
  <2> QED
    BY <1>1, <2>1 DEF FiringReconstructed
<1>3. CASE UNCHANGED <<file, torn, up, settled, tracker>>
  BY <1>3 DEF FiringReconstructed, View
<1>4. CASE AppendSynced
  <2> SUFFICES ASSUME ~View'.corrupt, ~View'.inc PROVE Recovered(View').firing = tracker'.firing
    BY DEF FiringReconstructed
  <2>1. View'.recs # <<>> /\ View'.recs[Len(View'.recs)] = NewLine
    BY <1>4, SyncedLast
  <2>2. NewLine.to = ~tracker.firing
    BY NewLineFacts
  <2>3. tracker'.firing = ~tracker.firing
    BY <1>4, EdgeEffect DEF AppendSynced, EdgeTaken
  <2>4. Recovered(View').firing = (View'.recs # <<>> /\ View'.recs[Len(View'.recs)].to)
    BY DEF Recovered
  <2> QED
    BY <2>1, <2>2, <2>3, <2>4
<1>5. CASE ObserveNoEdge \/ ReadAll \/ ReadBefore
  BY <1>3, <1>5 DEF ObserveNoEdge, ReadAll, ReadBefore, vars, diskVars, histVars
<1> QED
  BY <1>1, <1>2, <1>4, <1>5
  DEF Next, OpenFails, OpenUnreadable, OpenCorrupt, ObserveBaseline, AppendRefused, AppendShort, AppendUnsynced,
      Crash, CrashInAppend, Down

-----------------------------------------------------------------------------
(* What the reads answer.                                                  *)

Backwards(r) == [i \in 1 .. Len(r) |-> r[Len(r) - i + 1].at]

\* Newest first, the records are the same.
LEMMA BackwardsShows ==
  ASSUME NEW r \in Seq(HistoryLines)
  PROVE  {Backwards(r)[i] : i \in DOMAIN Backwards(r)} = Times(r) /\ Backwards(r) \in Seq(Nat) /\ Len(Backwards(r)) = Len(r)
<1> DEFINE n == Len(r)
<1>1. n \in Nat /\ DOMAIN r = 1 .. n /\ \A i \in 1 .. n : r[i].at \in Nat
  BY LenProperties, HistoryLineFacts
<1>2. DOMAIN Backwards(r) = 1 .. n /\ \A i \in 1 .. n : Backwards(r)[i] = r[n - i + 1].at
  BY DEF Backwards
<1> HIDE DEF n
<1>3. \A i \in 1 .. n : n - i + 1 \in 1 .. n /\ n - (n - i + 1) + 1 = i
  BY <1>1
<1>4. Backwards(r) \in [1 .. n -> Nat]
  BY <1>1, <1>3 DEF Backwards, n
<1>5. Backwards(r) \in Seq(Nat) /\ Len(Backwards(r)) = n
  BY <1>1, <1>2, <1>4
<1>6. {Backwards(r)[i] : i \in 1 .. n} = {r[i].at : i \in 1 .. n}
  <2>1. ASSUME NEW i \in 1 .. n PROVE Backwards(r)[i] \in {r[j].at : j \in 1 .. n}
    BY <1>2, <1>3
  <2>2. ASSUME NEW i \in 1 .. n PROVE r[i].at \in {Backwards(r)[j] : j \in 1 .. n}
    <3>1. n - i + 1 \in 1 .. n /\ Backwards(r)[n - i + 1] = r[n - (n - i + 1) + 1].at
      BY <1>2, <1>3
    <3> QED
      BY <1>3, <3>1
  <2> QED
    BY <2>1, <2>2
<1> QED
  BY <1>1, <1>2, <1>5, <1>6 DEF Times, n

\* A page as large as the history is the whole history.
LEMMA PageWhole ==
  ASSUME NEW r \in Seq(HistoryLines), NEW n \in Nat, n >= Len(r)
  PROVE  Page(r, Len(r), n).times = Backwards(r)
<1>1. Len(r) \in Nat
  BY LenProperties
<1>2. ~(Len(r) > n) /\ Len(r) - 0 = Len(r)
  BY <1>1
<1>3. Page(r, Len(r), n) = [times |-> [i \in 1 .. (Len(r) - 0) |-> r[Len(r) - i + 1].at],
                            next  |-> IF 0 > 0 THEN r[0 + 1].seq ELSE 0]
  BY <1>2 DEF Page
<1> QED
  BY <1>2, <1>3 DEF Backwards

\* A page without a next one is as large as the history.
LEMMA PageLast ==
  ASSUME NEW r \in Seq(HistoryLines), NEW n \in Nat \ {0}, \A i \in 1 .. Len(r) : r[i].seq # 0,
         Page(r, Len(r), n).next = 0
  PROVE  n >= Len(r)
<1>1. Len(r) \in Nat
  BY LenProperties
<1> SUFFICES ASSUME Len(r) > n PROVE FALSE
  BY <1>1
<1> DEFINE b == Len(r) - n
<1>2. b > 0 /\ b + 1 \in 1 .. Len(r)
  BY <1>1
<1>3. Page(r, Len(r), n) = [times |-> [i \in 1 .. (Len(r) - b) |-> r[Len(r) - i + 1].at],
                            next  |-> IF b > 0 THEN r[b + 1].seq ELSE 0]
  BY DEF Page
<1> HIDE DEF b
<1>4. Page(r, Len(r), n).next = r[b + 1].seq
  BY <1>2, <1>3
<1> QED
  BY <1>2, <1>4

\* The limit a read is given stays positive, and the ring's capacity is below the others.
LEMMA EffectiveFacts ==
  /\ \A limit \in Nat \ {0} : Effective(limit) \in Nat \ {0}
  /\ Effective(RingCap) = RingCap
<1>1. MaxLimit \in Nat \ {0} /\ FileCap \in Nat \ {0} /\ RingCap \in Nat \ {0} /\ RingCap <= MaxLimit /\ RingCap <= FileCap
  BY TransitionConstants, ReadConstants
<1>2. ASSUME NEW limit \in Nat \ {0}
      PROVE  /\ Effective(limit) \in {limit, MaxLimit, FileCap}
             /\ \A x \in {limit, MaxLimit, FileCap} : Effective(limit) <= x
  <2>1. \E n \in {limit, MaxLimit, FileCap} : \A x \in {limit, MaxLimit, FileCap} : n <= x
    <3>1. CASE limit <= MaxLimit /\ limit <= FileCap
      BY <1>1, <3>1
    <3>2. CASE MaxLimit <= limit /\ MaxLimit <= FileCap
      BY <1>1, <3>2
    <3>3. CASE FileCap <= limit /\ FileCap <= MaxLimit
      BY <1>1, <3>3
    <3> QED
      BY <1>1, <3>1, <3>2, <3>3
  <2> QED
    BY <2>1 DEF Effective
<1>3. \A limit \in Nat \ {0} : Effective(limit) \in Nat \ {0}
  BY <1>1, <1>2
<1>4. Effective(RingCap) = RingCap
  BY <1>1, <1>2
<1> QED
  BY <1>3, <1>4

\* The consumer of a CSV export has the records, the stats and the status of the read.
LEMMA CSVFacts ==
  ASSUME NEW s, s.recs \in Seq(HistoryLines), NEW c, c = Consumed(SerializeCSV(s))
  PROVE  c.records = Backwards(s.recs) /\ c.stats = ExportStats(s) /\ c.status = ReadStatus(s)
<1> DEFINE r == s.recs
           e == Len(r)
           times == Page(r, Len(r), Len(r)).times
           data == [i \in DOMAIN times |-> [meta |-> FALSE, value |-> times[i]]]
           m1 == [meta |-> TRUE, value |-> ExportStats(s)]
           m2 == [meta |-> TRUE, value |-> ReadStatus(s)]
           S == {[meta |-> FALSE, value |-> n] : n \in Nat} \union {m1, m2}
           rows == data \o <<m1, m2>>
<1>1. e \in Nat
  BY LenProperties
<1>2. times = Backwards(r)
  BY <1>1, PageWhole
<1> HIDE DEF times
<1>3. times \in Seq(Nat) /\ Len(times) = e
  BY <1>2, BackwardsShows
<1>4. DOMAIN times = 1 .. e /\ \A i \in 1 .. e : times[i] \in Nat
  BY <1>3
<1> HIDE DEF r, e
<1>5. data \in Seq(S) /\ Len(data) = e /\ \A i \in 1 .. e : data[i] = [meta |-> FALSE, value |-> times[i]]
  <2>1. \A i \in 1 .. e : [meta |-> FALSE, value |-> times[i]] \in S
    BY <1>4
  <2> HIDE DEF S
  <2>2. data \in [1 .. e -> S]
    BY <1>4, <2>1
  <2> QED
    BY <1>1, <1>4, <2>2
<1>6. <<m1, m2>> \in Seq(S) /\ Len(<<m1, m2>>) = 2 /\ <<m1, m2>>[1] = m1 /\ <<m1, m2>>[2] = m2
  <2>1. m1 \in S /\ m2 \in S
    OBVIOUS
  <2> HIDE DEF m1, m2, S
  <2> QED
    BY <2>1
<1>7. SerializeCSV(s) = rows
  BY DEF SerializeCSV, r, times
<1> HIDE DEF data, S
<1>8. /\ rows \in Seq(S) /\ Len(rows) = e + 2
      /\ \A i \in 1 .. e : rows[i] = data[i]
      /\ rows[e + 1] = m1 /\ rows[e + 2] = m2
  <2> DEFINE tl == <<m1, m2>>
  <2>1. tl \in Seq(S) /\ Len(tl) = 2 /\ tl[1] = m1 /\ tl[2] = m2
    BY <1>6
  <2> HIDE DEF tl, m1, m2
  <2>2. /\ data \o tl \in Seq(S) /\ Len(data \o tl) = Len(data) + Len(tl)
        /\ \A i \in 1 .. Len(data) + Len(tl) : (data \o tl)[i] =
                     IF i <= Len(data) THEN data[i] ELSE tl[i - Len(data)]
    BY <1>5, <2>1, ConcatProperties
  <2>3. rows = data \o tl
    BY DEF tl
  <2> HIDE DEF rows
  <2>4. rows \in Seq(S) /\ Len(rows) = e + 2 /\ \A i \in 1 .. e + 2 : rows[i] = IF i <= e THEN data[i] ELSE tl[i - e]
    BY <1>1, <1>5, <2>1, <2>2, <2>3
  <2> DEFINE x == e + 1
             y == e + 2
  <2>5. x \in 1 .. y /\ y \in 1 .. y /\ ~(x <= e) /\ ~(y <= e) /\ x - e = 1 /\ y - e = 2
    BY <1>1
  <2>5a. \A i \in 1 .. y : rows[i] = IF i <= e THEN data[i] ELSE tl[i - e]
    BY <2>4
  <2> HIDE DEF x, y
  <2>5b. rows[x] = tl[1] /\ rows[y] = tl[2]
    BY <2>5, <2>5a
  <2>6. rows[e + 1] = tl[1] /\ rows[e + 2] = tl[2]
    BY <2>5b DEF x, y
  <2>7. \A i \in 1 .. e : rows[i] = data[i]
    BY <1>1, <2>4
  <2> QED
    BY <2>1, <2>4, <2>6, <2>7
<1> HIDE DEF rows
<1>9. {i \in DOMAIN rows : ~rows[i].meta} = 1 .. e
  <2>1. DOMAIN rows = 1 .. e + 2
    BY <1>1, <1>8
  <2>2. \A i \in 1 .. e : i \in 1 .. e + 2 /\ ~rows[i].meta
    BY <1>1, <1>5, <1>8
  <2>3. rows[e + 1].meta /\ rows[e + 2].meta
    BY <1>8
  <2>4. \A i \in 1 .. e + 2 : i \in 1 .. e \/ i = e + 1 \/ i = e + 2
    BY <1>1
  <2> QED
    BY <2>1, <2>2, <2>3, <2>4
<1>10. Cardinality(1 .. e) = e
  <2>1. \A a, b \in Int : Cardinality(a .. b) = IF a > b THEN 0 ELSE b - a + 1
    BY FS_Interval
  <2>2. e \in Int /\ 1 \in Int /\ (1 > e => e = 0) /\ e - 1 + 1 = e
    BY <1>1
  <2> QED
    BY <2>1, <2>2
<1>11. c = [status |-> rows[e + 2].value, next |-> 0, stats |-> rows[e + 1].value,
            records |-> [i \in 1 .. e |-> rows[i].value]]
  BY <1>7, <1>9, <1>10 DEF Consumed
<1>12. rows[e + 2].value = ReadStatus(s) /\ rows[e + 1].value = ExportStats(s)
  BY <1>8
<1>13. [i \in 1 .. e |-> rows[i].value] = times
  <2>1. \A i \in 1 .. e : rows[i].value = times[i]
    BY <1>5, <1>8
  <2>2. times = [i \in 1 .. e |-> times[i]]
    BY <1>3, <1>4
  <2> QED
    BY <2>1, <2>2
<1> QED
  BY <1>2, <1>11, <1>12, <1>13 DEF r

\* The persisted count covers the losses of a file whose metadata is intact.
LEMMA DropsCounted ==
  ASSUME HTypeOK, Disk
  PROVE  DropsAccounted
<1> SUFFICES ASSUME Clean, ~View.inc
             PROVE  Cardinality(durable \ Times(View.recs)) <= View.dropped
  BY DEF DropsAccounted, Clean
<1>1. file \in Seq(HistoryLines) /\ torn \in BOOLEAN /\ Slot(file) # "rec" /\ (file = <<>> => durable = {})
  BY DEF HTypeOK, Disk, Shape
<1>2. /\ Scan(file, torn).inc = (IF Slot(file) = "meta" THEN file[1].inc ELSE file # <<>>)
      /\ Scan(file, torn).dropped \in Nat
  BY <1>1, ScanFacts
<1>3. ~Scan(file, torn).inc /\ Balanced(file, torn, durable)
  BY DEF View, Disk
<1>4. CASE file = <<>>
  <2>1. durable \ Times(View.recs) = {}
    BY <1>1, <1>4
  <2>2. Cardinality(durable \ Times(View.recs)) = 0
    BY <2>1, FS_EmptySet
  <2> QED
    BY <1>2, <2>2 DEF View
<1>5. CASE file # <<>>
  <2>1. Slot(file) = "meta"
    BY <1>2, <1>3, <1>5
  <2>2. SlotLoss(file) = 0 /\ Counted(file, torn)
    BY <1>3, <2>1 DEF SlotLoss, Counted
  <2>3. Cardinality(Lost(file, torn, durable)) <= Scan(file, torn).dropped + 0
    BY <1>3, <2>2 DEF Balanced
  <2> QED
    BY <1>2, <2>3 DEF Lost, View
<1> QED
  BY <1>4, <1>5

\* A read that finds no blemish in the file shows every synced record with all of its records.
LEMMA WholeAnswer ==
  ASSUME HTypeOK, Disk, ~View.corrupt, ~View.inc, ~(View.dropped > 0), NEW a, a.records = Backwards(View.recs)
  PROVE  durable \subseteq Shows(a)
<1>1. ~Blemished(file, torn)
  BY DEF Blemished, View
<1>2. durable \subseteq Times(View.recs)
  BY <1>1, ViewComplete
<1>3. View.recs \in Seq(HistoryLines)
  BY ViewFacts
<1>4. Shows(a) = Times(View.recs)
  BY <1>3, BackwardsShows DEF Shows
<1> QED
  BY <1>2, <1>4

\* A first durable page that calls itself complete shows every synced record.
LEMMA DurableAnswers ==
  ASSUME HTypeOK, Disk, Sequenced, up, NEW limit \in Nat \ {0},
         NEW a \in AlertsHistory("durable", View, 0, limit), SaysComplete(a)
  PROVE  durable \subseteq Shows(a)
<1> DEFINE r == View.recs
           n == Effective(limit)
           p == Page(r, Len(r), n)
<1>1. n \in Nat \ {0}
  BY EffectiveFacts
<1>2. a \in WriteDurableHistory(View, 0, n)
  BY DEF AlertsHistory
<1> HIDE DEF n
<1>3. a # Unavailable
  BY DEF SaysComplete, Unavailable
<1>4. ~openErr /\ ~View.corrupt /\ a = Served(View, Len(r), n)
  BY <1>2, <1>3 DEF WriteDurableHistory
<1>5. a = [status |-> ReadStatus(View), next |-> p.next, records |-> p.times,
           stats |-> [available |-> TRUE, truncated |-> tracker.historyDropped > 0 \/ View.dropped > 0 \/ View.inc]]
  BY <1>4 DEF Served, Stats
<1>6. ~View.inc /\ ~(View.dropped > 0) /\ p.next = 0 /\ a.records = p.times
  <2> DEFINE cut == tracker.historyDropped > 0 \/ View.dropped > 0 \/ View.inc
  <2>1. a.stats = [available |-> TRUE, truncated |-> cut] /\ a.next = p.next /\ a.records = p.times
    BY <1>5
  <2> HIDE DEF p, cut
  <2>2. ~a.stats.truncated /\ a.next = 0
    BY DEF SaysComplete
  <2>3. ~cut
    BY <2>1, <2>2
  <2> QED
    BY <2>1, <2>2, <2>3 DEF cut
<1>7. r \in Seq(HistoryLines)
  BY ViewFacts
<1>8. ~Blemished(file, torn)
  BY <1>4, <1>6 DEF Blemished, View
<1>9. \A i \in 1 .. Len(r) : r[i].seq # 0
  <2>1. /\ file \in Seq(HistoryLines) /\ torn \in BOOLEAN /\ Slot(file) # "rec" /\ Writable /\ file # <<>>
    BY <1>4 DEF HTypeOK, Disk, Shape, Writable
  <2>2. /\ Len(Scan(file, torn).recs) = IF file = <<>> \/ Scan(file, torn).corrupt THEN 0 ELSE Reach(file, torn) - 1
        /\ \A i \in 1 .. Len(Scan(file, torn).recs) : Scan(file, torn).recs[i] = file[i + 1]
    BY <2>1, ScanFacts
  <2>3. Len(r) = Reach(file, torn) - 1 /\ \A i \in 1 .. Len(r) : r[i] = file[i + 1]
    BY <1>4, <2>1, <2>2 DEF View
  <2>4. Reach(file, torn) \in Int
    BY <2>1, LenProperties DEF Reach
  <2>5. \A q \in 2 .. Reach(file, torn) : file[q].seq # 0
    BY <1>8, <2>1 DEF Sequenced
  <2> HIDE DEF r
  <2>6. \A i \in 1 .. Len(r) : i + 1 \in 2 .. Reach(file, torn)
    BY <2>3, <2>4
  <2> QED
    BY <2>3, <2>5, <2>6
<1>10. n >= Len(r)
  BY <1>1, <1>6, <1>7, <1>9, PageLast
<1>11. p.times = Backwards(r)
  BY <1>1, <1>7, <1>10, PageWhole
<1> QED
  BY <1>4, <1>6, <1>11, WholeAnswer

\* So does an export.
LEMMA ExportAnswers ==
  ASSUME HTypeOK, Disk, NEW format, NEW a \in HistoryExport(View, format), SaysComplete(a)
  PROVE  durable \subseteq Shows(a)
<1> DEFINE r == View.recs
<1>1. a # Unavailable
  BY DEF SaysComplete, Unavailable
<1>2. ~View.corrupt /\ a \in {SerializeJSON(View), Consumed(SerializeCSV(View))}
  BY <1>1 DEF HistoryExport
<1>3. r \in Seq(HistoryLines) /\ Len(r) \in Nat
  BY ViewFacts, LenProperties
<1>4. a.records = Backwards(r) /\ a.stats = ExportStats(View) /\ a.status = ReadStatus(View)
  <2>1. CASE a = SerializeJSON(View)
    <3>1. Page(r, Len(r), Len(r)).times = Backwards(r)
      BY <1>3, PageWhole
    <3>2. a = [status |-> ReadStatus(View), next |-> 0, stats |-> ExportStats(View), records |-> Backwards(r)]
      BY <2>1, <3>1 DEF SerializeJSON
    <3> QED
      BY <3>2
  <2>2. CASE a = Consumed(SerializeCSV(View))
    BY <1>3, <2>2, CSVFacts
  <2> QED
    BY <1>2, <2>1, <2>2
<1>5. ExportStats(View) = [available |-> TRUE, truncated |-> View.dropped > 0 \/ View.dropped > 0 \/ View.inc]
  BY DEF ExportStats, Stats
<1>6. ~View.inc /\ ~(View.dropped > 0)
  <2> DEFINE cut == View.dropped > 0 \/ View.dropped > 0 \/ View.inc
  <2>1. a.stats = [available |-> TRUE, truncated |-> cut]
    BY <1>4, <1>5
  <2> HIDE DEF cut
  <2>2. ~a.stats.truncated
    BY DEF SaysComplete
  <2>3. ~cut
    BY <2>1, <2>2
  <2> QED
    BY <2>3 DEF cut
<1> QED
  BY <1>2, <1>4, <1>6, WholeAnswer

\* So does a ring that is not full.
LEMMA RingAnswers ==
  ASSUME HTypeOK, Ringed, up, NEW s, NEW a \in AlertsHistory("memory", s, 0, RingCap),
         Len(tracker.transitions) < RingCap, SaysComplete(a)
  PROVE  durable \subseteq Shows(a)
<1> DEFINE q == tracker.transitions
           n == Len(q)
<1>1. q \in Seq(Nat) /\ n \in Nat /\ RingCap \in Nat /\ tracker.historyDropped \in Nat /\ tracker.fileDropped \in Nat
  BY TrackerFacts, TransitionConstants, LenProperties DEF HTypeOK
<1>2. a = MemoryAnswer(RingCap)
  BY EffectiveFacts DEF AlertsHistory
<1>3. (IF RingCap < n THEN RingCap ELSE n) = n
  BY <1>1
<1>4. a = [status |-> "ok", next |-> 0, stats |-> HistoryStats, records |-> [i \in 1 .. n |-> q[n - i + 1]]]
  BY <1>2, <1>3 DEF MemoryAnswer
<1>5. HistoryStats = [available |-> tracker.historyLoaded /\ ~tracker.loadError /\ ~tracker.historyCorrupt,
                      truncated |-> tracker.historyDropped > 0 \/ tracker.fileDropped > 0 \/ tracker.metaInconsistent]
  BY DEF HistoryStats, Stats
<1>6. a.stats = HistoryStats /\ a.records = [i \in 1 .. n |-> q[n - i + 1]]
  BY <1>4
<1>7. HistoryStats.available /\ ~HistoryStats.truncated
  BY <1>6 DEF SaysComplete
<1>8. Claims
  <2>1. /\ tracker.historyLoaded /\ ~tracker.loadError /\ ~tracker.historyCorrupt
        /\ ~(tracker.historyDropped > 0) /\ ~(tracker.fileDropped > 0) /\ ~tracker.metaInconsistent
    BY <1>5, <1>7
  <2> QED
    BY <1>1, <2>1 DEF Claims
<1>9. durable \subseteq {q[i] : i \in 1 .. n}
  BY <1>8 DEF Ringed, RingTimes
<1> HIDE DEF q, n
<1>10. \A i \in 1 .. n : n - i + 1 \in 1 .. n /\ n - (n - i + 1) + 1 = i
  BY <1>1
<1>11. ASSUME NEW i \in 1 .. n PROVE q[i] \in Shows(a)
  <2>1. n - i + 1 \in DOMAIN a.records /\ a.records[n - i + 1] = q[n - (n - i + 1) + 1]
    BY <1>6, <1>10
  <2> QED
    BY <1>10, <2>1 DEF Shows
<1> QED
  BY <1>9, <1>11

LEMMA NothingLost ==
  ASSUME HTypeOK, Disk, Sequenced, Ringed
  PROVE  NoSilentLoss
<1>1. DropsAccounted
  BY DropsCounted
<1>2. PageSize \in Nat \ {0} /\ MaxLimit + 1 \in Nat \ {0}
  BY TransitionConstants, ReadConstants
<1>3. ASSUME up, NEW limit \in {PageSize, MaxLimit + 1}, NEW a \in AlertsHistory("durable", View, 0, limit), SaysComplete(a)
      PROVE  durable \subseteq Shows(a)
  BY <1>2, <1>3, DurableAnswers
<1>4. ASSUME NEW format \in {"json", "csv"}, NEW a \in HistoryExport(View, format), SaysComplete(a)
      PROVE  durable \subseteq Shows(a)
  BY <1>4, ExportAnswers
<1>5. ASSUME up, NEW a \in AlertsHistory("memory", View, 0, RingCap), Len(tracker.transitions) < RingCap, SaysComplete(a)
      PROVE  durable \subseteq Shows(a)
  BY <1>5, RingAnswers
<1>6. NoFalseClean
  BY <1>3, <1>4, <1>5 DEF NoFalseClean
<1> QED
  BY <1>1, <1>6 DEF NoSilentLoss

\* The whole inductive invariant.
HistoryInv == HTypeOK /\ Disk /\ Mirrored /\ Sequenced /\ Ringed /\ FiringReconstructed

\* A file of the time before sequence numbers, or none.
LEMMA HistoryInit == Init => HistoryInv
<1> SUFFICES ASSUME Init PROVE HistoryInv
  OBVIOUS
<1>1. PICK n \in 0 .. 2 : /\ file = IF n = 0 THEN <<>>
                                    ELSE <<MetaLine(0, 0, FALSE)>> \o [i \in 1 .. n |-> RecLine(0, i % 2 = 1, i)]
                          /\ durable = 1 .. n
  BY DEF Init, MaxLegacy
<1>2. /\ now = 2 /\ torn = FALSE /\ up = FALSE /\ openErr = FALSE /\ fileDropped = 0 /\ lastSeq = 0
      /\ tracker = Degraded(FALSE, FALSE) /\ flaws = {}
  BY DEF Init, MaxLegacy
<1>3. Mirrored /\ Sequenced /\ Ringed /\ FiringReconstructed /\ ~Writable /\ Clean
  BY <1>2 DEF Mirrored, Sequenced, Ringed, FiringReconstructed, Writable, Clean
<1>4. Degraded(FALSE, FALSE) \in Trackers
  BY DegradedFacts
<1>5. durable \subseteq 1 .. now
  BY <1>1, <1>2
<1>6. CASE n = 0
  <2>0. file = <<>> /\ durable = 1 .. 0
    BY <1>1, <1>6
  <2>0a. <<>> \in Seq(HistoryLines)
    OBVIOUS
  <2>0b. durable = {}
    BY <2>0
  <2>1. file = <<>> /\ durable = {} /\ file \in Seq(HistoryLines) /\ torn \in BOOLEAN
    BY <1>2, <2>0, <2>0a, <2>0b
  <2>2. Slot(file) = "none" /\ Reach(file, torn) = 0 /\ Len(file) = 0
    BY <1>2, <2>1 DEF Slot, Reach
  <2>3. Shape(file, torn, durable, now)
    BY <1>2, <2>1, <2>2 DEF Shape
  <2>4. /\ Scan(file, torn).corrupt <=> \E i \in 2 .. Reach(file, torn) : ~IsRec(file[i])
        /\ Scan(file, torn).dropped \in Nat
    BY <2>1, <2>2, ScanFacts
  <2>5. ~View.corrupt
    BY <2>2, <2>4 DEF View
  <2>6. Balanced(file, torn, durable)
    <3>1. Lost(file, torn, durable) = {}
      BY <2>1 DEF Lost
    <3>2. Cardinality(Lost(file, torn, durable)) = 0 /\ SlotLoss(file) \in {0, 1}
      BY <3>1, FS_EmptySet DEF SlotLoss
    <3> QED
      BY <2>4, <3>2 DEF Balanced
  <2>7. HTypeOK
    BY <1>2, <1>4, <2>1 DEF HTypeOK
  <2> QED
    BY <1>3, <2>3, <2>5, <2>6, <2>7 DEF HistoryInv, Disk
<1>7. CASE n # 0
  <2> DEFINE h == MetaLine(0, 0, FALSE)
             r == [i \in 1 .. n |-> RecLine(0, i % 2 = 1, i)]
  <2>1. h \in HistoryLines /\ h.kind = "meta" /\ h.dropped = 0
    BY MetaLineFacts
  <2>2. ASSUME NEW i \in 1 .. n PROVE r[i] \in HistoryLines /\ IsRec(r[i]) /\ r[i].at = i
    <3> DEFINE b == i % 2 = 1
    <3>1. r[i] = RecLine(0, b, i) /\ b \in BOOLEAN /\ i \in Nat
      OBVIOUS
    <3> HIDE DEF b, r
    <3> QED
      BY <3>1, RecLineFacts
  <2>3. r \in [1 .. n -> HistoryLines]
    BY <2>2
  <2> HIDE DEF h
  <2>4. r \in Seq(HistoryLines) /\ Len(r) = n
    BY <2>3
  <2>5. file = <<h>> \o r
    BY <1>1, <1>7 DEF h
  <2> HIDE DEF r
  <2>6. <<h>> \in Seq(HistoryLines) /\ Len(<<h>>) = 1 /\ <<h>>[1] = h
    BY <2>1
  <2>7. /\ file \in Seq(HistoryLines) /\ Len(file) = Len(<<h>>) + Len(r)
        /\ \A i \in 1 .. Len(<<h>>) + Len(r) : file[i] = IF i <= Len(<<h>>) THEN <<h>>[i] ELSE r[i - Len(<<h>>)]
    BY <2>4, <2>5, <2>6, ConcatProperties
  <2>8. /\ Len(file) = n + 1 /\ file # <<>> /\ \A i \in 1 .. n + 1 : file[i] = IF i <= 1 THEN <<h>>[i] ELSE r[i - 1]
    BY <2>4, <2>6, <2>7, EmptySeq
  <2>9. file[1] = h
    BY <2>6, <2>8
  <2>10. \A i \in 1 .. n : file[i + 1] = r[i]
    <3> TAKE i \in 1 .. n
    <3>1. i + 1 \in 1 .. n + 1 /\ ~(i + 1 <= 1) /\ i + 1 - 1 = i
      OBVIOUS
    <3> QED
      BY <2>8, <3>1
  <2>11. Slot(file) = "meta" /\ Reach(file, torn) = n + 1
    BY <1>2, <2>1, <2>8, <2>9 DEF Slot, Reach
  <2>12. Shape(file, torn, durable, now)
    BY <1>2, <1>5, <2>8, <2>11 DEF Shape
  <2>13. \A p \in 2 .. n + 1 : IsRec(file[p])
    <3> TAKE p \in 2 .. n + 1
    <3>1. p - 1 \in 1 .. n /\ p - 1 + 1 = p
      OBVIOUS
    <3> QED
      BY <2>2, <2>10, <3>1
  <2>14. /\ Scan(file, torn).corrupt <=> \E i \in 2 .. Reach(file, torn) : ~IsRec(file[i])
         /\ Scan(file, torn).dropped \in Nat
    BY <1>2, <2>7, <2>11, ScanFacts
  <2>15. ~Scan(file, torn).corrupt
    BY <2>11, <2>13, <2>14
  <2>16. Balanced(file, torn, durable)
    <3>1. Times(Scan(file, torn).recs) = {file[p].at : p \in 2 .. n + 1}
      BY <1>2, <2>7, <2>11, <2>15, TimesFacts
    <3>2. ASSUME NEW i \in 1 .. n PROVE i \in Times(Scan(file, torn).recs)
      <4>1. i + 1 \in 2 .. n + 1 /\ file[i + 1].at = i
        BY <2>2, <2>10
      <4> QED
        BY <3>1, <4>1
    <3>3. Lost(file, torn, durable) = {}
      BY <1>1, <3>2 DEF Lost
    <3>4. Cardinality(Lost(file, torn, durable)) = 0 /\ SlotLoss(file) \in {0, 1}
      BY <3>3, FS_EmptySet DEF SlotLoss
    <3> QED
      BY <2>14, <3>4 DEF Balanced
  <2>17. HTypeOK
    BY <1>2, <1>4, <2>7 DEF HTypeOK
  <2> QED
    BY <1>3, <2>8, <2>12, <2>15, <2>16, <2>17 DEF HistoryInv, Disk, View
<1> QED
  BY <1>6, <1>7

LEMMA HistoryStutter ==
  ASSUME HistoryInv, UNCHANGED vars
  PROVE  HistoryInv'
<1>1. UNCHANGED <<file, torn, up, openErr, fileDropped, lastSeq, tracker, now, durable, settled, flaws>>
  BY DEF vars, diskVars, storeVars, histVars
<1>2. HTypeOK' /\ Disk' /\ Mirrored' /\ Sequenced'
  BY <1>1 DEF HistoryInv, HTypeOK, Disk, Mirrored, Sequenced, Clean, Writable, View
<1>3. Ringed' /\ FiringReconstructed'
  BY <1>1 DEF HistoryInv, Ringed, Claims, RingTimes, FiringReconstructed, View
<1> QED
  BY <1>2, <1>3 DEF HistoryInv

LEMMA HistoryStep == HistoryInv /\ [Next]_vars => HistoryInv'
<1> SUFFICES ASSUME HistoryInv, [Next]_vars PROVE HistoryInv'
  OBVIOUS
<1>1. CASE Next
  BY <1>1, HTypeStep, DiskInvStep, MirrorStep, SequencedStep, RingedStep, FiringStep DEF HistoryInv
<1>2. CASE UNCHANGED vars
  BY <1>2, HistoryStutter
<1> QED
  BY <1>1, <1>2

\* The recorder changes nothing of the store's.
LEMMA RecorderStep == [ANext]_allVars => [Next]_vars
<1>1. StoreOnly => Next
  BY DEF StoreOnly, Next
<1>2. Accepted \/ NotAccepted \/ CompactionRefused \/ EntryFails => Next
  BY DEF Accepted, NotAccepted, CompactionRefused, EntryFails, Next
<1>3. CrashInRecorder \/ Stopped => Next
  BY DEF CrashInRecorder, Stopped, Next
<1>4. Damaged \/ ViewLedger => UNCHANGED vars
  BY DEF Damaged, ViewLedger
<1>5. ViewStore => Next \/ UNCHANGED vars
  BY DEF ViewStore, Next
<1>6. UNCHANGED allVars => UNCHANGED vars
  BY DEF allVars
<1> QED
  BY <1>1, <1>2, <1>3, <1>4, <1>5, <1>6 DEF ANext

\* A store with the recorder of accepted records behaves as a store without it,
\* whatever the recorder does and however it fails: its failure is kept in
\* acceptanceErr and never stops or undoes the append (Append).
THEOREM RecorderIsBystander == ASpec => Spec
<1>1. AInit => Init
  BY DEF AInit
<1> QED
  BY <1>1, RecorderStep, PTL DEF ASpec, Spec

LEMMA HistoryInvariant == ASpec => []HistoryInv
<1>1. Spec => []HistoryInv
  BY HistoryInit, HistoryStep, PTL DEF Spec
<1> QED
  BY <1>1, RecorderIsBystander, PTL

\* No synced record of the history is lost silently: the persisted eviction
\* count covers the ones the file holds no longer, and an answer that calls
\* itself complete shows all of them (file_transition_store.go, mgmt_obs.go).
THEOREM HistoryNeverLostSilently == ASpec => []NoSilentLoss
<1>1. HistoryInv => NoSilentLoss
  BY NothingLost DEF HistoryInv
<1> QED
  BY <1>1, HistoryInvariant, PTL

\* A restart that accepts the history takes up the alert state of which the
\* last change was synced (alerting.go NewAlertTrackerWithStore).
THEOREM FiringRecovered == ASpec => []FiringReconstructed
<1>1. HistoryInv => FiringReconstructed
  BY DEF HistoryInv
<1> QED
  BY <1>1, HistoryInvariant, PTL

-----------------------------------------------------------------------------
(* The pages of the history.  While no sync failed and no scan found       *)
(* corruption, the records of the file are in the order of their times and *)
(* of their numbers, and what the client holds is a place in that order.   *)

\* The places of the lines that have their terminator, the slot left out.
Whole(f, t) == {p \in 2 .. Len(f) : ~(t /\ p = Len(f))}

Aged(f, t, n) == \A p \in 2 .. Reach(f, t) : f[p].at <= n /\ \A q \in 2 .. p - 1 : f[q].at < f[p].at
Counting(f, t) == \A p \in 2 .. Reach(f, t) : f[p].seq > 0 /\ \A q \in 2 .. p - 1 : f[q].seq < f[p].seq
Unnumbered(f, t) == \E p \in 2 .. Reach(f, t) : f[p].seq = 0
Within(f, t, s) == \A p \in Whole(f, t) : f[p].seq <= s
Places(f, t, time, number) == \A p \in 2 .. Reach(f, t) : f[p].at = time => f[p].seq = number

\* The records of w are whole lines of f, and perhaps l behind them.
Carried(w, f, t, l) ==
  \A p \in 2 .. Len(w) : IsRec(w[p]) =>
    \/ p \in Whole(f, t) /\ w[p] = f[p]
    \/ ~t /\ p = Len(w) /\ p = Len(f) + 1 /\ w[p] = l

LEMMA WrittenCarried ==
  ASSUME NEW f \in Seq(HistoryLines), NEW t \in BOOLEAN, NEW l \in HistoryLines, NEW new,
         l \in {Junk, new}, f # <<>>, NEW w, w = Written(f, t, l)
  PROVE  w \in Seq(HistoryLines) /\ w # <<>> /\ Carried(w, f, t, new)
<1>1. IsWritten(w, f, t, l)
  BY WrittenFacts
<1>2. Len(f) \in Nat /\ Len(f) > 0
  BY LenProperties, EmptySeq
<1>3. ~IsRec(Junk)
  BY HistoryLineFacts
<1>4. ASSUME NEW p \in 2 .. Len(w), IsRec(w[p])
      PROVE  \/ p \in Whole(f, t) /\ w[p] = f[p]
             \/ ~t /\ p = Len(w) /\ p = Len(f) + 1 /\ w[p] = new
  <2>1. CASE t
    <3>1. Len(w) = Len(f) /\ w[Len(f)] = Junk /\ \A i \in 1 .. Len(f) - 1 : w[i] = f[i]
      BY <1>1, <2>1 DEF IsWritten
    <3>2. p # Len(f)
      BY <1>3, <1>4, <3>1
    <3>3. p \in 1 .. Len(f) - 1 /\ p \in 2 .. Len(f)
      BY <1>2, <3>1, <3>2
    <3> QED
      BY <3>1, <3>2, <3>3 DEF Whole
  <2>2. CASE ~t
    <3>1. Len(w) = Len(f) + 1 /\ w[Len(f) + 1] = l /\ \A i \in 1 .. Len(f) : w[i] = f[i]
      BY <1>1, <2>2 DEF IsWritten
    <3>2. CASE p = Len(f) + 1
      BY <1>3, <1>4, <2>2, <3>1, <3>2
    <3>3. CASE p # Len(f) + 1
      <4>1. p \in 1 .. Len(f) /\ p \in 2 .. Len(f)
        BY <1>2, <3>1, <3>3
      <4> QED
        BY <2>2, <3>1, <4>1 DEF Whole
    <3> QED
      BY <3>2, <3>3
  <2> QED
    BY <2>1, <2>2
<1>5. w \in Seq(HistoryLines) /\ w # <<>>
  BY <1>1 DEF IsWritten
<1> QED
  BY <1>4, <1>5 DEF Carried

\* Whole lines are among those a scan reaches, and in a file that is not
\* corrupt these are records.
LEMMA WholeFacts ==
  ASSUME NEW f \in Seq(HistoryLines), NEW t \in BOOLEAN
  PROVE  /\ Len(f) \in Nat /\ Reach(f, t) \in Nat /\ Reach(f, t) <= Len(f)
         /\ \A p \in Whole(f, t) : p \in 2 .. Reach(f, t)
         /\ \A p \in 2 .. Reach(f, t) : p \in 2 .. Len(f) /\ f[p] \in HistoryLines /\ f[p].at \in Nat /\ f[p].seq \in Nat
         /\ Slot(f) # "rec" /\ ~Scan(f, t).corrupt => \A p \in 2 .. Reach(f, t) : IsRec(f[p])
<1>1. Len(f) \in Nat /\ DOMAIN f = 1 .. Len(f)
  BY LenProperties
<1>2. Reach(f, t) \in Nat /\ Reach(f, t) <= Len(f)
  BY <1>1 DEF Reach
<1>3. ASSUME NEW p \in Whole(f, t) PROVE p \in 2 .. Reach(f, t)
  <2>1. p \in 2 .. Len(f) /\ ~(t /\ p = Len(f))
    BY DEF Whole
  <2>2. Reach(f, t) = Len(f) \/ (t /\ Reach(f, t) = Len(f) - 1)
    BY DEF Reach
  <2>3. CASE Reach(f, t) = Len(f)
    BY <2>1, <2>3
  <2>4. CASE t /\ Reach(f, t) = Len(f) - 1
    <3>1. p # Len(f)
      BY <2>1, <2>4
    <3>2. p \in 2 .. Len(f) - 1
      <4> DEFINE n == Len(f)
      <4>1. n \in Nat /\ p \in 2 .. n /\ p # n
        BY <1>1, <2>1, <3>1
      <4> HIDE DEF n
      <4>2. p \in 2 .. n - 1
        BY <4>1
      <4> QED
        BY <4>2 DEF n
    <3>3. Reach(f, t) = Len(f) - 1
      BY <2>4
    <3> QED
      BY <3>2, <3>3
  <2> QED
    BY <2>2, <2>3, <2>4
<1>4. \A p \in 2 .. Reach(f, t) : p \in 2 .. Len(f) /\ p \in DOMAIN f
  BY <1>1, <1>2
<1>5. \A p \in 2 .. Reach(f, t) : f[p] \in HistoryLines
  BY <1>4
<1>6. Slot(f) # "rec" /\ ~Scan(f, t).corrupt => \A p \in 2 .. Reach(f, t) : IsRec(f[p])
  BY TimesFacts
<1> QED
  BY <1>1, <1>2, <1>3, <1>4, <1>5, <1>6, HistoryLineFacts

\* The order survives a write, and no record comes to stand at an old time.
LEMMA CarriedOrder ==
  ASSUME NEW f \in Seq(HistoryLines), NEW t \in BOOLEAN, NEW w \in Seq(HistoryLines), NEW u \in BOOLEAN,
         NEW n \in Nat, NEW s \in Nat, NEW l \in HistoryLines, l.at = n + 1, l.seq = s + 1,
         Slot(w) # "rec", ~Scan(w, u).corrupt, Carried(w, f, t, l), Aged(f, t, n)
  PROVE  /\ Aged(w, u, n + 1)
         /\ Counting(f, t) /\ Within(f, t, s) => Counting(w, u)
         /\ \A time \in Nat : \A number : time <= n /\ Places(f, t, time, number) => Places(w, u, time, number)
<1>1. /\ \A p \in Whole(f, t) : p \in 2 .. Reach(f, t)
      /\ \A p \in 2 .. Reach(f, t) : f[p].at \in Nat /\ f[p].seq \in Nat
  BY WholeFacts
<1>2. /\ \A p \in 2 .. Reach(w, u) : p \in 2 .. Len(w) /\ IsRec(w[p])
      /\ Len(w) \in Nat /\ Reach(w, u) \in Nat /\ Reach(w, u) <= Len(w)
  BY WholeFacts
<1>3. ASSUME NEW p \in 2 .. Reach(w, u)
      PROVE  \/ p \in Whole(f, t) /\ p \in 2 .. Reach(f, t) /\ w[p] = f[p]
             \/ p = Len(w) /\ w[p] = l
  BY <1>1, <1>2 DEF Carried
<1>4. ASSUME NEW p \in 2 .. Reach(w, u), NEW q \in 2 .. p - 1
      PROVE  q \in Whole(f, t) /\ q \in 2 .. Reach(f, t) /\ w[q] = f[q]
  <2>1. q \in 2 .. Reach(w, u) /\ q # Len(w)
    BY <1>2
  <2> QED
    BY <1>3, <2>1
<1>5. Aged(w, u, n + 1)
  <2> SUFFICES ASSUME NEW p \in 2 .. Reach(w, u)
               PROVE  w[p].at <= n + 1 /\ \A q \in 2 .. p - 1 : w[q].at < w[p].at
    BY DEF Aged
  <2>1. CASE p \in 2 .. Reach(f, t) /\ w[p] = f[p]
    <3>1. f[p].at <= n /\ f[p].at \in Nat /\ \A q \in 2 .. p - 1 : f[q].at < f[p].at
      BY <1>1, <2>1 DEF Aged
    <3>2. \A q \in 2 .. p - 1 : w[q] = f[q]
      BY <1>4
    <3>3. \A q \in 2 .. p - 1 : w[q].at < w[p].at
      BY <2>1, <3>1, <3>2
    <3>4. w[p].at <= n + 1
      BY <2>1, <3>1
    <3> QED
      BY <3>3, <3>4
  <2>2. CASE w[p] = l
    <3>1. \A q \in 2 .. p - 1 : w[q].at \in Nat /\ w[q].at <= n
      BY <1>1, <1>4 DEF Aged
    <3>2. w[p].at = n + 1
      BY <2>2
    <3> QED
      BY <3>1, <3>2
  <2> QED
    BY <1>3, <2>1, <2>2
<1>6. ASSUME Counting(f, t), Within(f, t, s) PROVE Counting(w, u)
  <2> SUFFICES ASSUME NEW p \in 2 .. Reach(w, u)
               PROVE  w[p].seq > 0 /\ \A q \in 2 .. p - 1 : w[q].seq < w[p].seq
    BY DEF Counting
  <2>1. CASE p \in 2 .. Reach(f, t) /\ w[p] = f[p]
    <3>1. f[p].seq > 0 /\ \A q \in 2 .. p - 1 : f[q].seq < f[p].seq
      BY <1>6, <2>1 DEF Counting
    <3>2. \A q \in 2 .. p - 1 : w[q] = f[q]
      BY <1>4
    <3> QED
      BY <2>1, <3>1, <3>2
  <2>2. CASE w[p] = l
    <3>1. \A q \in 2 .. p - 1 : w[q].seq \in Nat /\ w[q].seq <= s
      BY <1>1, <1>4, <1>6 DEF Within
    <3>2. w[p].seq = s + 1
      BY <2>2
    <3> QED
      BY <3>1, <3>2
  <2> QED
    BY <1>3, <2>1, <2>2
<1>7. ASSUME NEW time \in Nat, NEW number, time <= n, Places(f, t, time, number) PROVE Places(w, u, time, number)
  <2> SUFFICES ASSUME NEW p \in 2 .. Reach(w, u), w[p].at = time PROVE w[p].seq = number
    BY DEF Places
  <2>1. w[p] # l
    BY <1>7
  <2> QED
    BY <1>3, <1>7, <2>1 DEF Places
<1> QED
  BY <1>5, <1>6, <1>7

\* An eviction shifts the lines it keeps by k places.
Shifted(e, w, k) ==
  Len(e) > 1 /\ Len(e) + k = Len(w) /\ \A p \in 2 .. Len(e) : p + k \in 2 .. Len(w) /\ e[p] = w[p + k]

LEMMA EvictedShifted ==
  ASSUME NEW w \in Seq(HistoryLines), w # <<>>, Slot(w) # "rec", NEW d \in Nat, NEW s \in Nat,
         Len(EvictLines(w)) > FileCap, NEW e, e = Evicted(w, d, s)
  PROVE  /\ e \in Seq(HistoryLines) /\ Slot(e) = "meta" /\ Len(e) = FileCap + 1
         /\ \E k \in Nat : Shifted(e, w, k) /\ k + FileCap + 1 = Len(w) /\ (Slot(w) = "meta" => k > 0)
<1>1. IsEvicted(e, w, d)
  BY EvictedFacts
<1>2. /\ e \in Seq(HistoryLines) /\ Len(e) = FileCap + 1 /\ Slot(e) = "meta"
      /\ \A j \in 1 .. FileCap : e[j + 1] = w[Len(w) - FileCap + j]
      /\ Len(EvictLines(w)) = IF Slot(w) = "meta" THEN Len(w) - 1 ELSE Len(w)
  BY <1>1 DEF IsEvicted
<1>3. FileCap \in Nat /\ FileCap > 0 /\ Len(w) \in Nat
  BY TransitionConstants, LenProperties
<1> DEFINE k == Len(w) - FileCap - 1
<1>4. k \in Nat /\ k + FileCap + 1 = Len(w) /\ (Slot(w) = "meta" => k > 0)
  BY <1>2, <1>3
<1> HIDE DEF k
<1>5. ASSUME NEW p \in 2 .. Len(e) PROVE p + k \in 2 .. Len(w) /\ e[p] = w[p + k]
  <2>1. p - 1 \in 1 .. FileCap /\ p - 1 + 1 = p /\ Len(w) - FileCap + (p - 1) = p + k
    BY <1>2, <1>3, <1>4
  <2>2. e[p - 1 + 1] = w[Len(w) - FileCap + (p - 1)]
    BY <1>2, <2>1
  <2>3. p + k \in 2 .. Len(w)
    BY <1>2, <1>3, <1>4
  <2> QED
    BY <2>1, <2>2, <2>3
<1>6. Shifted(e, w, k)
  <2>1. Len(e) > 1 /\ Len(e) + k = Len(w)
    BY <1>2, <1>3, <1>4
  <2> QED
    BY <1>5, <2>1 DEF Shifted
<1> QED
  BY <1>2, <1>4, <1>6

LEMMA ShiftedOrder ==
  ASSUME NEW w \in Seq(HistoryLines), NEW e \in Seq(HistoryLines), NEW k \in Nat, Shifted(e, w, k)
  PROVE  /\ \A n \in Nat : Aged(w, FALSE, n) => Aged(e, FALSE, n)
         /\ Counting(w, FALSE) => Counting(e, FALSE)
         /\ \A s \in Nat : Within(w, FALSE, s) => Within(e, FALSE, s)
         /\ \A time, number : Places(w, FALSE, time, number) => Places(e, FALSE, time, number)
<1>1. Reach(w, FALSE) = Len(w) /\ Reach(e, FALSE) = Len(e) /\ Len(w) \in Nat /\ Len(e) \in Nat
  BY LenProperties DEF Reach
<1>2. \A p \in 2 .. Len(e) : p + k \in 2 .. Len(w) /\ e[p] = w[p + k]
  BY DEF Shifted
<1>3. ASSUME NEW p \in 2 .. Len(e), NEW q \in 2 .. p - 1 PROVE q \in 2 .. Len(e) /\ q + k \in 2 .. (p + k) - 1
  BY <1>1
<1>4. ASSUME NEW n \in Nat, Aged(w, FALSE, n) PROVE Aged(e, FALSE, n)
  BY <1>1, <1>2, <1>3, <1>4 DEF Aged
<1>5. ASSUME Counting(w, FALSE) PROVE Counting(e, FALSE)
  BY <1>1, <1>2, <1>3, <1>5 DEF Counting
<1>6. ASSUME NEW s \in Nat, Within(w, FALSE, s) PROVE Within(e, FALSE, s)
  BY <1>1, <1>2, <1>6 DEF Within, Whole
<1>7. ASSUME NEW time, NEW number, Places(w, FALSE, time, number) PROVE Places(e, FALSE, time, number)
  BY <1>1, <1>2, <1>7 DEF Places
<1> QED
  BY <1>4, <1>5, <1>6, <1>7

\* A cursor names the number of the oldest record on the page it came with.
Following ==
  cursor # 0 =>
    page # <<>> /\ Counting(file, torn) /\ Places(file, torn, page[Len(page)], cursor)
Paging ==
  flaws = {} =>
    /\ Aged(file, torn, now)
    /\ Unnumbered(file, torn) \/ Counting(file, torn)
    /\ Writable => Counting(file, torn) /\ Within(file, torn, lastSeq)
    /\ page \in Seq(Nat) /\ \A i \in 1 .. Len(page) : page[i] <= now
    /\ Following

\* The last time on a page.
LEMMA PageEnd ==
  ASSUME NEW q \in Seq(Nat), q # <<>>, NEW n, \A i \in 1 .. Len(q) : q[i] <= n
  PROVE  Len(q) \in 1 .. Len(q) /\ q[Len(q)] \in Nat /\ q[Len(q)] <= n
<1>1. Len(q) \in Nat /\ Len(q) # 0
  BY LenProperties, EmptySeq
<1>2. Len(q) \in 1 .. Len(q)
  BY <1>1
<1> QED
  BY <1>2

\* Time goes on.
LEMMA AgedLater ==
  ASSUME NEW f \in Seq(HistoryLines), NEW t \in BOOLEAN, NEW n \in Nat, NEW m \in Nat, n <= m, Aged(f, t, n)
  PROVE  Aged(f, t, m)
<1>1. \A p \in 2 .. Reach(f, t) : f[p].at \in Nat
  BY WholeFacts
<1> QED
  BY <1>1 DEF Aged

\* A step that leaves the file and the client alone.
LEMMA PagingSame ==
  ASSUME HTypeOK, Paging, UNCHANGED <<file, torn, cursor, page>>, now' \in {now, now + 1}, flaws' = {} => flaws = {},
         Writable' => Writable /\ lastSeq' = lastSeq
  PROVE  Paging'
<1> SUFFICES ASSUME flaws' = {}
             PROVE  /\ Aged(file', torn', now')
                    /\ Unnumbered(file', torn') \/ Counting(file', torn')
                    /\ Writable' => Counting(file', torn') /\ Within(file', torn', lastSeq')
                    /\ page' \in Seq(Nat) /\ \A i \in 1 .. Len(page') : page'[i] <= now'
                    /\ Following'
  BY DEF Paging
<1>1. file \in Seq(HistoryLines) /\ torn \in BOOLEAN /\ now \in Nat /\ now' \in Nat /\ now <= now'
  BY DEF HTypeOK
<1>2. /\ Aged(file, torn, now)
      /\ Unnumbered(file, torn) \/ Counting(file, torn)
      /\ Writable => Counting(file, torn) /\ Within(file, torn, lastSeq)
      /\ page \in Seq(Nat) /\ \A i \in 1 .. Len(page) : page[i] <= now
      /\ Following
  BY DEF Paging
<1>3. Aged(file', torn', now')
  BY <1>1, <1>2, AgedLater
<1>4. \A i \in 1 .. Len(page') : page'[i] <= now'
  <2> TAKE i \in 1 .. Len(page')
  <2>1. page[i] <= now /\ page[i] \in Nat
    BY <1>2
  <2> QED
    BY <1>1, <2>1
<1>5. Following'
  BY <1>2 DEF Following
<1> QED
  BY <1>2, <1>3, <1>4, <1>5

\* A file that has at most a slot has no record.
LEMMA PagingEmpty ==
  ASSUME Paging, Len(file') <= 1, Len(file') \in Nat, flaws' = {} => flaws = {}, ~Writable', UNCHANGED <<cursor, page, now>>
  PROVE  Paging'
<1>1. Reach(file', torn') = Len(file')
  BY DEF Reach
<1>2. \A p \in 2 .. Reach(file', torn') : FALSE
  BY <1>1
<1>3. Aged(file', torn', now') /\ Counting(file', torn') /\ \A x, y : Places(file', torn', x, y)
  BY <1>2 DEF Aged, Counting, Places
<1>4. ASSUME flaws = {}, cursor' # 0 PROVE page' # <<>>
  BY <1>4 DEF Paging, Following
<1>5. flaws = {} => Following'
  BY <1>3, <1>4 DEF Following
<1>6. flaws = {} => page' \in Seq(Nat) /\ \A i \in 1 .. Len(page') : page'[i] <= now'
  BY DEF Paging
<1> QED
  BY <1>3, <1>5, <1>6 DEF Paging

\* What an append finds and leaves behind, as long as the file is not corrupt.
LEMMA WriteOrdered ==
  ASSUME HTypeOK, Disk, Paging, flaws = {}, Writable, NEW l \in {Junk, NewLine}, NEW w, w = Written(file, torn, l),
         NEW u \in BOOLEAN, ~Scan(w, u).corrupt
  PROVE  /\ w \in Seq(HistoryLines) /\ w # <<>> /\ Slot(w) # "rec" /\ Aged(w, u, now + 1) /\ Counting(w, u)
         /\ Carried(w, file, torn, NewLine)
         /\ Within(w, u, lastSeq + 1) /\ (u => Within(w, u, lastSeq))
         /\ cursor # 0 => Places(w, u, page[Len(page)], cursor)
<1>1. /\ file \in Seq(HistoryLines) /\ torn \in BOOLEAN /\ file # <<>> /\ now \in Nat /\ lastSeq \in Nat
      /\ Slot(file) # "rec"
  BY DEF HTypeOK, Disk, Shape
<1>2. NewLine \in HistoryLines /\ Junk \in HistoryLines /\ NewLine.at = now + 1 /\ NewLine.seq = lastSeq + 1
  BY NewLineFacts, HistoryLineFacts
<1>3. w \in Seq(HistoryLines) /\ w # <<>> /\ Carried(w, file, torn, NewLine)
  BY <1>1, <1>2, WrittenCarried
<1>4. Slot(w) # "rec"
  <2>1. IsWritten(w, file, torn, l)
    BY <1>1, <1>2, WrittenFacts
  <2> QED
    BY <1>1, <2>1 DEF IsWritten
<1>5. /\ Aged(file, torn, now) /\ Counting(file, torn) /\ Within(file, torn, lastSeq)
      /\ page \in Seq(Nat) /\ (\A i \in 1 .. Len(page) : page[i] <= now)
      /\ cursor # 0 => page # <<>> /\ Places(file, torn, page[Len(page)], cursor)
  BY DEF Paging, Following
<1> HIDE DEF NewLine
<1>6. /\ Aged(w, u, now + 1) /\ Counting(w, u)
      /\ \A time \in Nat : \A number : time <= now /\ Places(file, torn, time, number) => Places(w, u, time, number)
  BY <1>1, <1>2, <1>3, <1>4, <1>5, CarriedOrder
<1>7. cursor # 0 => Places(w, u, page[Len(page)], cursor)
  <2> SUFFICES ASSUME cursor # 0 PROVE Places(w, u, page[Len(page)], cursor)
    OBVIOUS
  <2>1. page[Len(page)] \in Nat /\ page[Len(page)] <= now
    BY <1>5, PageEnd
  <2> QED
    BY <1>5, <1>6, <2>1
<1>8. \A p \in Whole(w, u) : p \in 2 .. Len(w) /\ IsRec(w[p]) /\ (u => p # Len(w))
  <2>1. \A p \in Whole(w, u) : p \in 2 .. Reach(w, u)
    BY <1>3, WholeFacts
  <2>2. \A p \in 2 .. Reach(w, u) : IsRec(w[p])
    BY <1>3, <1>4, WholeFacts
  <2> QED
    BY <2>1, <2>2 DEF Whole
<1>9. \A p \in Whole(file, torn) : file[p].seq <= lastSeq /\ file[p].seq \in Nat
  BY <1>1, <1>5, WholeFacts DEF Within
<1>10. ASSUME NEW p \in Whole(w, u) PROVE w[p].seq <= lastSeq + 1 /\ (u => w[p].seq <= lastSeq)
  <2>1. CASE p \in Whole(file, torn) /\ w[p] = file[p]
    BY <1>1, <1>9, <2>1
  <2>2. CASE p = Len(w) /\ w[p] = NewLine
    BY <1>1, <1>2, <1>8, <2>2
  <2> QED
    BY <1>3, <1>8, <2>1, <2>2 DEF Carried
<1>11. Within(w, u, lastSeq + 1) /\ (u => Within(w, u, lastSeq))
  BY <1>10 DEF Within
<1> QED
  BY <1>3, <1>4, <1>6, <1>7, <1>11

LEMMA CleanFlaws == Disk /\ flaws = {} => ~View.corrupt
BY DEF Disk, Clean

\* An append that leaves a whole or a torn line.
LEMMA PagingWritten ==
  ASSUME HTypeOK, Disk, Disk', Paging, Writable, NEW l \in {Junk, NewLine}, file' = Written(file, torn, l),
         torn' \in BOOLEAN, now' = now + 1, UNCHANGED <<cursor, page>>, flaws' = {} => flaws = {},
         Writable' => (torn' /\ lastSeq' = lastSeq) \/ lastSeq' = lastSeq + 1
  PROVE  Paging'
<1> SUFFICES ASSUME flaws' = {}, flaws = {}
             PROVE  /\ Aged(file', torn', now')
                    /\ Unnumbered(file', torn') \/ Counting(file', torn')
                    /\ Writable' => Counting(file', torn') /\ Within(file', torn', lastSeq')
                    /\ page' \in Seq(Nat) /\ \A i \in 1 .. Len(page') : page'[i] <= now'
                    /\ Following'
  BY DEF Paging
<1>1. ~Scan(file', torn').corrupt
  BY CleanFlaws DEF View, Disk, Clean
<1>2. /\ Aged(file', torn', now + 1) /\ Counting(file', torn')
      /\ Within(file', torn', lastSeq + 1) /\ (torn' => Within(file', torn', lastSeq))
      /\ cursor # 0 => Places(file', torn', page[Len(page)], cursor)
  BY <1>1, WriteOrdered
<1>3. /\ page \in Seq(Nat) /\ \A i \in 1 .. Len(page) : page[i] <= now
      /\ cursor # 0 => page # <<>>
  BY DEF Paging, Following
<1>4. \A i \in 1 .. Len(page') : page'[i] <= now'
  <2> TAKE i \in 1 .. Len(page')
  <2>1. page[i] <= now /\ page[i] \in Nat /\ now \in Nat
    BY <1>3 DEF HTypeOK
  <2> QED
    BY <2>1
<1>5. Following'
  BY <1>2, <1>3 DEF Following
<1>6. Writable' => Within(file', torn', lastSeq')
  BY <1>2
<1> QED
  BY <1>2, <1>3, <1>4, <1>5, <1>6

\* An eviction happens only behind a line that has its terminator, else the
\* file it leaves is corrupt.
LEMMA EvictWhole ==
  ASSUME HTypeOK, Disk, Writable, NEW w, w = Written(file, torn, NewLine), Len(EvictLines(w)) > FileCap,
         NEW e, e = Evicted(w, fileDropped, lastSeq + 1), ~Scan(e, FALSE).corrupt, ~View.corrupt
  PROVE  ~torn /\ ~Scan(w, FALSE).corrupt
<1>1. /\ file \in Seq(HistoryLines) /\ torn \in BOOLEAN /\ file # <<>> /\ Slot(file) # "rec"
      /\ fileDropped \in Nat /\ lastSeq + 1 \in Nat
  BY DEF HTypeOK, Disk, Shape
<1>2. NewLine \in HistoryLines /\ IsRec(NewLine) /\ ~IsRec(Junk)
  BY NewLineFacts, HistoryLineFacts
<1>3. IsWritten(w, file, torn, NewLine)
  BY <1>1, <1>2, WrittenFacts
<1>4. w \in Seq(HistoryLines) /\ w # <<>> /\ Slot(w) # "rec" /\ Len(file) \in Nat /\ Len(file) > 0 /\ Len(w) \in Nat
  BY <1>1, <1>3, LenProperties, EmptySeq DEF IsWritten
<1>5. PICK k \in Nat : Shifted(e, w, k)
  BY <1>1, <1>4, EvictedShifted
<1>6. e \in Seq(HistoryLines) /\ Slot(e) = "meta" /\ Len(e) \in Nat
  <2>1. e \in Seq(HistoryLines) /\ Slot(e) = "meta"
    BY <1>1, <1>4, EvictedShifted
  <2> QED
    BY <2>1, LenProperties
<1>7. Reach(e, FALSE) = Len(e) /\ Reach(w, FALSE) = Len(w)
  BY DEF Reach
<1>8. ~torn
  <2> SUFFICES ASSUME torn PROVE FALSE
    OBVIOUS
  <2>1. Len(w) = Len(file) /\ w[Len(file)] = Junk
    BY <1>3 DEF IsWritten
  <2>2. Len(e) \in 2 .. Len(e) /\ e[Len(e)] = w[Len(e) + k] /\ Len(e) + k = Len(w)
    <3>1. Len(e) > 1 /\ Len(e) + k = Len(w) /\ \A p \in 2 .. Len(e) : e[p] = w[p + k]
      BY <1>5 DEF Shifted
    <3>2. Len(e) \in 2 .. Len(e)
      <4> DEFINE n == Len(e)
      <4>1. n > 1 /\ n \in Nat
        BY <1>6, <3>1
      <4> HIDE DEF n
      <4>2. n \in 2 .. n
        BY <4>1
      <4> QED
        BY <4>2 DEF n
    <3> QED
      BY <3>1, <3>2
  <2>3. ~IsRec(e[Len(e)])
    BY <1>2, <2>1, <2>2
  <2>4. \A p \in 2 .. Reach(e, FALSE) : IsRec(e[p])
    BY <1>6, WholeFacts
  <2> QED
    BY <1>7, <2>2, <2>3, <2>4
<1>9. Len(w) = Len(file) + 1 /\ w[Len(file) + 1] = NewLine /\ \A i \in 1 .. Len(file) : w[i] = file[i]
  BY <1>3, <1>8 DEF IsWritten
<1>10. \A p \in 2 .. Len(file) : IsRec(file[p])
  <2>1. Reach(file, torn) = Len(file)
    BY <1>8 DEF Reach
  <2> QED
    BY <1>1, <2>1, WholeFacts DEF View
<1>11. ASSUME NEW p \in 2 .. Len(w) PROVE IsRec(w[p])
  <2>1. CASE p = Len(file) + 1
    BY <1>2, <1>9, <2>1
  <2>2. CASE p # Len(file) + 1
    <3>1. p \in 2 .. Len(file) /\ p \in 1 .. Len(file)
      BY <1>4, <1>9, <2>2
    <3> QED
      BY <1>9, <1>10, <3>1
  <2> QED
    BY <2>1, <2>2
<1>12. ~Scan(w, FALSE).corrupt
  BY <1>4, <1>7, <1>11, ScanFacts
<1> QED
  BY <1>8, <1>12

\* An append that evicts.
LEMMA PagingEvicted ==
  ASSUME HTypeOK, Disk, Disk', Paging, Evicts, UNCHANGED <<cursor, page>>, flaws' = {} => flaws = {}
  PROVE  Paging'
<1> SUFFICES ASSUME flaws' = {}, flaws = {}
             PROVE  /\ Aged(file', torn', now')
                    /\ Unnumbered(file', torn') \/ Counting(file', torn')
                    /\ Writable' => Counting(file', torn') /\ Within(file', torn', lastSeq')
                    /\ page' \in Seq(Nat) /\ \A i \in 1 .. Len(page') : page'[i] <= now'
                    /\ Following'
  BY DEF Paging
<1> DEFINE w == Written(file, torn, NewLine)
<1>1. /\ Writable /\ torn' = FALSE /\ now' = now + 1 /\ lastSeq' = lastSeq + 1
      /\ Len(EvictLines(w)) > FileCap /\ file' = Evicted(w, fileDropped, lastSeq + 1)
  BY DEF Evicts, Syncs
<1>2. ~Scan(file', FALSE).corrupt /\ ~View.corrupt
  BY <1>1, CleanFlaws DEF View, Disk, Clean
<1>3. w = Written(file, torn, NewLine)
  OBVIOUS
<1> HIDE DEF w
<1>4. ~Scan(w, FALSE).corrupt
  BY <1>1, <1>2, <1>3, EvictWhole
<1>5. /\ w \in Seq(HistoryLines) /\ w # <<>> /\ Slot(w) # "rec" /\ Aged(w, FALSE, now + 1) /\ Counting(w, FALSE)
      /\ Within(w, FALSE, lastSeq + 1)
      /\ cursor # 0 => Places(w, FALSE, page[Len(page)], cursor)
  <2>1. NewLine \in {Junk, NewLine} /\ FALSE \in BOOLEAN
    OBVIOUS
  <2> QED
    BY <1>1, <1>3, <1>4, <2>1, WriteOrdered
<1>6. fileDropped \in Nat /\ lastSeq + 1 \in Nat /\ now + 1 \in Nat /\ now \in Nat
  BY DEF HTypeOK
<1>7. PICK k \in Nat : Shifted(file', w, k)
  BY <1>1, <1>5, <1>6, EvictedShifted
<1>8. file' \in Seq(HistoryLines)
  BY <1>1, <1>5, <1>6, EvictedShifted
<1>9. /\ Aged(file', FALSE, now + 1) /\ Counting(file', FALSE) /\ Within(file', FALSE, lastSeq + 1)
      /\ cursor # 0 => Places(file', FALSE, page[Len(page)], cursor)
  BY <1>5, <1>6, <1>7, <1>8, ShiftedOrder
<1>10. /\ page \in Seq(Nat) /\ \A i \in 1 .. Len(page) : page[i] <= now
       /\ cursor # 0 => page # <<>>
  BY DEF Paging, Following
<1>11. \A i \in 1 .. Len(page') : page'[i] <= now'
  <2> TAKE i \in 1 .. Len(page')
  <2>1. page[i] <= now /\ page[i] \in Nat
    BY <1>10
  <2> QED
    BY <1>1, <1>6, <2>1
<1>12. Following'
  BY <1>1, <1>9, <1>10 DEF Following
<1> QED
  BY <1>1, <1>9, <1>10, <1>11, <1>12

\* The records a scan returns, by the places of the lines.
LEMMA ViewLines ==
  ASSUME NEW f \in Seq(HistoryLines), NEW t \in BOOLEAN, Slot(f) # "rec", ~Scan(f, t).corrupt, f # <<>>,
         NEW r, r = Scan(f, t).recs
  PROVE  /\ r \in Seq(HistoryLines) /\ DOMAIN r = 1 .. Len(r) /\ Len(r) \in Nat /\ Len(r) = Reach(f, t) - 1
         /\ \A i \in 1 .. Len(r) : r[i] = f[i + 1] /\ i + 1 \in 2 .. Reach(f, t)
         /\ \A p \in 2 .. Reach(f, t) : p - 1 \in 1 .. Len(r) /\ f[p] = r[p - 1]
<1>1. /\ r \in Seq(HistoryLines) /\ Len(r) = Reach(f, t) - 1 /\ \A i \in 1 .. Len(r) : r[i] = f[i + 1]
  <2>1. /\ Scan(f, t).recs \in Seq(HistoryLines) /\ ~Scan(f, t).corrupt /\ f # <<>>
        /\ Len(Scan(f, t).recs) = IF f = <<>> \/ Scan(f, t).corrupt THEN 0 ELSE Reach(f, t) - 1
        /\ \A i \in 1 .. Len(Scan(f, t).recs) : Scan(f, t).recs[i] = f[i + 1]
    BY ScanFacts
  <2> QED
    BY <2>1
<1>2. DOMAIN r = 1 .. Len(r) /\ Len(r) \in Nat /\ Reach(f, t) \in Nat
  BY <1>1, LenProperties, WholeFacts
<1>3. ASSUME NEW p \in 2 .. Reach(f, t) PROVE p - 1 \in 1 .. Len(r) /\ f[p] = r[p - 1]
  <2>1. p - 1 \in 1 .. Len(r) /\ p - 1 + 1 = p
    BY <1>1, <1>2
  <2>2. r[p - 1] = f[p - 1 + 1]
    BY <1>1, <2>1
  <2> QED
    BY <2>1, <2>2
<1>4. \A i \in 1 .. Len(r) : i + 1 \in 2 .. Reach(f, t)
  <2> TAKE i \in 1 .. Len(r)
  <2>1. Len(r) = Reach(f, t) - 1
    BY <1>1
  <2> QED
    BY <1>2, <2>1
<1> QED
  BY <1>1, <1>2, <1>3, <1>4

\* A start numbers the records of an old file, which no cursor names, and
\* takes up the highest number.
LEMMA PagingOpen ==
  ASSUME HTypeOK, Disk, Disk', Mirrored, Paging, Open
  PROVE  Paging'
<1> SUFFICES ASSUME flaws' = {}
             PROVE  /\ Aged(file', torn', now')
                    /\ Unnumbered(file', torn') \/ Counting(file', torn')
                    /\ Writable' => Counting(file', torn') /\ Within(file', torn', lastSeq')
                    /\ page' \in Seq(Nat) /\ \A i \in 1 .. Len(page') : page'[i] <= now'
                    /\ Following'
  BY DEF Paging
<1> DEFINE s0 == Scan(Opened, torn)
<1>1. /\ ~s0.corrupt /\ UNCHANGED <<cursor, page, now, flaws>>
      /\ file' = IF s0.legacy THEN Migrated(s0) ELSE Opened
      /\ torn' = IF s0.legacy THEN FALSE ELSE torn
      /\ \A i \in DOMAIN View'.recs : lastSeq' >= View'.recs[i].seq
  BY DEF Open, clientVars, View
<1>2. /\ file \in Seq(HistoryLines) /\ torn \in BOOLEAN /\ Slot(file) # "rec" /\ now \in Nat
      /\ (file = <<>> => ~torn)
  BY DEF HTypeOK, Disk, Shape
<1>3. /\ Aged(file, torn, now) /\ page \in Seq(Nat) /\ (\A i \in 1 .. Len(page) : page[i] <= now)
      /\ Following /\ (Unnumbered(file, torn) \/ Counting(file, torn))
  BY <1>1 DEF Paging
<1>4. file' \in Seq(HistoryLines) /\ torn' \in BOOLEAN
  BY DiskInvStep DEF Next
<1>5. /\ ~View'.corrupt /\ \A p \in 2 .. Reach(file', torn') : file'[p].seq # 0
  BY OpenSequenced
<1>6. Slot(file') # "rec"
  BY DEF Disk, Shape
<1>7. /\ Opened \in Seq(HistoryLines) /\ Opened # <<>> /\ Slot(Opened) # "rec"
      /\ Aged(Opened, torn, now) /\ (Unnumbered(Opened, torn) \/ Counting(Opened, torn))
      /\ cursor # 0 => /\ page # <<>> /\ Counting(Opened, torn)
                       /\ Places(Opened, torn, page[Len(page)], cursor)
  <2>1. CASE file = <<>>
    <3> DEFINE o == MetaLine(0, 0, FALSE)
    <3>1. o \in HistoryLines /\ o.kind = "meta" /\ Opened = <<o>>
      BY <2>1, MetaLineFacts DEF Opened
    <3> HIDE DEF o
    <3>2. <<o>> \in Seq(HistoryLines) /\ Len(<<o>>) = 1 /\ <<o>>[1] = o /\ <<o>> # <<>>
      BY <3>1
    <3>3. Slot(<<o>>) # "rec" /\ Reach(<<o>>, torn) = 1
      BY <3>1, <3>2 DEF Slot, Reach
    <3>4. \A p \in 2 .. Reach(<<o>>, torn) : FALSE
      BY <3>3
    <3>5. Aged(<<o>>, torn, now) /\ Counting(<<o>>, torn) /\ \A x, y : Places(<<o>>, torn, x, y)
      BY <3>4 DEF Aged, Counting, Places
    <3> QED
      BY <1>3, <3>1, <3>2, <3>3, <3>5 DEF Following
  <2>2. CASE file # <<>>
    BY <1>2, <1>3, <2>2 DEF Opened, Following
  <2> QED
    BY <2>1, <2>2
<1> DEFINE r == s0.recs
<1>8. /\ r \in Seq(HistoryLines) /\ Len(r) \in Nat /\ Len(r) = Reach(Opened, torn) - 1
      /\ \A i \in 1 .. Len(r) : r[i] = Opened[i + 1] /\ i + 1 \in 2 .. Reach(Opened, torn)
  BY <1>1, <1>2, <1>7, ViewLines
<1>9. s0.inc \in BOOLEAN /\ s0.dropped \in Nat /\ (s0.legacy <=> \E i \in 1 .. Len(r) : r[i].seq = 0)
  BY <1>2, <1>7, ScanFacts
<1> HIDE DEF s0
<1>10. ASSUME s0.legacy PROVE Aged(file', torn', now') /\ Counting(file', torn') /\ Following'
  <2>1. PICK i \in 1 .. Len(r) : r[i].seq = 0
    BY <1>9, <1>10
  <2>2. ~Counting(Opened, torn)
    BY <1>8, <2>1 DEF Counting
  <2>3. cursor = 0
    BY <1>7, <2>2
  <2>4. /\ Len(file') = Len(r) + 1
        /\ \A k \in 1 .. Len(r) : file'[k + 1].at = r[k].at /\ file'[k + 1].seq = k
    <3>1. IsMigrated(file', r, s0.inc, s0.dropped)
      BY <1>1, <1>8, <1>9, <1>10, MigratedFacts
    <3> QED
      BY <3>1 DEF IsMigrated
  <2>5. torn' = FALSE /\ Reach(file', torn') = Len(file')
    BY <1>1, <1>10 DEF Reach
  <2>6. ASSUME NEW p \in 2 .. Reach(file', torn')
        PROVE  /\ p \in 2 .. Reach(Opened, torn) /\ file'[p].at = Opened[p].at
               /\ file'[p].seq = p - 1
    <3>1. p - 1 \in 1 .. Len(r) /\ p - 1 + 1 = p
      BY <1>8, <2>4, <2>5
    <3>2. file'[p - 1 + 1].at = r[p - 1].at /\ file'[p - 1 + 1].seq = p - 1 /\ r[p - 1] = Opened[p - 1 + 1]
          /\ p - 1 + 1 \in 2 .. Reach(Opened, torn)
      BY <1>8, <2>4, <3>1
    <3> QED
      BY <3>1, <3>2
  <2>7. Aged(file', torn', now)
    <3> SUFFICES ASSUME NEW p \in 2 .. Reach(file', torn')
                 PROVE  file'[p].at <= now /\ \A q \in 2 .. p - 1 : file'[q].at < file'[p].at
      BY DEF Aged
    <3>1. p \in 2 .. Reach(Opened, torn) /\ file'[p].at = Opened[p].at
      BY <2>6
    <3>2. Opened[p].at <= now /\ \A q \in 2 .. p - 1 : Opened[q].at < Opened[p].at
      BY <1>7, <3>1 DEF Aged
    <3>3. Reach(file', torn') \in Nat
      BY <1>4, WholeFacts
    <3>4. \A q \in 2 .. p - 1 : q \in 2 .. Reach(file', torn')
      BY <3>3
    <3>5. \A q \in 2 .. p - 1 : file'[q].at = Opened[q].at
      BY <2>6, <3>4
    <3> QED
      BY <3>1, <3>2, <3>5
  <2>8. Counting(file', torn')
    <3> SUFFICES ASSUME NEW p \in 2 .. Reach(file', torn')
                 PROVE  file'[p].seq > 0 /\ \A q \in 2 .. p - 1 : file'[q].seq < file'[p].seq
      BY DEF Counting
    <3>1. file'[p].seq = p - 1 /\ p - 1 > 0
      BY <2>6
    <3>2. Reach(file', torn') \in Nat
      BY <1>4, WholeFacts
    <3>3. \A q \in 2 .. p - 1 : q \in 2 .. Reach(file', torn')
      BY <3>2
    <3>4. \A q \in 2 .. p - 1 : file'[q].seq = q - 1 /\ q - 1 < p - 1
      BY <2>6, <3>3
    <3> QED
      BY <3>1, <3>4
  <2> QED
    BY <1>1, <2>3, <2>7, <2>8 DEF Following
<1>11. ASSUME ~s0.legacy PROVE Aged(file', torn', now') /\ Counting(file', torn') /\ Following'
  <2>1. file' = Opened /\ torn' = torn
    BY <1>1, <1>11
  <2>2. ~Unnumbered(file', torn')
    BY <1>5 DEF Unnumbered
  <2>3. Aged(file', torn', now) /\ Counting(file', torn')
    BY <1>7, <2>1, <2>2
  <2> QED
    BY <1>1, <1>7, <2>1, <2>3 DEF Following
<1>12. Aged(file', torn', now') /\ Counting(file', torn') /\ Following'
  BY <1>1, <1>10, <1>11
<1>13. Within(file', torn', lastSeq')
  <2> SUFFICES ASSUME NEW p \in Whole(file', torn') PROVE file'[p].seq <= lastSeq'
    BY DEF Within
  <2>1. p \in 2 .. Reach(file', torn')
    BY <1>4, WholeFacts
  <2>2. file' # <<>>
    <3>1. Writable'
      BY OpenFacts
    <3> QED
      BY <3>1 DEF Disk
  <2>3. p - 1 \in DOMAIN View'.recs /\ file'[p] = View'.recs[p - 1]
    BY <1>4, <1>5, <1>6, <2>1, <2>2, ViewLines DEF View
  <2>4. lastSeq' >= file'[p].seq /\ file'[p].seq \in Nat /\ lastSeq' \in Nat
    <3>1. file'[p].seq \in Nat
      BY <1>4, <2>1, WholeFacts
    <3>2. lastSeq' \in Nat
      BY OpenFacts
    <3> QED
      BY <1>1, <2>3, <3>1, <3>2
  <2> QED
    BY <2>4
<1> QED
  BY <1>1, <1>3, <1>12, <1>13

\* What a page shows: records up to e, the newest first; the cursor that goes
\* with it is the number of its last one.
IsPage(times, next, r, e) ==
  /\ times \in Seq(Nat) /\ \A i \in 1 .. Len(times) : \E j \in 1 .. e : times[i] = r[j].at
  /\ e = 0 => times = <<>>
  /\ e > 0 => times # <<>> /\ times[1] = r[e].at
  /\ next # 0 => times # <<>> /\ \E j \in 1 .. e : next = r[j].seq /\ times[Len(times)] = r[j].at

LEMMA PageFacts ==
  ASSUME NEW r \in Seq(HistoryLines), NEW e \in 0 .. Len(r), NEW n \in Nat \ {0}
  PROVE  IsPage(Page(r, e, n).times, Page(r, e, n).next, r, e)
<1> DEFINE b == IF e > n THEN e - n ELSE 0
           times == [i \in 1 .. e - b |-> r[e - i + 1].at]
           next == IF b > 0 THEN r[b + 1].seq ELSE 0
<1>1. Page(r, e, n).times = times /\ Page(r, e, n).next = next
  BY DEF Page
<1>2. Len(r) \in Nat /\ e \in Nat /\ e <= Len(r) /\ \A j \in 1 .. Len(r) : r[j].at \in Nat
  BY LenProperties, HistoryLineFacts
<1>3. b \in Nat /\ e - b \in Nat /\ (e > 0 => e - b > 0) /\ (b > 0 => e > 0 /\ e - b = n) /\ (e = 0 => e - b = 0)
  BY <1>2
<1> HIDE DEF b
<1>4. \A i \in 1 .. e - b : e - i + 1 \in 1 .. e /\ e - i + 1 \in 1 .. Len(r)
  BY <1>2, <1>3
<1>5. \A i \in 1 .. e - b : r[e - i + 1].at \in Nat
  BY <1>2, <1>4
<1>6. times \in Seq(Nat) /\ Len(times) = e - b /\ \A i \in 1 .. e - b : times[i] = r[e - i + 1].at
  BY <1>3, <1>5
<1> HIDE DEF times
<1>7. \A i \in 1 .. Len(times) : \E j \in 1 .. e : times[i] = r[j].at
  BY <1>4, <1>6
<1>8. e = 0 => times = <<>>
  BY <1>3, <1>6, EmptySeq
<1>9. e > 0 => times # <<>> /\ times[1] = r[e].at
  <2> SUFFICES ASSUME e > 0 PROVE times # <<>> /\ times[1] = r[e].at
    OBVIOUS
  <2>1. 1 \in 1 .. e - b /\ e - 1 + 1 = e /\ e - b # 0
    BY <1>2, <1>3
  <2>2. times[1] = r[e - 1 + 1].at
    BY <1>6, <2>1
  <2>3. times # <<>>
    BY <1>6, <2>1, EmptySeq
  <2> QED
    BY <2>1, <2>2, <2>3
<1>10. ASSUME next # 0 PROVE times # <<>> /\ \E j \in 1 .. e : next = r[j].seq /\ times[Len(times)] = r[j].at
  <2>1. b > 0 /\ next = r[b + 1].seq
    BY <1>10
  <2>2. e > 0 /\ e - b \in 1 .. e - b /\ e - (e - b) + 1 = b + 1
    BY <1>2, <1>3, <2>1
  <2>3. times[e - b] = r[e - (e - b) + 1].at /\ e - (e - b) + 1 \in 1 .. e
    BY <1>4, <1>6, <2>2
  <2>4. times[Len(times)] = r[b + 1].at /\ b + 1 \in 1 .. e
    BY <1>6, <2>2, <2>3
  <2> QED
    BY <1>9, <2>1, <2>2, <2>4
<1> HIDE DEF next
<1>11. IsPage(times, next, r, e)
  BY <1>6, <1>7, <1>8, <1>9, <1>10 DEF IsPage
<1> QED
  BY <1>1, <1>11

\* The order of the records a scan returns.
InSequence(r, n) ==
  /\ \A i \in 1 .. Len(r) : r[i].at \in Nat /\ r[i].seq \in Nat /\ r[i].at <= n /\ r[i].seq > 0
  /\ \A i, j \in 1 .. Len(r) : i < j => r[i].at < r[j].at /\ r[i].seq < r[j].seq

LEMMA ViewInSequence ==
  ASSUME NEW f \in Seq(HistoryLines), NEW t \in BOOLEAN, Slot(f) # "rec", ~Scan(f, t).corrupt, f # <<>>,
         NEW n \in Nat, Aged(f, t, n), Counting(f, t)
  PROVE  InSequence(Scan(f, t).recs, n)
<1> DEFINE r == Scan(f, t).recs
<1>1. /\ Len(r) \in Nat
      /\ \A i \in 1 .. Len(r) : r[i] = f[i + 1] /\ i + 1 \in 2 .. Reach(f, t)
  BY ViewLines
<1>2. \A p \in 2 .. Reach(f, t) : f[p].at \in Nat /\ f[p].seq \in Nat
  BY WholeFacts
<1> HIDE DEF r
<1>3. ASSUME NEW i \in 1 .. Len(r) PROVE r[i].at \in Nat /\ r[i].seq \in Nat /\ r[i].at <= n /\ r[i].seq > 0
  BY <1>1, <1>2 DEF Aged, Counting
<1>4. ASSUME NEW i \in 1 .. Len(r), NEW j \in 1 .. Len(r), i < j PROVE r[i].at < r[j].at /\ r[i].seq < r[j].seq
  <2>1. i + 1 \in 2 .. (j + 1) - 1 /\ j + 1 \in 2 .. Reach(f, t)
    BY <1>1, <1>4
  <2>2. f[i + 1].at < f[j + 1].at /\ f[i + 1].seq < f[j + 1].seq
    BY <2>1 DEF Aged, Counting
  <2> QED
    BY <1>1, <2>2
<1> QED
  BY <1>3, <1>4 DEF InSequence, r

\* Two records at one time, or with one number, are one.
LEMMA OneRecord ==
  ASSUME NEW r, NEW n, InSequence(r, n), NEW i \in 1 .. Len(r), NEW j \in 1 .. Len(r),
         r[i].at = r[j].at \/ r[i].seq = r[j].seq
  PROVE  i = j
<1>1. r[i].at \in Nat /\ r[j].at \in Nat /\ r[i].seq \in Nat /\ r[j].seq \in Nat
  BY DEF InSequence
<1>2. i < j => r[i].at < r[j].at /\ r[i].seq < r[j].seq
  BY DEF InSequence
<1>3. j < i => r[j].at < r[i].at /\ r[j].seq < r[i].seq
  BY DEF InSequence
<1>4. i < j \/ j < i \/ i = j
  OBVIOUS
<1> QED
  BY <1>1, <1>2, <1>3, <1>4

\* The cursor's record, when it is retained.
LEMMA ResolveFacts ==
  ASSUME NEW r, NEW n, DOMAIN r = 1 .. Len(r), InSequence(r, n), NEW i \in 1 .. Len(r)
  PROVE  Resolve(r, r[i].seq) = i
<1> DEFINE c == r[i].seq
           P(k) == r[k].seq = c /\ \A j \in DOMAIN r : r[j].seq = c => k <= j
<1>1. \A j \in 1 .. Len(r) : r[j].seq = c => i = j
  BY OneRecord
<1>2. P(i)
  BY <1>1
<1>3. \A k \in 1 .. Len(r) : P(k) => i = k
  BY <1>1
<1>4. Resolve(r, c) = CHOOSE k \in 1 .. Len(r) : P(k)
  BY DEF Resolve
<1> HIDE DEF P, c
<1>5. (CHOOSE k \in 1 .. Len(r) : P(k)) = i
  BY <1>2, <1>3, Zenon
<1> QED
  BY <1>4, <1>5 DEF c

\* What a read finds.
LEMMA ReadFinds ==
  ASSUME HTypeOK, Disk, Paging, flaws = {}, Writable
  PROVE  /\ ~View.corrupt /\ View.recs \in Seq(HistoryLines) /\ DOMAIN View.recs = 1 .. Len(View.recs)
         /\ InSequence(View.recs, now)
         /\ \A i \in 1 .. Len(View.recs) : View.recs[i] = file[i + 1] /\ i + 1 \in 2 .. Reach(file, torn)
         /\ \A p \in 2 .. Reach(file, torn) : p - 1 \in 1 .. Len(View.recs) /\ file[p] = View.recs[p - 1]
<1>1. /\ file \in Seq(HistoryLines) /\ torn \in BOOLEAN /\ now \in Nat /\ Slot(file) # "rec" /\ file # <<>>
  BY DEF HTypeOK, Disk, Shape
<1>2. ~View.corrupt
  BY CleanFlaws
<1>3. Aged(file, torn, now) /\ Counting(file, torn)
  BY DEF Paging
<1>4. InSequence(View.recs, now)
  BY <1>1, <1>2, <1>3, ViewInSequence DEF View
<1> QED
  BY <1>1, <1>2, <1>4, ViewLines DEF View

LEMMA ServedPage ==
  ASSUME HTypeOK, Disk, Paging, flaws = {}, Writable, NEW e \in 0 .. Len(View.recs), Serve(View.recs, e)
  PROVE  /\ IsPage(page', cursor', View.recs, e)
         /\ page' \in Seq(Nat) /\ \A i \in 1 .. Len(page') : page'[i] <= now
         /\ cursor' # 0 => page' # <<>> /\ Places(file, torn, page'[Len(page')], cursor')
<1> DEFINE r == View.recs
<1>1. /\ r \in Seq(HistoryLines) /\ InSequence(r, now)
      /\ \A p \in 2 .. Reach(file, torn) : p - 1 \in 1 .. Len(r) /\ file[p] = r[p - 1]
  BY ReadFinds
<1>2. page' = Page(r, e, PageSize).times /\ cursor' = Page(r, e, PageSize).next
  BY DEF Serve
<1>3. PageSize \in Nat \ {0} /\ Len(r) \in Nat
  BY <1>1, TransitionConstants, LenProperties
<1> HIDE DEF r
<1>4. e \in 0 .. Len(r)
  BY DEF r
<1>5. IsPage(page', cursor', r, e)
  BY <1>1, <1>2, <1>3, <1>4, PageFacts
<1>6. \A j \in 1 .. e : j \in 1 .. Len(r)
  BY <1>3, <1>4
<1>7. \A i \in 1 .. Len(page') : page'[i] <= now
  <2> TAKE i \in 1 .. Len(page')
  <2>1. PICK j \in 1 .. e : page'[i] = r[j].at
    BY <1>5 DEF IsPage
  <2> QED
    BY <1>1, <1>6, <2>1 DEF InSequence
<1>8. ASSUME cursor' # 0 PROVE page' # <<>> /\ Places(file, torn, page'[Len(page')], cursor')
  <2>1. PICK j \in 1 .. e : cursor' = r[j].seq /\ page'[Len(page')] = r[j].at
    BY <1>5, <1>8 DEF IsPage
  <2>2. ASSUME NEW p \in 2 .. Reach(file, torn), file[p].at = page'[Len(page')] PROVE file[p].seq = cursor'
    <3>1. p - 1 \in 1 .. Len(r) /\ file[p] = r[p - 1] /\ j \in 1 .. Len(r)
      BY <1>1, <1>6
    <3>2. p - 1 = j
      BY <1>1, <2>1, <2>2, <3>1, OneRecord
    <3> QED
      BY <2>1, <3>1, <3>2
  <2>3. Places(file, torn, page'[Len(page')], cursor')
    BY <2>2 DEF Places
  <2> QED
    BY <1>5, <1>8, <2>3 DEF IsPage
<1>9. page' \in Seq(Nat)
  BY <1>5 DEF IsPage
<1> QED
  BY <1>5, <1>7, <1>8, <1>9 DEF r

\* What a read shows the client.
LEMMA ReadShows ==
  ASSUME HTypeOK, Disk, Paging, flaws = {}, ReadBefore
  PROVE  \/ page' = <<>> /\ cursor' = 0 /\ cursor # 0 /\ ~Retained(View.recs, cursor)
         \/ /\ \E e \in 0 .. Len(View.recs) :
                 /\ Serve(View.recs, e)
                 /\ cursor # 0 =>
                      \E i \in 1 .. Len(View.recs) : View.recs[i].seq = cursor /\ e = i - 1
<1>1. Writable
  BY DEF ReadBefore, Writable
<1>2. ~View.corrupt /\ View.recs \in Seq(HistoryLines) /\ DOMAIN View.recs = 1 .. Len(View.recs) /\ InSequence(View.recs, now)
  BY <1>1, ReadFinds
<1>3. \/ cursor = 0 /\ Serve(View.recs, Len(View.recs))
      \/ cursor # 0 /\ Retained(View.recs, cursor) /\ Serve(View.recs, Resolve(View.recs, cursor) - 1)
      \/ cursor # 0 /\ ~Retained(View.recs, cursor) /\ page' = <<>> /\ cursor' = 0
  BY <1>2 DEF ReadBefore, View
<1> DEFINE r == View.recs
<1>4. Len(r) \in Nat /\ Len(r) \in 0 .. Len(r)
  BY <1>2, LenProperties
<1> HIDE DEF r
<1>5. CASE cursor = 0 /\ Serve(r, Len(r))
  BY <1>4, <1>5 DEF r
<1>6. CASE cursor # 0 /\ Retained(r, cursor) /\ Serve(r, Resolve(r, cursor) - 1)
  <2>1. PICK i \in 1 .. Len(r) : r[i].seq = cursor
    BY <1>2, <1>6 DEF Retained, r
  <2>2. Resolve(r, cursor) = i
    BY <1>2, <2>1, ResolveFacts DEF r
  <2>3. i - 1 \in 0 .. Len(r) /\ Serve(r, i - 1)
    BY <1>4, <1>6, <2>2
  <2> QED
    BY <2>1, <2>3 DEF r
<1> QED
  BY <1>3, <1>5, <1>6 DEF r

LEMMA PagingRead ==
  ASSUME HTypeOK, Disk, Paging, ReadBefore
  PROVE  Paging'
<1>1. Writable /\ UNCHANGED <<file, torn, lastSeq, now, flaws>> /\ Writable' = Writable
  BY DEF ReadBefore, Writable, diskVars, histVars
<1> SUFFICES ASSUME flaws = {}
             PROVE  /\ Aged(file, torn, now) /\ Counting(file, torn) /\ Within(file, torn, lastSeq)
                    /\ page' \in Seq(Nat) /\ \A i \in 1 .. Len(page') : page'[i] <= now
                    /\ cursor' # 0 => page' # <<>> /\ Places(file, torn, page'[Len(page')], cursor')
  BY <1>1 DEF Paging, Following
<1>2. Aged(file, torn, now) /\ Counting(file, torn) /\ Within(file, torn, lastSeq)
  BY <1>1 DEF Paging
<1>3. CASE page' = <<>> /\ cursor' = 0
  <2>1. <<>> \in Seq(Nat) /\ Len(<<>>) = 0
    OBVIOUS
  <2>2. page' \in Seq(Nat) /\ Len(page') = 0
    BY <1>3, <2>1
  <2> QED
    BY <1>2, <1>3, <2>2
<1>4. ASSUME NEW e \in 0 .. Len(View.recs), Serve(View.recs, e)
      PROVE  /\ page' \in Seq(Nat) /\ \A i \in 1 .. Len(page') : page'[i] <= now
             /\ cursor' # 0 => page' # <<>> /\ Places(file, torn, page'[Len(page')], cursor')
  BY <1>1, <1>4, ServedPage
<1> QED
  BY <1>2, <1>3, <1>4, ReadShows

\* Every step keeps the order.
LEMMA PagingStep ==
  ASSUME HistoryInv, Paging, Next
  PROVE  Paging'
<1>a. HTypeOK /\ Disk /\ Mirrored /\ file \in Seq(HistoryLines) /\ torn \in BOOLEAN /\ now \in Nat
  BY DEF HistoryInv, HTypeOK
<1>b. Disk'
  BY <1>a, DiskInvStep
<1>1. CASE OpenFails \/ OpenUnreadable
  <2>1. ~Writable' /\ UNCHANGED <<now, flaws, cursor, page>>
    BY <1>1 DEF OpenFails, OpenUnreadable, Writable, clientVars
  <2>2. CASE UNCHANGED <<file, torn>>
    BY <1>a, <2>1, <2>2, PagingSame
  <2>3. CASE file' \in {<<Junk>>, <<MetaLine(0, 0, FALSE)>>}
    <3>1. PICK l : file' = <<l>>
      BY <2>3
    <3>2. Len(file') \in Nat /\ Len(file') <= 1
      BY <3>1
    <3> QED
      BY <2>1, <3>2, PagingEmpty
  <2>4. UNCHANGED <<file, torn>> \/ file' \in {<<Junk>>, <<MetaLine(0, 0, FALSE)>>}
    BY <1>1 DEF OpenFails, OpenUnreadable, Opened, diskVars
  <2> QED
    BY <2>2, <2>3, <2>4
<1>2. CASE OpenCorrupt
  <2>1. View.corrupt /\ flaws' = flaws
    BY <1>2 DEF OpenCorrupt, View
  <2>2. flaws' # {}
    BY <1>a, <2>1, CleanFlaws
  <2> QED
    BY <2>2 DEF Paging
<1>3. CASE Open
  BY <1>3, <1>a, <1>b, PagingOpen
<1>4. CASE (\E firing \in BOOLEAN : ObserveBaseline(firing)) \/ ObserveNoEdge \/ AppendRefused \/ ReadAll
  <2>1. /\ UNCHANGED <<file, torn, cursor, page, flaws, up, openErr, lastSeq>> /\ now' \in {now, now + 1}
    BY <1>4 DEF ObserveBaseline, ObserveNoEdge, AppendRefused, ReadAll, Edge, vars, diskVars, storeVars, clientVars, histVars
  <2>2. Writable' = Writable
    BY <2>1 DEF Writable
  <2> QED
    BY <1>a, <2>1, <2>2, PagingSame
<1>5. CASE AppendShort
  <2>1. /\ Writable /\ now' = now + 1 /\ torn' = TRUE /\ UNCHANGED <<cursor, page, lastSeq>>
        /\ flaws' = {} => flaws = {}
    BY <1>5 DEF AppendShort, Edge, Writable, clientVars, NoteCorrupt
  <2>2. PICK l \in {Junk, NewLine} : file' = Written(file, torn, l)
    BY <1>5 DEF AppendShort
  <2> QED
    BY <1>a, <1>b, <2>1, <2>2, PagingWritten
<1>6. CASE AppendUnsynced
  BY <1>6 DEF AppendUnsynced, Paging
<1>7. CASE AppendSynced
  <2>1. /\ Writable /\ now' = now + 1 /\ torn' = FALSE /\ UNCHANGED <<cursor, page>> /\ lastSeq' = lastSeq + 1
        /\ flaws' = {} => flaws = {}
    BY <1>7 DEF AppendSynced, Edge, Writable, clientVars, NoteCorrupt, Watermark
  <2>2. CASE SyncsAll
    <3>1. file' = Written(file, torn, NewLine)
      BY <2>2 DEF SyncsAll
    <3> QED
      BY <1>a, <1>b, <2>1, <3>1, PagingWritten
  <2>3. CASE Evicts
    BY <1>a, <1>b, <2>1, <2>3, PagingEvicted
  <2> QED
    BY <1>7, <1>a, <2>2, <2>3, SyncStep
<1>8. CASE ReadBefore
  BY <1>8, <1>a, PagingRead
<1>9. CASE Crash
  <2>1. UNCHANGED <<file, torn, cursor, page, flaws, now>> /\ ~Writable'
    BY <1>9 DEF Crash, Down, diskVars, clientVars, Writable
  <2> QED
    BY <1>a, <2>1, PagingSame
<1>10. CASE CrashInAppend
  <2>1. /\ Writable /\ now' = now + 1 /\ torn' \in BOOLEAN /\ UNCHANGED <<cursor, page>> /\ ~Writable'
        /\ flaws' = {} => flaws = {}
    BY <1>10 DEF CrashInAppend, Down, Writable, clientVars, NoteCorrupt
  <2>2. PICK l \in {Junk, NewLine} : file' = Written(file, torn, l)
    BY <1>10 DEF CrashInAppend
  <2> QED
    BY <1>a, <1>b, <2>1, <2>2, PagingWritten
<1> QED
  BY <1>1, <1>2, <1>3, <1>4, <1>5, <1>6, <1>7, <1>8, <1>9, <1>10 DEF Next

LEMMA PagingInit == Init => Paging
<1> SUFFICES ASSUME Init PROVE Paging
  OBVIOUS
<1>1. PICK n \in 0 .. 2 : file = IF n = 0 THEN <<>>
                                 ELSE <<MetaLine(0, 0, FALSE)>> \o [i \in 1 .. n |-> RecLine(0, i % 2 = 1, i)]
  BY DEF Init, MaxLegacy
<1>2. now = 2 /\ torn = FALSE /\ ~Writable /\ cursor = 0 /\ page = <<>>
  BY DEF Init, MaxLegacy, Writable
<1>3. page \in Seq(Nat) /\ (\A i \in 1 .. Len(page) : page[i] <= now) /\ Following
  <2>1. <<>> \in Seq(Nat) /\ Len(<<>>) = 0
    OBVIOUS
  <2>2. page \in Seq(Nat) /\ Len(page) = 0
    BY <1>2, <2>1
  <2> QED
    BY <1>2, <2>2 DEF Following
<1>4. CASE n = 0
  <2>1. Len(file) = 0
    BY <1>1, <1>4
  <2>2. Reach(file, torn) = 0
    BY <1>2, <2>1 DEF Reach
  <2>3. \A p \in 2 .. Reach(file, torn) : FALSE
    BY <2>2
  <2>4. Aged(file, torn, now) /\ Counting(file, torn)
    BY <2>3 DEF Aged, Counting
  <2> QED
    BY <1>2, <1>3, <2>4 DEF Paging
<1>5. CASE n # 0
  <2> DEFINE h == MetaLine(0, 0, FALSE)
             r == [i \in 1 .. n |-> RecLine(0, i % 2 = 1, i)]
  <2>1. h \in HistoryLines
    BY MetaLineFacts
  <2>2. ASSUME NEW i \in 1 .. n PROVE r[i] \in HistoryLines /\ r[i].at = i /\ r[i].seq = 0
    <3> DEFINE b == i % 2 = 1
    <3>1. r[i] = RecLine(0, b, i) /\ b \in BOOLEAN /\ i \in Nat
      OBVIOUS
    <3> HIDE DEF b, r
    <3> QED
      BY <3>1, RecLineFacts
  <2>3. r \in [1 .. n -> HistoryLines]
    BY <2>2
  <2> HIDE DEF h
  <2>4. r \in Seq(HistoryLines) /\ Len(r) = n
    BY <2>3
  <2>5. file = <<h>> \o r
    BY <1>1, <1>5 DEF h
  <2> HIDE DEF r
  <2>6. <<h>> \in Seq(HistoryLines) /\ Len(<<h>>) = 1
    BY <2>1
  <2>7. /\ Len(file) = Len(<<h>>) + Len(r)
        /\ \A i \in 1 .. Len(<<h>>) + Len(r) : file[i] = IF i <= Len(<<h>>) THEN <<h>>[i] ELSE r[i - Len(<<h>>)]
    BY <2>4, <2>5, <2>6, ConcatProperties
  <2>8. Len(file) = n + 1 /\ \A i \in 1 .. n + 1 : file[i] = IF i <= 1 THEN <<h>>[i] ELSE r[i - 1]
    BY <2>4, <2>6, <2>7
  <2>9. Reach(file, torn) = n + 1
    BY <1>2, <2>8 DEF Reach
  <2>10. ASSUME NEW p \in 2 .. n + 1 PROVE file[p].at = p - 1 /\ file[p].seq = 0
    <3>1. p \in 1 .. n + 1 /\ ~(p <= 1) /\ p - 1 \in 1 .. n
      OBVIOUS
    <3> QED
      BY <2>2, <2>8, <3>1
  <2>11. Aged(file, torn, now)
    <3> SUFFICES ASSUME NEW p \in 2 .. n + 1
                 PROVE  file[p].at <= 2 /\ \A q \in 2 .. p - 1 : file[q].at < file[p].at
      BY <1>2, <2>9 DEF Aged
    <3>1. file[p].at = p - 1 /\ \A q \in 2 .. p - 1 : file[q].at = q - 1
      BY <2>10
    <3>2. p - 1 <= 2 /\ \A q \in 2 .. p - 1 : q - 1 < p - 1
      OBVIOUS
    <3> QED
      BY <3>1, <3>2
  <2>12. Unnumbered(file, torn)
    <3>1. 2 \in 2 .. n + 1
      BY <1>5
    <3> QED
      BY <2>9, <2>10, <3>1 DEF Unnumbered
  <2> QED
    BY <1>2, <1>3, <2>11, <2>12 DEF Paging
<1> QED
  BY <1>4, <1>5

LEMMA PagingStutter ==
  ASSUME Paging, UNCHANGED vars
  PROVE  Paging'
<1>1. UNCHANGED <<file, torn, up, openErr, lastSeq, now, flaws, cursor, page>>
  BY DEF vars, diskVars, storeVars, histVars, clientVars
<1> QED
  BY <1>1 DEF Paging, Following, Writable

\* The step of the client: the page behind the record it has last.
LEMMA PageFollows ==
  ASSUME HistoryInv, Paging, Next, cursor # 0, clientVars' # clientVars, flaws = {},
         NEW oldest, oldest = page[Len(page)], oldest \in Times(View.recs),
         NEW older, older = {t \in Times(View.recs) : t < oldest}
  PROVE  IF older = {} THEN page' = <<>>
         ELSE page' # <<>> /\ page'[1] \in older /\ \A t \in older : t <= page'[1]
<1>a. HTypeOK /\ Disk /\ Mirrored
  BY DEF HistoryInv
<1>1. ReadBefore
  BY DEF Next, OpenFails, OpenUnreadable, OpenCorrupt, Open, ObserveBaseline, ObserveNoEdge, AppendRefused,
         AppendShort, AppendUnsynced, AppendSynced, Edge, ReadAll, Crash, CrashInAppend, Down, vars
<1>2. Writable
  BY <1>1 DEF ReadBefore, Writable
<1> DEFINE r == View.recs
<1>3. /\ r \in Seq(HistoryLines) /\ DOMAIN r = 1 .. Len(r) /\ InSequence(r, now) /\ Len(r) \in Nat
      /\ \A i \in 1 .. Len(r) : r[i] = file[i + 1] /\ i + 1 \in 2 .. Reach(file, torn)
  BY <1>a, <1>2, ReadFinds, LenProperties
<1>4. Places(file, torn, oldest, cursor)
  BY DEF Paging, Following
<1>5. PICK k \in 1 .. Len(r) : oldest = r[k].at
  BY <1>3 DEF Times
<1>6. r[k].seq = cursor
  BY <1>3, <1>4, <1>5 DEF Places
<1>7. Retained(r, cursor)
  BY <1>3, <1>6 DEF Retained
<1>8. PICK e \in 0 .. Len(r) : Serve(r, e) /\ \E i \in 1 .. Len(r) : r[i].seq = cursor /\ e = i - 1
  BY <1>a, <1>1, <1>7, ReadShows
<1>9. e = k - 1
  <2>1. PICK i \in 1 .. Len(r) : r[i].seq = cursor /\ e = i - 1
    BY <1>8
  <2>2. i = k
    BY <1>3, <1>6, <2>1, OneRecord
  <2> QED
    BY <2>1, <2>2
<1>10. IsPage(page', cursor', r, e)
  BY <1>a, <1>2, <1>8, ServedPage
<1> HIDE DEF r
<1>11. ASSUME NEW i \in 1 .. Len(r) PROVE r[i].at < oldest <=> i \in 1 .. e
  <2>1. r[i].at \in Nat /\ r[k].at \in Nat
    BY <1>3 DEF InSequence
  <2>2. /\ i < k => r[i].at < r[k].at
        /\ k < i => r[k].at < r[i].at
    BY <1>3 DEF InSequence
  <2>3. i < k \/ i = k \/ k < i
    OBVIOUS
  <2>4. i < k <=> i \in 1 .. e
    BY <1>9
  <2> QED
    BY <1>5, <2>1, <2>2, <2>3, <2>4
<1>12. \A i \in 1 .. e : i \in 1 .. Len(r)
  BY <1>3
<1>13. older = {r[i].at : i \in 1 .. e}
  BY <1>3, <1>11, <1>12 DEF Times, r
<1>14. CASE e = 0
  BY <1>10, <1>13, <1>14 DEF IsPage
<1>15. CASE e > 0
  <2>1. page' # <<>> /\ page'[1] = r[e].at /\ e \in 1 .. e
    BY <1>10, <1>15 DEF IsPage
  <2>2. page'[1] \in older /\ older # {}
    BY <1>13, <2>1
  <2>3. ASSUME NEW i \in 1 .. e PROVE r[i].at <= r[e].at
    <3>1. i \in 1 .. Len(r) /\ e \in 1 .. Len(r) /\ r[i].at \in Nat /\ r[e].at \in Nat
      BY <1>3, <1>12, <2>1 DEF InSequence
    <3>2. i < e => r[i].at < r[e].at
      BY <1>3, <3>1 DEF InSequence
    <3>3. i < e \/ i = e
      BY <1>15
    <3> QED
      BY <3>1, <3>2, <3>3
  <2> QED
    BY <1>13, <2>1, <2>2, <2>3
<1> QED
  BY <1>14, <1>15

LEMMA PagingInvariant == Spec => []HistoryInv /\ []Paging
<1>1. Spec => []HistoryInv
  BY HistoryInit, HistoryStep, PTL DEF Spec
<1>2. HistoryInv /\ Paging /\ [Next]_vars => Paging'
  BY PagingStep, PagingStutter
<1> QED
  BY <1>1, <1>2, PagingInit, PTL DEF Spec

\* A client that follows cursors is shown, page after page, the records right
\* before the ones it has, while the last of these is retained: through
\* appends, evictions, a migration and restarts (file_transition_store.go
\* ReadBefore, resolveCursor).
THEOREM PagesFollowOn == ASpec => PagesLeaveNoGap
<1>1. ASSUME HistoryInv, Paging, [Next]_vars
      PROVE  [LET oldest == page[Len(page)]
                  older == {t \in Times(View.recs) : t < oldest}
              IN  cursor # 0 /\ clientVars' # clientVars /\ flaws = {} /\ oldest \in Times(View.recs) =>
                    IF older = {} THEN page' = <<>>
                    ELSE page' # <<>> /\ page'[1] \in older /\ \A t \in older : t <= page'[1]]_vars
  <2>1. CASE UNCHANGED vars
    BY <2>1
  <2>2. CASE Next
    BY <1>1, <2>2, PageFollows
  <2> QED
    BY <1>1, <2>1, <2>2
<1>2. Spec => PagesLeaveNoGap
  BY <1>1, PagingInvariant, PTL DEF Spec, PagesLeaveNoGap
<1> QED
  BY <1>2, RecorderIsBystander

-----------------------------------------------------------------------------
(* The acceptance ledger.                                                  *)

EntryDigests == {NoDigest} \union [group : Nat, rec : Nat, at : Nat]
Entries == [group : Nat \ {0}, rec : Nat, at : Nat, prev : EntryDigests]
Linked(log) == Chained(log) /\ Numbered(log)

\* No entry is a torn line.
LEMMA EntryFacts ==
  ASSUME NEW e \in Entries
  PROVE  e.group \in Nat /\ e.group # 0 /\ e # Torn /\ EntryDigest(e) \in EntryDigests
<1>1. e.group \in Nat /\ e.group # 0 /\ e.rec \in Nat /\ e.at \in Nat
  BY DEF Entries
<1>2. Torn.group = 0
  BY DEF Torn
<1>3. EntryDigest(e) \in [group : Nat, rec : Nat, at : Nat]
  BY <1>1 DEF EntryDigest
<1> QED
  BY <1>1, <1>2, <1>3 DEF EntryDigests

LEMMA ReadableEntries ==
  ASSUME NEW log \in Seq(Entries \union {Torn}), Classified(log)
  PROVE  log \in Seq(Entries)
<1>1. DOMAIN log = 1 .. Len(log) /\ Len(log) \in Nat /\ \A i \in 1 .. Len(log) : log[i] \in Entries
  BY DEF Classified
<1> QED
  BY <1>1

\* An entry behind the last one keeps the chain.
LEMMA LedgerGrows ==
  ASSUME NEW log \in Seq(Entries), Linked(log), NEW line \in Entries,
         log # <<>> => line.prev = EntryDigest(log[Len(log)]) /\ line.group = log[Len(log)].group + 1,
         NEW grown, grown = Append(log, line)
  PROVE  /\ grown \in Seq(Entries) /\ Classified(grown) /\ Linked(grown)
         /\ Len(grown) = Len(log) + 1 /\ grown[Len(grown)] = line /\ grown # <<>>
<1> DEFINE n == Len(log)
<1>1. /\ grown \in Seq(Entries) /\ Len(grown) = n + 1 /\ n \in Nat
      /\ DOMAIN grown = 1 .. n + 1 /\ DOMAIN log = 1 .. n
      /\ grown[n + 1] = line /\ \A i \in 1 .. n : grown[i] = log[i]
      /\ (log = <<>> <=> n = 0)
  BY AppendProperties, EmptySeq
<1>2. \A i \in 1 .. n : log[i].group \in Nat
  BY <1>1, EntryFacts
<1> HIDE DEF n
<1>3. Classified(grown)
  <2>1. \A i \in 1 .. n + 1 : grown[i] \in Entries
    BY <1>1
  <2> QED
    BY <1>1, <2>1, EntryFacts DEF Classified
<1>4. Chained(grown)
  <2> SUFFICES ASSUME NEW i \in 2 .. n + 1
               PROVE  grown[i].prev = EntryDigest(grown[i - 1]) /\ grown[i].group = grown[i - 1].group + 1
    BY <1>1 DEF Chained
  <2>1. CASE i = n + 1
    <3>1. n \in 1 .. n /\ i - 1 = n /\ log # <<>>
      BY <1>1, <2>1
    <3>2. grown[i] = line /\ grown[i - 1] = log[n]
      BY <1>1, <2>1, <3>1
    <3> QED
      BY <3>1, <3>2 DEF n
  <2>2. CASE i # n + 1
    <3>1. i \in 2 .. n /\ i - 1 \in 1 .. n /\ i \in 1 .. n
      BY <1>1, <2>2
    <3> QED
      BY <1>1, <3>1 DEF Linked, Chained, n
  <2> QED
    BY <2>1, <2>2
<1>5. Numbered(grown)
  <2> SUFFICES ASSUME NEW i \in 1 .. n + 1 PROVE grown[i].group = grown[1].group + i - 1
    BY <1>1 DEF Numbered
  <2>1. CASE n = 0
    BY <1>1, <2>1, EntryFacts
  <2>2. CASE n # 0
    <3>1. grown[1] = log[1] /\ \A j \in 1 .. n : log[j].group = log[1].group + j - 1
      BY <1>1, <2>2 DEF Numbered, Linked
    <3>2. line.group = log[n].group + 1
      BY <1>1, <2>2 DEF n
    <3> QED
      BY <1>1, <1>2, <2>2, <3>1, <3>2
  <2> QED
    BY <2>1, <2>2
<1> QED
  BY <1>1, <1>3, <1>4, <1>5 DEF n, Linked

\* An end of a chain is a chain.
LEMMA LedgerShrinks ==
  ASSUME NEW log \in Seq(Entries), Linked(log), NEW k \in Nat, k <= Len(log),
         NEW left, left = [n \in 1 .. Len(log) - k |-> log[k + n]]
  PROVE  /\ left \in Seq(Entries) /\ Classified(left) /\ Linked(left) /\ Len(left) = Len(log) - k
         /\ k < Len(log) => left[Len(left)] = log[Len(log)]
<1>1. Len(log) \in Nat /\ DOMAIN log = 1 .. Len(log) /\ \A i \in 1 .. Len(log) : log[i] \in Entries
  OBVIOUS
<1>2. left \in Seq(Entries) /\ Len(left) = Len(log) - k /\ DOMAIN left = 1 .. Len(log) - k
  <2>1. Len(log) - k \in Nat /\ \A i \in 1 .. Len(log) - k : log[k + i] \in Entries
    BY <1>1
  <2> QED
    BY <2>1, IsASeq
<1>3. \A i \in 1 .. Len(log) - k : left[i] = log[k + i] /\ k + i \in 1 .. Len(log)
  BY <1>1
<1>4. Classified(left)
  BY <1>1, <1>2, <1>3, EntryFacts DEF Classified
<1>5. Chained(left)
  <2> SUFFICES ASSUME NEW i \in 2 .. Len(log) - k
               PROVE  left[i].prev = EntryDigest(left[i - 1]) /\ left[i].group = left[i - 1].group + 1
    BY <1>2 DEF Chained
  <2>1. /\ i \in 1 .. Len(log) - k /\ i - 1 \in 1 .. Len(log) - k
        /\ k + i \in 2 .. Len(log) /\ k + i - 1 = k + (i - 1)
    BY <1>1
  <2>2. log[k + i].prev = EntryDigest(log[k + i - 1]) /\ log[k + i].group = log[k + i - 1].group + 1
    BY <2>1 DEF Linked, Chained
  <2> QED
    BY <1>3, <2>1, <2>2
<1>6. Numbered(left)
  <2> SUFFICES ASSUME NEW i \in 1 .. Len(log) - k PROVE left[i].group = left[1].group + i - 1
    BY <1>2 DEF Numbered
  <2>1. left[i] = log[k + i] /\ left[1] = log[k + 1] /\ k + i \in 1 .. Len(log) /\ k + 1 \in 1 .. Len(log)
    BY <1>1, <1>3
  <2>2. log[k + i].group = log[1].group + (k + i) - 1 /\ log[k + 1].group = log[1].group + (k + 1) - 1
    BY <1>1, <2>1 DEF Numbered, Linked
  <2>3. log[1].group \in Nat
    BY <1>1, <2>1, EntryFacts
  <2> DEFINE g == log[1].group
             x == left[i].group
             y == left[1].group
  <2>4. g \in Nat /\ x = g + (k + i) - 1 /\ y = g + (k + 1) - 1
    BY <2>1, <2>2, <2>3
  <2> HIDE DEF g, x, y
  <2>5. x = y + i - 1
    BY <1>1, <2>4
  <2> QED
    BY <2>5 DEF x, y
<1>7. k < Len(log) => left[Len(left)] = log[Len(log)]
  <2> SUFFICES ASSUME k < Len(log) PROVE left[Len(left)] = log[Len(log)]
    OBVIOUS
  <2>1. Len(log) - k \in 1 .. Len(log) - k /\ k + (Len(log) - k) = Len(log)
    BY <1>1
  <2>2. left[Len(log) - k] = log[k + (Len(log) - k)]
    BY <1>3, <2>1
  <2> QED
    BY <1>2, <2>1, <2>2
<1> QED
  BY <1>2, <1>4, <1>5, <1>6, <1>7 DEF Linked

\* A ledger with room for one more entry: all of the ledger, or an end of it.
IsRoom(r) ==
  /\ r \in Seq(Entries) /\ Classified(r) /\ Linked(r)
  /\ r # alog => Len(r) # Len(alog)
  /\ alog = <<>> <=> r = <<>>
  /\ alog # <<>> => r[Len(r)] = alog[Len(alog)]

LEMMA RoomFacts ==
  ASSUME alog \in Seq(Entries), Linked(alog)
  PROVE  IsRoom(Room)
<1>1. Len(alog) \in Nat /\ DOMAIN alog = 1 .. Len(alog) /\ (alog = <<>> <=> Len(alog) = 0)
  BY LenProperties, EmptySeq
<1>2. \A i \in 1 .. Len(alog) : alog[i] \in Entries /\ alog[i].group \in Nat
  BY <1>1, EntryFacts
<1>3. CASE Room = alog
  <2>1. Classified(alog)
    BY <1>1, <1>2, EntryFacts DEF Classified
  <2> QED
    BY <1>3, <2>1 DEF IsRoom
<1>4. CASE Room # alog
  <2>1. Ascending(alog)
    BY <1>1, <1>2 DEF Linked, Numbered, Ascending
  <2>2. AcceptanceCapacity - 1 \in Int
    BY AcceptanceConstants
  <2>3. Room = WithoutGroups(alog, DroppedGroups(alog, AcceptanceCapacity - 1))
    BY <1>4 DEF Room
  <2>4. PICK k \in Nat : /\ k <= Len(alog) /\ (alog # <<>> => k < Len(alog))
                         /\ Room = [n \in 1 .. Len(alog) - k |-> alog[k + n]]
    <3>1. \A i \in DOMAIN alog : alog[i].group \in Nat
      BY <1>1, <1>2
    <3>2. \E k \in Nat : /\ k <= Len(alog) /\ (alog # <<>> => k < Len(alog))
                         /\ WithoutGroups(alog, DroppedGroups(alog, AcceptanceCapacity - 1))
                              = [n \in 1 .. Len(alog) - k |-> alog[k + n]]
      BY <2>1, <2>2, <3>1, CompactedIsSuffix
    <3> QED
      BY <2>3, <3>2
  <2>5. /\ Room \in Seq(Entries) /\ Classified(Room) /\ Linked(Room) /\ Len(Room) = Len(alog) - k
        /\ k < Len(alog) => Room[Len(Room)] = alog[Len(alog)]
    BY <2>4, LedgerShrinks
  <2>6. k # 0
    <3> SUFFICES ASSUME k = 0 PROVE FALSE
      OBVIOUS
    <3>1. Room = [n \in 1 .. Len(alog) |-> alog[n]]
      <4>1. Len(alog) - 0 = Len(alog) /\ \A n \in 1 .. Len(alog) : 0 + n = n
        BY <1>1
      <4> QED
        BY <2>4, <4>1
    <3>2. alog = [n \in 1 .. Len(alog) |-> alog[n]]
      BY <1>1
    <3> QED
      BY <1>4, <3>1, <3>2
  <2>7. alog # <<>> /\ k < Len(alog)
    BY <1>1, <2>4, <2>6
  <2>8. Len(Room) # Len(alog) /\ Len(Room) # 0
    <3>1. \A x, y \in Nat : y # 0 /\ y < x => x - y # x /\ x - y # 0
      OBVIOUS
    <3>2. Len(alog) - k # Len(alog) /\ Len(alog) - k # 0
      BY <1>1, <2>6, <2>7, <3>1
    <3> QED
      BY <2>5, <3>2
  <2>9. Room # <<>>
    BY <2>8
  <2> QED
    BY <2>5, <2>7, <2>8, <2>9 DEF IsRoom
<1> QED
  BY <1>3, <1>4

\* As long as at most one operation of the recorder failed: a ledger that reads
\* is one chain, a cached tail that has the ledger's size is its tail, and no
\* failure at all leaves nothing else.
Ledger ==
  /\ faults \in Nat
  /\ faults <= 1 =>
       /\ alog \in Seq(Entries \union {Torn})
       /\ Classified(alog) => Linked(alog)
       /\ tail.valid /\ tail.size = Len(alog) => Classified(alog) /\ tail = TailOf(alog)
       /\ faults = 0 => Classified(alog) /\ (tail.valid => tail.size = Len(alog))

LEMMA TailFacts ==
  ASSUME NEW log \in Seq(Entries)
  PROVE  /\ TailOf(log).valid /\ TailOf(log).size = Len(log)
         /\ TailOf(log).head \in EntryDigests /\ TailOf(log).max \in Nat
         /\ log # <<>> => TailOf(log).head = EntryDigest(log[Len(log)]) /\ TailOf(log).max = log[Len(log)].group
<1>1. CASE log = <<>>
  BY <1>1 DEF TailOf, EntryDigests
<1>2. CASE log # <<>>
  <2>1. log[Len(log)] \in Entries
    BY <1>2, EmptySeq, LenProperties
  <2>2. EntryDigest(log[Len(log)]) \in EntryDigests /\ log[Len(log)].group \in Nat
    BY <2>1, EntryFacts
  <2>3. TailOf(log) = [valid |-> TRUE, size |-> Len(log), head |-> EntryDigest(log[Len(log)]), max |-> log[Len(log)].group]
    BY <1>2 DEF TailOf
  <2> QED
    BY <2>2, <2>3
<1> QED
  BY <1>1, <1>2

\* What the recorder takes for the tail of a ledger that reads is its tail.
LEMMA KnownFacts ==
  ASSUME Ledger, faults <= 1, KnownTail.valid
  PROVE  /\ alog \in Seq(Entries) /\ Classified(alog) /\ Linked(alog) /\ KnownTail = TailOf(alog)
         /\ faults = 0 => CachedTail = TailOf(alog)
<1>1. Classified(alog) /\ KnownTail = TailOf(alog)
  <2>1. CASE tail.valid /\ tail.size = Len(alog)
    BY <2>1 DEF Ledger, KnownTail
  <2>2. CASE ~(tail.valid /\ tail.size = Len(alog))
    <3>1. Classified(alog)
      BY <2>2 DEF KnownTail, Refused
    <3> QED
      BY <2>2, <3>1 DEF KnownTail
  <2> QED
    BY <2>1, <2>2
<1>2. alog \in Seq(Entries)
  BY <1>1, ReadableEntries DEF Ledger
<1>3. ASSUME faults = 0 PROVE CachedTail = TailOf(alog)
  <2>1. tail.valid => tail.size = Len(alog)
    BY <1>3 DEF Ledger
  <2>2. Len(alog) \in Nat
    BY <1>2, LenProperties
  <2>3. ~(tail.valid /\ Len(alog) > tail.size)
    BY <2>1, <2>2
  <2> QED
    BY <1>1, <2>3 DEF CachedTail
<1> QED
  BY <1>1, <1>2, <1>3 DEF Ledger

\* What an append behind the room leaves.
LEMMA EntryFollows ==
  ASSUME HTypeOK, alog \in Seq(Entries), Linked(alog), NEW new, new = Appended(Room, Entry(TailOf(alog)))
  PROVE  /\ new \in Seq(Entries) /\ Classified(new) /\ Linked(new) /\ Len(new) = Len(Room) + 1
<1>1. IsRoom(Room)
  BY RoomFacts
<1>2. /\ Room \in Seq(Entries) /\ Linked(Room) /\ (Room # <<>> => alog # <<>> /\ Room[Len(Room)] = alog[Len(alog)])
  BY <1>1 DEF IsRoom
<1>3. /\ TailOf(alog).head \in EntryDigests /\ TailOf(alog).max \in Nat
      /\ alog # <<>> => TailOf(alog).head = EntryDigest(alog[Len(alog)]) /\ TailOf(alog).max = alog[Len(alog)].group
  BY TailFacts
<1> DEFINE line == Entry(TailOf(alog))
<1>4. line = [group |-> TailOf(alog).max + 1, rec |-> lastSeq + 1, at |-> now + 1, prev |-> TailOf(alog).head]
  BY DEF Entry
<1> HIDE DEF line
<1>5. line \in Entries /\ line.group = TailOf(alog).max + 1 /\ line.prev = TailOf(alog).head
  <2>1. TailOf(alog).max + 1 \in Nat \ {0} /\ lastSeq + 1 \in Nat /\ now + 1 \in Nat
    BY <1>3 DEF HTypeOK
  <2> QED
    BY <1>3, <1>4, <2>1 DEF Entries
<1>6. Room # <<>> => line.prev = EntryDigest(Room[Len(Room)]) /\ line.group = Room[Len(Room)].group + 1
  BY <1>2, <1>3, <1>5
<1>7. new = Append(Room, line)
  BY DEF Appended, line
<1> QED
  BY <1>2, <1>5, <1>6, <1>7, LedgerGrows

\* The ledger after a recorder that failed for the first time: as it was, with
\* room, with a torn line, or with the entry.
LEMMA FailedFacts ==
  ASSUME HTypeOK, Ledger, faults = 0, KnownTail.valid, NEW new,
         new \in {Room, TornAppend(Room), Appended(Room, Entry(KnownTail))}
  PROVE  /\ new \in Seq(Entries \union {Torn}) /\ (Classified(new) => Linked(new))
         /\ new = Room \/ Len(new) # Len(Room)
<1>1. /\ alog \in Seq(Entries) /\ Linked(alog) /\ KnownTail = TailOf(alog)
  BY KnownFacts
<1>2. IsRoom(Room)
  BY <1>1, RoomFacts
<1>3. Room \in Seq(Entries) /\ Linked(Room) /\ Len(Room) \in Nat
  BY <1>2, LenProperties DEF IsRoom
<1>4. \A log \in Seq(Entries) : log \in Seq(Entries \union {Torn})
  OBVIOUS
<1>5. CASE new = Room
  BY <1>3, <1>4, <1>5
<1>6. CASE new = TornAppend(Room)
  <2>1. Room \in Seq(Entries \union {Torn}) /\ Torn \in Entries \union {Torn}
    BY <1>3, <1>4
  <2>2. new = Append(Room, Torn)
    BY <1>6 DEF TornAppend
  <2>3. new \in Seq(Entries \union {Torn}) /\ Len(new) = Len(Room) + 1 /\ new[Len(Room) + 1] = Torn
    BY <2>1, <2>2, AppendProperties
  <2>4. Len(Room) + 1 \in DOMAIN new
    BY <1>3, <2>3
  <2>5. ~Classified(new)
    BY <2>3, <2>4 DEF Classified
  <2> QED
    BY <1>3, <2>3, <2>5
<1>7. CASE new = Appended(Room, Entry(KnownTail))
  <2>1. new \in Seq(Entries) /\ Linked(new) /\ Len(new) = Len(Room) + 1
    BY <1>1, <1>7, EntryFollows
  <2> QED
    BY <1>3, <1>4, <2>1
<1> QED
  BY <1>5, <1>6, <1>7

\* Every step keeps the ledger.
LEMMA LedgerStep ==
  ASSUME HTypeOK, Ledger, [ANext]_allVars
  PROVE  Ledger'
<1>0. faults \in Nat
  BY DEF Ledger
<1>1. CASE UNCHANGED <<alog, tail, faults>>
  BY <1>1 DEF Ledger
<1>2. CASE (StoreOnly /\ UNCHANGED acceptanceVars) \/ NotAccepted \/ ViewLedger \/ ViewStore \/ UNCHANGED allVars
  BY <1>1, <1>2 DEF acceptanceVars, NotAccepted, ViewLedger, ViewStore, allVars
<1>3. CASE Accepted
  <2>1. faults' = faults /\ KnownTail.valid /\ alog' = Appended(Room, Entry(KnownTail)) /\ tail' = TailOf(alog')
    BY <1>3 DEF Accepted
  <2> SUFFICES ASSUME faults <= 1
               PROVE  /\ alog' \in Seq(Entries \union {Torn}) /\ Classified(alog') /\ Linked(alog')
                      /\ tail'.size = Len(alog')
    BY <1>0, <2>1 DEF Ledger
  <2>2. alog \in Seq(Entries) /\ Linked(alog) /\ KnownTail = TailOf(alog)
    BY <2>1, KnownFacts
  <2>3. alog' \in Seq(Entries) /\ Classified(alog') /\ Linked(alog')
    BY <2>1, <2>2, EntryFollows
  <2>4. tail'.size = Len(alog')
    BY <2>1, <2>3, TailFacts
  <2>5. alog' \in Seq(Entries \union {Torn})
    BY <2>3
  <2> QED
    BY <2>3, <2>4, <2>5
<1>4. CASE Stopped
  <2>1. alog' = alog /\ faults' = faults /\ tail' = NoTail
    BY <1>4 DEF Stopped
  <2>2. ~tail'.valid
    BY <2>1 DEF NoTail
  <2> QED
    BY <2>1, <2>2 DEF Ledger
<1>5. CASE Damaged
  <2>1. alog' = alog /\ tail' = tail /\ faults' = faults + 1
    BY <1>5 DEF Damaged, Fault
  <2>2. faults' \in Nat /\ faults' # 0 /\ (faults' <= 1 => faults <= 1)
    BY <1>0, <2>1
  <2> QED
    BY <2>1, <2>2 DEF Ledger
<1>6. CASE CompactionRefused \/ EntryFails \/ CrashInRecorder
  <2>1. faults' = faults + 1 /\ KnownTail.valid
    BY <1>6 DEF CompactionRefused, EntryFails, CrashInRecorder, Fault
  <2>2. faults' \in Nat /\ faults' # 0
    BY <1>0, <2>1
  <2> SUFFICES ASSUME faults' <= 1
               PROVE  /\ alog' \in Seq(Entries \union {Torn}) /\ (Classified(alog') => Linked(alog'))
                      /\ tail'.valid /\ tail'.size = Len(alog') => Classified(alog') /\ tail' = TailOf(alog')
    BY <2>2 DEF Ledger
  <2>3. faults = 0 /\ faults <= 1
    BY <1>0, <2>1
  <2>4. alog \in Seq(Entries) /\ Classified(alog) /\ Linked(alog) /\ KnownTail = TailOf(alog) /\ CachedTail = TailOf(alog)
    BY <2>1, <2>3, KnownFacts
  <2>5. IsRoom(Room)
    BY <2>4, RoomFacts
  <2>6. /\ Room \in Seq(Entries) /\ Classified(Room) /\ Linked(Room) /\ (Room # alog => Len(Room) # Len(alog))
        /\ (alog = <<>> <=> Room = <<>>) /\ (alog # <<>> => Room[Len(Room)] = alog[Len(alog)])
    BY <2>5 DEF IsRoom
  <2>7. \A log \in Seq(Entries) : log \in Seq(Entries \union {Torn})
    OBVIOUS
  <2>8. CASE CompactionRefused
    <3>1. alog' \in {alog, Room} /\ tail' = TailOf(alog)
      BY <2>4, <2>8 DEF CompactionRefused
    <3>2. TailOf(alog).size = Len(alog)
      BY <2>4, TailFacts
    <3>3. CASE alog' = alog
      BY <2>4, <2>7, <3>1, <3>3
    <3>4. CASE alog' = Room /\ Room # alog
      BY <2>6, <2>7, <3>1, <3>2, <3>4
    <3> QED
      BY <3>1, <3>3, <3>4
  <2>9. CASE EntryFails
    <3>1. /\ alog' \in {Room, TornAppend(Room), Appended(Room, Entry(KnownTail))}
          /\ tail' = [TailOf(alog) EXCEPT !.size = Len(Room)]
      BY <2>4, <2>9 DEF EntryFails
    <3>2. /\ alog' \in Seq(Entries \union {Torn}) /\ (Classified(alog') => Linked(alog'))
          /\ alog' = Room \/ Len(alog') # Len(Room)
      BY <2>1, <2>3, <3>1, FailedFacts
    <3>3. tail' = TailOf(Room)
      <4>1. CASE alog = <<>>
        <5>1. TailOf(alog) = [valid |-> TRUE, size |-> 0, head |-> NoDigest, max |-> 0] /\ TailOf(Room) = TailOf(alog)
          BY <2>6, <4>1 DEF TailOf
        <5>2. Len(Room) = 0
          BY <2>6, <4>1
        <5> DEFINE t == TailOf(alog)
                   u == tail'
                   m == Len(Room)
                   d == NoDigest
        <5>3. t = [valid |-> TRUE, size |-> 0, head |-> d, max |-> 0] /\ u = [t EXCEPT !.size = m]
          BY <3>1, <5>1
        <5> HIDE DEF t, u, m, d
        <5>4. u = [valid |-> TRUE, size |-> m, head |-> d, max |-> 0]
          BY <5>3
        <5> QED
          BY <5>1, <5>2, <5>4 DEF t, u, m, d
      <4>2. CASE alog # <<>>
        <5>1. TailOf(alog) = [valid |-> TRUE, size |-> Len(alog), head |-> EntryDigest(alog[Len(alog)]),
                              max |-> alog[Len(alog)].group]
          BY <4>2 DEF TailOf
        <5>2. TailOf(Room) = [valid |-> TRUE, size |-> Len(Room), head |-> EntryDigest(alog[Len(alog)]),
                              max |-> alog[Len(alog)].group]
          BY <2>6, <4>2 DEF TailOf
        <5> DEFINE t == TailOf(alog)
                   u == tail'
                   n == Len(alog)
                   m == Len(Room)
                   d == EntryDigest(alog[Len(alog)])
                   g == alog[Len(alog)].group
        <5>3. t = [valid |-> TRUE, size |-> n, head |-> d, max |-> g] /\ u = [t EXCEPT !.size = m]
          BY <3>1, <5>1
        <5> HIDE DEF t, u, n, m, d, g
        <5>4. u = [valid |-> TRUE, size |-> m, head |-> d, max |-> g]
          BY <5>3
        <5> QED
          BY <5>2, <5>4 DEF u, m, d, g
      <4> QED
        BY <4>1, <4>2
    <3>4. tail'.size = Len(Room)
      BY <2>6, <3>3, TailFacts
    <3>5. CASE alog' = Room
      BY <2>6, <3>2, <3>3, <3>5
    <3>6. CASE alog' # Room
      BY <3>2, <3>4, <3>6
    <3> QED
      BY <3>5, <3>6
  <2>10. CASE CrashInRecorder
    <3>1. /\ alog' \in {Room, TornAppend(Room), Appended(Room, Entry(KnownTail))} /\ tail' = NoTail
      BY <2>10 DEF CrashInRecorder
    <3>2. ~tail'.valid
      BY <3>1 DEF NoTail
    <3> QED
      BY <2>1, <2>3, <3>1, <3>2, FailedFacts
  <2> QED
    BY <1>6, <2>8, <2>9, <2>10
<1> QED
  BY <1>2, <1>3, <1>4, <1>5, <1>6 DEF ANext

LEMMA LedgerInit == AInit => Ledger
<1> SUFFICES ASSUME AInit PROVE Ledger
  OBVIOUS
<1>1. alog = <<>> /\ tail = NoTail /\ faults = 0
  BY DEF AInit
<1>2. ~tail.valid
  BY <1>1 DEF NoTail
<1>3. alog \in Seq(Entries \union {Torn}) /\ Len(alog) = 0 /\ DOMAIN alog = {}
  BY <1>1
<1>4. Classified(alog) /\ Linked(alog)
  BY <1>3 DEF Classified, Linked, Chained, Numbered
<1> QED
  BY <1>1, <1>2, <1>3, <1>4 DEF Ledger

\* The acceptance ledger stays one chain that the cached tail continues,
\* although one operation of the recorder failed (record, verifySuffix).
THEOREM LedgerStaysChained == ASpec => []LedgerChained
<1>1. Ledger => LedgerChained
  BY DEF Ledger, LedgerChained, Linked
<1>2. HistoryInv /\ Ledger /\ [ANext]_allVars => Ledger'
  BY LedgerStep DEF HistoryInv
<1> QED
  BY <1>1, <1>2, LedgerInit, HistoryInvariant, PTL DEF ASpec

-----------------------------------------------------------------------------
(* What the ledger holds about the store.                                  *)

RealTails == [valid : {TRUE}, size : Nat, head : EntryDigests, max : Nat]
LedgerTyped == alog \in Seq(Entries \union {Torn}) /\ seen \in Seq(Entries) /\ tail \in RealTails \union {NoTail}

\* The entries of the ledger and of a view under way.
LinesIn(log) == {log[i] : i \in DOMAIN log} \ {Torn}
Held == LinesIn(alog) \union LinesIn(seen)

\* An entry for the record an append is about.
ForAppend(e) == e \in Entries /\ e.rec = lastSeq + 1 /\ e.at = now + 1

LEMMA TailOfTyped ==
  ASSUME NEW log \in Seq(Entries \union {Torn}), log # <<>> => log[Len(log)] \in Entries
  PROVE  TailOf(log) \in RealTails
<1>1. Len(log) \in Nat
  BY LenProperties
<1>2. CASE log = <<>>
  <2>1. TailOf(log) = [valid |-> TRUE, size |-> 0, head |-> NoDigest, max |-> 0] /\ NoDigest \in EntryDigests
    BY <1>2 DEF TailOf, EntryDigests
  <2> QED
    BY <2>1 DEF RealTails
<1>3. CASE log # <<>>
  <2> DEFINE d == EntryDigest(log[Len(log)])
             g == log[Len(log)].group
             n == Len(log)
  <2>1. TailOf(log) = [valid |-> TRUE, size |-> n, head |-> d, max |-> g]
    BY <1>3 DEF TailOf
  <2>2. d \in EntryDigests /\ g \in Nat /\ n \in Nat
    BY <1>1, <1>3, EntryFacts
  <2> HIDE DEF d, g, n
  <2> QED
    BY <2>1, <2>2 DEF RealTails
<1> QED
  BY <1>2, <1>3

LEMMA TailTyped ==
  ASSUME LedgerTyped, KnownTail.valid
  PROVE  KnownTail \in RealTails /\ CachedTail \in RealTails
<1>1. tail.valid => tail \in RealTails
  BY DEF LedgerTyped, NoTail
<1>2. Len(alog) \in Nat
  BY LenProperties DEF LedgerTyped
<1>3. KnownTail \in RealTails
  <2>1. CASE tail.valid /\ tail.size = Len(alog)
    BY <1>1, <2>1 DEF KnownTail
  <2>2. CASE ~(tail.valid /\ tail.size = Len(alog))
    <3>1. Classified(alog) /\ KnownTail = TailOf(alog)
      BY <2>2 DEF KnownTail, Refused
    <3>2. alog \in Seq(Entries)
      BY <3>1, ReadableEntries DEF LedgerTyped
    <3>3. alog # <<>> => alog[Len(alog)] \in Entries
      BY <3>2, EmptySeq, LenProperties
    <3>4. TailOf(alog) \in RealTails
      BY <3>3, TailOfTyped DEF LedgerTyped
    <3> QED
      BY <3>1, <3>4
  <2> QED
    BY <2>1, <2>2
<1>4. CachedTail \in RealTails
  <2>1. CASE tail.valid /\ Len(alog) > tail.size
    <3> DEFINE n == Len(alog)
    <3>1. tail \in RealTails /\ n \in Nat /\ CachedTail = [tail EXCEPT !.size = n]
      BY <1>1, <1>2, <2>1 DEF CachedTail
    <3> HIDE DEF n
    <3> QED
      BY <3>1 DEF RealTails
  <2>2. CASE ~(tail.valid /\ Len(alog) > tail.size)
    BY <1>3, <2>2 DEF CachedTail
  <2> QED
    BY <2>1, <2>2
<1> QED
  BY <1>3, <1>4

\* Making room loses entries and invents none.
LEMMA RoomTyped ==
  ASSUME LedgerTyped
  PROVE  Room \in Seq(Entries \union {Torn}) /\ LinesIn(Room) \subseteq LinesIn(alog) /\ Len(Room) \in Nat
<1> DEFINE L == Entries \union {Torn}
<1>1. alog \in Seq(L)
  BY DEF LedgerTyped
<1>2. CASE Room = alog
  BY <1>1, <1>2, LenProperties
<1>3. CASE Room # alog
  <2> DEFINE gone == DroppedGroups(alog, AcceptanceCapacity - 1)
  <2>1. Room = WithoutGroups(alog, gone)
    BY <1>3 DEF Room
  <2> HIDE DEF gone, L
  <2>2. Room \in Seq(L) /\ Filtered(Room, alog, gone)
    BY <1>1, <2>1, KeptLines
  <2>3. DOMAIN Room = 1 .. Len(Room) /\ Len(Room) \in Nat
    BY <2>2, LenProperties
  <2>4. \A n \in 1 .. Len(Room) : \E i \in DOMAIN alog : Room[n] = alog[i]
    BY <2>2 DEF Filtered
  <2> QED
    BY <2>2, <2>3, <2>4 DEF LinesIn, L
<1> QED
  BY <1>2, <1>3

\* A line behind a log.
OneMore(new, log, l) == \A e \in LinesIn(new) : e # Torn /\ (e \in LinesIn(log) \/ e = l)

LEMMA LinesAppended ==
  ASSUME NEW L, NEW log \in Seq(L), NEW l \in L, NEW new, new = Append(log, l)
  PROVE  new \in Seq(L) /\ OneMore(new, log, l)
<1>1. /\ new \in Seq(L) /\ Len(new) = Len(log) + 1 /\ new[Len(log) + 1] = l /\ Len(log) \in Nat
      /\ \A i \in 1 .. Len(log) : new[i] = log[i]
  BY AppendProperties
<1>2. DOMAIN new = 1 .. Len(log) + 1 /\ DOMAIN log = 1 .. Len(log)
  BY <1>1, LenProperties
<1>3. \A i \in 1 .. Len(log) + 1 : i \in 1 .. Len(log) \/ i = Len(log) + 1
  BY <1>1
<1> QED
  BY <1>1, <1>2, <1>3 DEF LinesIn, OneMore

LEMMA EntryTyped ==
  ASSUME HTypeOK, LedgerTyped, KnownTail.valid
  PROVE  ForAppend(Entry(KnownTail))
<1> DEFINE line == Entry(KnownTail)
           g == KnownTail.max + 1
           h == KnownTail.head
           s == lastSeq + 1
           a == now + 1
<1>1. g \in Nat \ {0} /\ h \in EntryDigests
  <2>1. KnownTail \in RealTails
    BY TailTyped
  <2> QED
    BY <2>1 DEF RealTails
<1>2. s \in Nat /\ a \in Nat
  BY DEF HTypeOK
<1>3. line = [group |-> g, rec |-> s, at |-> a, prev |-> h]
  BY DEF Entry
<1> HIDE DEF line, g, h, s, a
<1>4. line \in Entries /\ line.rec = s /\ line.at = a
  BY <1>1, <1>2, <1>3 DEF Entries
<1> QED
  BY <1>4 DEF ForAppend, line, s, a

\* The ledger behind an append.
LEMMA Recording ==
  ASSUME HTypeOK, LedgerTyped, KnownTail.valid, NEW new,
         new \in {alog, Room, TornAppend(Room), Appended(Room, Entry(KnownTail))}
  PROVE  /\ new \in Seq(Entries \union {Torn}) /\ \A e \in LinesIn(new) : e \in LinesIn(alog) \/ ForAppend(e)
         /\ new = Appended(Room, Entry(KnownTail)) => TailOf(new) \in RealTails
<1> DEFINE L == Entries \union {Torn}
           line == Entry(KnownTail)
<1>1. Room \in Seq(L) /\ LinesIn(Room) \subseteq LinesIn(alog) /\ alog \in Seq(L)
  BY RoomTyped DEF LedgerTyped
<1>2. ForAppend(line)
  BY EntryTyped
<1>3. Torn \in L /\ line \in L /\ line \in Entries
  BY <1>2 DEF ForAppend
<1>4. new \in {alog, Room, Append(Room, Torn), Append(Room, line)} /\ Appended(Room, Entry(KnownTail)) = Append(Room, line)
  BY DEF Appended, TornAppend
<1> HIDE DEF L, line
<1>5. new \in Seq(L) /\ \A e \in LinesIn(new) : e \in LinesIn(alog) \/ ForAppend(e)
  <2>1. CASE new \in {alog, Room}
    BY <1>1, <2>1
  <2>2. CASE new = Append(Room, Torn)
    <3>1. new \in Seq(L) /\ OneMore(new, Room, Torn)
      BY <1>1, <1>3, <2>2, LinesAppended
    <3> QED
      BY <1>1, <3>1 DEF OneMore
  <2>3. CASE new = Append(Room, line)
    <3>1. new \in Seq(L) /\ OneMore(new, Room, line)
      BY <1>1, <1>3, <2>3, LinesAppended
    <3> QED
      BY <1>1, <1>2, <3>1 DEF OneMore
  <2> QED
    BY <1>4, <2>1, <2>2, <2>3
<1>6. ASSUME new = Append(Room, line) PROVE TailOf(new) \in RealTails
  <2>1. new[Len(Room) + 1] = line /\ Len(new) = Len(Room) + 1
    BY <1>1, <1>3, <1>6, AppendProperties
  <2>2. new[Len(new)] \in Entries
    BY <1>3, <2>1
  <2> QED
    BY <1>5, <2>2, TailOfTyped DEF L
<1> QED
  BY <1>4, <1>5, <1>6 DEF L

\* A step records the record it has just made durable, or nothing.
Records ==
  AppendSynced \/ (CrashInAppend /\ file' = Written(file, torn, NewLine) /\ torn' = FALSE)

LEMMA HeldStep ==
  ASSUME HTypeOK, LedgerTyped, [ANext]_allVars
  PROVE  LedgerTyped' /\ \A e \in Held' : e \in Held \/ (ForAppend(e) /\ Records)
<1>1. CASE UNCHANGED <<alog, seen, tail>>
  BY <1>1 DEF LedgerTyped, Held, LinesIn
<1>2. CASE (StoreOnly /\ UNCHANGED acceptanceVars) \/ NotAccepted \/ Damaged \/ UNCHANGED allVars
  BY <1>1, <1>2 DEF acceptanceVars, NotAccepted, Damaged, allVars
<1>a. ASSUME KnownTail.valid, alog' \in {alog, Room, TornAppend(Room), Appended(Room, Entry(KnownTail))}, Records,
             seen' \in {seen, <<>>}, tail' \in RealTails \union {NoTail}
      PROVE  LedgerTyped' /\ \A e \in Held' : e \in Held \/ (ForAppend(e) /\ Records)
  <2>1. alog' \in Seq(Entries \union {Torn}) /\ \A e \in LinesIn(alog') : e \in LinesIn(alog) \/ ForAppend(e)
    BY <1>a, Recording
  <2>2. seen' \in Seq(Entries) /\ LinesIn(seen') \subseteq LinesIn(seen)
    <3>1. <<>> \in Seq(Entries) /\ DOMAIN <<>> = {}
      OBVIOUS
    <3> QED
      BY <1>a, <3>1 DEF LedgerTyped, LinesIn
  <2>3. LedgerTyped'
    BY <1>a, <2>1, <2>2 DEF LedgerTyped
  <2>4. Held' = LinesIn(alog') \union LinesIn(seen')
    BY DEF Held
  <2> QED
    BY <1>a, <2>1, <2>2, <2>3, <2>4 DEF Held
<1>3. CASE Accepted
  <2>1. /\ Records /\ KnownTail.valid /\ alog' = Appended(Room, Entry(KnownTail)) /\ tail' = TailOf(alog') /\ seen' = seen
    BY <1>3 DEF Accepted, Records
  <2>2. tail' \in RealTails
    BY <2>1, Recording
  <2> QED
    BY <1>a, <2>1, <2>2
<1>4. CASE CompactionRefused
  <2>1. Records /\ KnownTail.valid /\ alog' \in {alog, Room} /\ tail' = CachedTail /\ seen' = seen
    BY <1>4 DEF CompactionRefused, Records
  <2> QED
    BY <1>a, <2>1, TailTyped
<1>5. CASE EntryFails
  <2>1. /\ Records /\ KnownTail.valid /\ alog' \in {Room, TornAppend(Room), Appended(Room, Entry(KnownTail))}
        /\ tail' = [CachedTail EXCEPT !.size = Len(Room)] /\ seen' = seen
    BY <1>5 DEF EntryFails, Records
  <2>2. tail' \in RealTails
    <3> DEFINE n == Len(Room)
               c == CachedTail
    <3>1. c \in RealTails /\ n \in Nat /\ tail' = [c EXCEPT !.size = n]
      BY <2>1, TailTyped, RoomTyped
    <3> HIDE DEF n, c
    <3> QED
      BY <3>1 DEF RealTails
  <2> QED
    BY <1>a, <2>1, <2>2
<1>6. CASE CrashInRecorder
  <2>1. /\ Records /\ KnownTail.valid /\ alog' \in {Room, TornAppend(Room), Appended(Room, Entry(KnownTail))}
        /\ tail' = NoTail /\ seen' = <<>>
    BY <1>6 DEF CrashInRecorder, Records, NotReading
  <2> QED
    BY <1>a, <2>1
<1>7. CASE Stopped \/ ViewStore
  <2>1. alog' = alog /\ seen' = <<>> /\ tail' \in {tail, NoTail}
    BY <1>7 DEF Stopped, ViewStore, NotReading
  <2>2. <<>> \in Seq(Entries) /\ LinesIn(<<>>) = {}
    BY DEF LinesIn
  <2>3. LedgerTyped'
    BY <2>1, <2>2 DEF LedgerTyped
  <2>4. Held' \subseteq Held
    BY <2>1, <2>2 DEF Held
  <2> QED
    BY <2>3, <2>4
<1>8. CASE ViewLedger
  <2>1. alog' = alog /\ seen' = alog /\ tail' = tail /\ Classified(alog)
    BY <1>8 DEF ViewLedger
  <2>2. alog \in Seq(Entries)
    BY <2>1, ReadableEntries DEF LedgerTyped
  <2>3. LedgerTyped'
    BY <2>1, <2>2 DEF LedgerTyped
  <2>4. Held' \subseteq Held
    BY <2>1 DEF Held
  <2> QED
    BY <2>3, <2>4
<1> QED
  BY <1>2, <1>3, <1>4, <1>5, <1>6, <1>7, <1>8 DEF ANext

\* What the store holds for an entry: its record, or only later ones; a first
\* record written behind torn metadata is lost with it.
Backed(f, t, e) ==
  \/ Slot(f) = "junk" /\ e.rec <= 1
  \/ /\ \E p \in Whole(f, t) : f[p].seq = e.rec \/ (p = 2 /\ e.rec < f[p].seq)
     /\ \A p \in 2 .. Reach(f, t) : f[p].seq = e.rec => f[p].at = e.at

\* The number of the first record, or the next one there will be.
First(f, s) == IF Len(f) > 1 THEN f[2].seq ELSE s + 1

\* The mirror of the record count against the file.
Sized ==
  /\ torn /\ Len(file) = 1 => file[1].seq = 0 /\ (Writable => lastSeq = 0 /\ count = 0)
  /\ Writable => count \in Nat
  /\ Writable /\ ~torn /\ Slot(file) = "junk" =>
       count <= Len(file) - 1 \/ (count <= Len(file) /\ First(file, lastSeq) > 1)

Attested == \A e \in Held : Backed(file, torn, e) /\ Counting(file, torn)
Accepting == flaws = {} => Attested /\ Sized

\* A write to a file that stays clean: at the end of a whole line, or in the
\* place of torn metadata.
LEMMA CleanWrite ==
  ASSUME HTypeOK, Disk, Writable, NEW l \in {Junk, NewLine}, NEW w, w = Written(file, torn, l),
         NEW u \in BOOLEAN, ~Scan(w, u).corrupt
  PROVE  /\ IsWritten(w, file, torn, l) /\ Len(file) \in Nat /\ Len(file) > 0 /\ Len(w) \in Nat
         /\ file \in Seq(HistoryLines) /\ torn \in BOOLEAN /\ lastSeq \in Nat
         /\ torn /\ ~u => Len(file) = 1
<1>1. /\ file \in Seq(HistoryLines) /\ torn \in BOOLEAN /\ file # <<>> /\ lastSeq \in Nat /\ Slot(file) # "rec"
  BY DEF HTypeOK, Disk, Shape
<1>2. NewLine \in HistoryLines /\ Junk \in HistoryLines /\ ~IsRec(Junk)
  BY NewLineFacts, HistoryLineFacts
<1>3. IsWritten(w, file, torn, l)
  BY <1>1, <1>2, WrittenFacts
<1>4. Len(file) \in Nat /\ Len(file) > 0
  BY <1>1, LenProperties, EmptySeq
<1>5. w \in Seq(HistoryLines) /\ Len(w) \in Nat /\ Slot(w) # "rec"
  BY <1>1, <1>3, LenProperties DEF IsWritten
<1>6. ASSUME torn, ~u, Len(file) # 1 PROVE FALSE
  <2>1. Len(w) = Len(file) /\ w[Len(file)] = Junk
    BY <1>3, <1>6 DEF IsWritten
  <2>2. Reach(w, u) = Len(w)
    BY <1>6 DEF Reach
  <2>3. \A p \in 2 .. Reach(w, u) : IsRec(w[p])
    BY <1>5, WholeFacts
  <2>4. Len(file) \in 2 .. Len(file)
    <3> DEFINE n == Len(file)
    <3>1. n \in Nat /\ n > 0 /\ n # 1
      BY <1>4, <1>6
    <3> HIDE DEF n
    <3>2. n \in 2 .. n
      BY <3>1
    <3> QED
      BY <3>2 DEF n
  <2> QED
    BY <1>2, <2>1, <2>2, <2>3, <2>4
<1> QED
  BY <1>1, <1>3, <1>4, <1>5, <1>6

\* An entry names no record that is still to come.
LEMMA BackedBefore ==
  ASSUME NEW f \in Seq(HistoryLines), NEW t \in BOOLEAN, NEW s \in Nat, NEW e \in Entries, Within(f, t, s),
         NEW p \in Whole(f, t), f[p].seq = e.rec \/ (p = 2 /\ e.rec < f[p].seq)
  PROVE  e.rec <= s
<1>1. f[p].seq \in Nat /\ f[p].seq <= s
  BY WholeFacts DEF Within
<1>2. e.rec \in Nat
  BY DEF Entries
<1> QED
  BY <1>1, <1>2

\* A write takes nothing from an entry.
LEMMA BackedWritten ==
  ASSUME HTypeOK, Disk, Paging, flaws = {}, Writable, NEW l \in {Junk, NewLine}, NEW w, w = Written(file, torn, l),
         NEW u \in BOOLEAN, ~Scan(w, u).corrupt, NEW e \in Entries, Backed(file, torn, e)
  PROVE  Backed(w, u, e)
<1>1. /\ IsWritten(w, file, torn, l) /\ Len(file) \in Nat /\ Len(file) > 0
      /\ file \in Seq(HistoryLines) /\ torn \in BOOLEAN /\ lastSeq \in Nat
  BY CleanWrite
<1>2. CASE Slot(file) = "junk" /\ e.rec <= 1
  BY <1>1, <1>2 DEF IsWritten, Backed
<1>3. CASE ~(Slot(file) = "junk" /\ e.rec <= 1)
  <2>1. PICK p \in Whole(file, torn) : file[p].seq = e.rec \/ (p = 2 /\ e.rec < file[p].seq)
    BY <1>3 DEF Backed
  <2>2. \A q \in 2 .. Reach(file, torn) : file[q].seq = e.rec => file[q].at = e.at
    BY <1>3 DEF Backed
  <2>3. Within(file, torn, lastSeq)
    BY DEF Paging
  <2>4. e.rec <= lastSeq /\ e.rec \in Nat
    BY <1>1, <2>1, <2>3, BackedBefore DEF Entries
  <2>5. p \in Whole(w, u) /\ w[p] = file[p]
    <3>1. p \in 2 .. Len(file) /\ ~(torn /\ p = Len(file))
      BY <2>1 DEF Whole
    <3>2. CASE torn
      <4>1. Len(w) = Len(file) /\ \A i \in 1 .. Len(file) - 1 : w[i] = file[i]
        BY <1>1, <3>2 DEF IsWritten
      <4>2. p \in 1 .. Len(file) - 1 /\ p \in 2 .. Len(w) /\ p # Len(w)
        <5> DEFINE n == Len(file)
        <5>1. n \in Nat /\ p \in 2 .. n /\ p # n
          BY <1>1, <3>1, <3>2
        <5> HIDE DEF n
        <5>2. p \in 1 .. n - 1
          BY <5>1
        <5> QED
          BY <4>1, <5>1, <5>2 DEF n
      <4> QED
        BY <4>1, <4>2 DEF Whole
    <3>3. CASE ~torn
      <4>1. Len(w) = Len(file) + 1 /\ \A i \in 1 .. Len(file) : w[i] = file[i]
        BY <1>1, <3>3 DEF IsWritten
      <4>2. p \in 1 .. Len(file) /\ p \in 2 .. Len(w) /\ p # Len(w)
        BY <1>1, <3>1, <4>1
      <4> QED
        BY <4>1, <4>2 DEF Whole
    <3> QED
      BY <3>2, <3>3
  <2>6. ASSUME NEW q \in 2 .. Reach(w, u), w[q].seq = e.rec PROVE w[q].at = e.at
    <3>1. w \in Seq(HistoryLines) /\ Slot(w) # "rec" /\ Carried(w, file, torn, NewLine)
      BY WriteOrdered
    <3>2. q \in 2 .. Len(w) /\ IsRec(w[q])
      BY <3>1, WholeFacts
    <3>3. NewLine.seq = lastSeq + 1
      BY NewLineFacts
    <3> HIDE DEF NewLine
    <3>4. w[q] # NewLine
      BY <1>1, <2>4, <2>6, <3>3
    <3>5. q \in Whole(file, torn) /\ w[q] = file[q]
      BY <3>1, <3>2, <3>4 DEF Carried
    <3>6. q \in 2 .. Reach(file, torn)
      BY <1>1, <3>5, WholeFacts
    <3> QED
      BY <2>2, <2>6, <3>5, <3>6
  <2> QED
    BY <2>1, <2>5, <2>6 DEF Backed
<1> QED
  BY <1>2, <1>3

\* The record a write brings backs its own entry.
LEMMA BackedNew ==
  ASSUME HTypeOK, Disk, Paging, flaws = {}, Writable, Sized, NEW w, w = Written(file, torn, NewLine),
         ~Scan(w, FALSE).corrupt, NEW e \in Entries, ForAppend(e)
  PROVE  Backed(w, FALSE, e)
<1>0. NewLine \in {Junk, NewLine} /\ FALSE \in BOOLEAN
  OBVIOUS
<1>1. /\ IsWritten(w, file, torn, NewLine) /\ Len(file) \in Nat /\ Len(file) > 0 /\ Len(w) \in Nat
      /\ file \in Seq(HistoryLines) /\ torn \in BOOLEAN /\ lastSeq \in Nat /\ (torn => Len(file) = 1)
  BY <1>0, CleanWrite
<1>2. e.rec = lastSeq + 1 /\ e.at = now + 1
  BY DEF ForAppend
<1>3. CASE torn
  <2>1. Len(file) = 1 /\ lastSeq = 0
    BY <1>1, <1>3 DEF Sized
  <2>2. Slot(w) = "junk"
    BY <1>1, <1>3, <2>1 DEF IsWritten
  <2>3. e.rec <= 1
    BY <1>2, <2>1
  <2> QED
    BY <2>2, <2>3 DEF Backed
<1>4. CASE ~torn
  <2>1. Len(w) = Len(file) + 1 /\ w[Len(file) + 1] = NewLine
    BY <1>1, <1>4 DEF IsWritten
  <2>2. NewLine.seq = lastSeq + 1 /\ NewLine.at = now + 1
    BY NewLineFacts
  <2>3. Len(w) \in Whole(w, FALSE)
    <3>1. Len(w) \in 2 .. Len(w)
      BY <1>1, <2>1
    <3> QED
      BY <3>1 DEF Whole
  <2>4. ASSUME NEW q \in 2 .. Reach(w, FALSE), w[q].seq = e.rec PROVE w[q].at = e.at
    <3>1. w \in Seq(HistoryLines) /\ Slot(w) # "rec" /\ Carried(w, file, torn, NewLine)
      BY <1>0, WriteOrdered
    <3>2. q \in 2 .. Len(w) /\ IsRec(w[q])
      BY <3>1, WholeFacts
    <3> HIDE DEF NewLine
    <3>3. \A p \in Whole(file, torn) : file[p].seq \in Nat /\ file[p].seq <= lastSeq
      <4>1. Within(file, torn, lastSeq)
        BY DEF Paging
      <4> QED
        BY <1>1, <4>1, WholeFacts DEF Within
    <3>4. ~(q \in Whole(file, torn) /\ w[q] = file[q])
      BY <1>1, <1>2, <2>4, <3>3
    <3>5. w[q] = NewLine
      BY <3>1, <3>2, <3>4 DEF Carried
    <3> QED
      BY <1>2, <2>2, <3>5
  <2> HIDE DEF NewLine
  <2>5. w[Len(w)].seq = e.rec
    BY <1>2, <2>1, <2>2
  <2> QED
    BY <2>3, <2>4, <2>5 DEF Backed
<1> QED
  BY <1>1, <1>3, <1>4

\* In a file that counts, later places have higher numbers.
LEMMA CountingUp ==
  ASSUME NEW f \in Seq(HistoryLines), Counting(f, FALSE), NEW p \in 2 .. Len(f), NEW q \in 2 .. Len(f), p <= q
  PROVE  f[p].seq \in Nat /\ f[q].seq \in Nat /\ f[p].seq > 0 /\ f[p].seq <= f[q].seq /\ (p < q => f[p].seq < f[q].seq)
<1>1. Reach(f, FALSE) = Len(f)
  BY DEF Reach
<1>2. f[p].seq \in Nat /\ f[q].seq \in Nat
  BY <1>1, WholeFacts
<1>3. f[p].seq > 0 /\ \A i \in 2 .. q - 1 : f[i].seq < f[q].seq
  BY <1>1 DEF Counting
<1>4. p = q \/ p \in 2 .. q - 1
  OBVIOUS
<1>5. CASE p = q
  BY <1>2, <1>3, <1>5
<1>6. CASE p \in 2 .. q - 1
  BY <1>2, <1>3, <1>6
<1> QED
  BY <1>4, <1>5, <1>6

\* An eviction keeps the newest records: an entry has its record still, or all
\* records that are left are later.
LEMMA BackedShifted ==
  ASSUME NEW w \in Seq(HistoryLines), NEW v \in Seq(HistoryLines), NEW k \in Nat, Shifted(v, w, k),
         Counting(w, FALSE), NEW e \in Entries, Backed(w, FALSE, e), Slot(w) = "junk" => w[2 + k].seq > 1
  PROVE  Backed(v, FALSE, e)
<1>1. Reach(w, FALSE) = Len(w) /\ Reach(v, FALSE) = Len(v) /\ Len(w) \in Nat /\ Len(v) \in Nat /\ e.rec \in Nat
  BY LenProperties DEF Reach, Entries
<1>2. Len(v) > 1 /\ Len(v) + k = Len(w) /\ \A p \in 2 .. Len(v) : p + k \in 2 .. Len(w) /\ v[p] = w[p + k]
  BY DEF Shifted
<1>3. 2 \in 2 .. Len(v) /\ 2 \in Whole(v, FALSE) /\ v[2] = w[2 + k] /\ 2 + k \in 2 .. Len(w)
  <2>1. 2 \in 2 .. Len(v)
    BY <1>1, <1>2
  <2> QED
    BY <1>2, <2>1 DEF Whole
<1>4. ASSUME NEW p \in 2 .. Len(v) PROVE v[2].seq \in Nat /\ v[p].seq \in Nat /\ v[2].seq <= v[p].seq
  <2>1. p + k \in 2 .. Len(w) /\ v[p] = w[p + k] /\ 2 + k <= p + k
    BY <1>2
  <2> QED
    BY <1>3, <2>1, CountingUp
<1>5. CASE Slot(w) = "junk" /\ e.rec <= 1
  <2> DEFINE a == v[2].seq
             x == e.rec
  <2>1. a > 1 /\ a \in Nat /\ x <= 1 /\ x \in Nat /\ \A p \in 2 .. Len(v) : v[p].seq \in Nat /\ a <= v[p].seq
    BY <1>1, <1>3, <1>4, <1>5
  <2> HIDE DEF a, x
  <2>2. x < a
    BY <2>1
  <2>3. \A p \in 2 .. Len(v) : v[p].seq # x
    <3> TAKE p \in 2 .. Len(v)
    <3> DEFINE b == v[p].seq
    <3>1. b \in Nat /\ a <= b
      BY <2>1
    <3> HIDE DEF b
    <3>2. b # x
      BY <2>1, <2>2, <3>1
    <3> QED
      BY <3>2 DEF b
  <2> QED
    BY <1>1, <1>3, <2>2, <2>3 DEF Backed, a, x
<1>6. CASE ~(Slot(w) = "junk" /\ e.rec <= 1)
  <2>1. PICK p \in Whole(w, FALSE) : w[p].seq = e.rec \/ (p = 2 /\ e.rec < w[p].seq)
    BY <1>6 DEF Backed
  <2>2. \A q \in 2 .. Len(w) : w[q].seq = e.rec => w[q].at = e.at
    BY <1>1, <1>6 DEF Backed
  <2>3. \A q \in 2 .. Len(v) : v[q].seq = e.rec => v[q].at = e.at
    BY <1>2, <2>2
  <2>4. p \in 2 .. Len(w)
    BY <2>1 DEF Whole
  <2>5. CASE p >= 2 + k /\ w[p].seq = e.rec
    <3>1. p - k \in 2 .. Len(v) /\ p - k + k = p
      BY <1>1, <1>2, <2>4, <2>5
    <3>2. v[p - k].seq = e.rec /\ p - k \in Whole(v, FALSE)
      BY <1>2, <2>5, <3>1 DEF Whole
    <3> QED
      BY <1>1, <2>3, <3>2 DEF Backed
  <2>6. CASE ~(p >= 2 + k /\ w[p].seq = e.rec)
    <3>1. e.rec < w[2 + k].seq
      <4>1. CASE w[p].seq = e.rec
        <5>1. p < 2 + k /\ p <= 2 + k
          BY <2>4, <2>6, <4>1
        <5>2. w[p].seq < w[2 + k].seq
          BY <1>3, <2>4, <5>1, CountingUp
        <5> QED
          BY <4>1, <5>2
      <4>2. CASE p = 2 /\ e.rec < w[p].seq
        <5>1. 2 <= 2 + k
          OBVIOUS
        <5>2. w[2].seq \in Nat /\ w[2 + k].seq \in Nat /\ w[2].seq <= w[2 + k].seq
          BY <1>3, <2>4, <4>2, <5>1, CountingUp
        <5> DEFINE a == w[2].seq
                   b == w[2 + k].seq
                   x == e.rec
        <5>3. a \in Nat /\ b \in Nat /\ x \in Nat /\ a <= b /\ x < a
          BY <1>1, <4>2, <5>2
        <5> HIDE DEF a, b, x
        <5>4. x < b
          BY <5>3
        <5> QED
          BY <5>4 DEF b, x
      <4> QED
        BY <2>1, <4>1, <4>2
    <3>2. e.rec < v[2].seq
      BY <1>3, <3>1
    <3> QED
      BY <1>1, <1>3, <2>3, <3>2 DEF Backed
  <2> QED
    BY <2>5, <2>6
<1> QED
  BY <1>5, <1>6

LEMMA BackedEvicted ==
  ASSUME HTypeOK, Disk, Paging, flaws = {}, Writable, Sized, count + 1 > FileCap,
         NEW w, w = Written(file, torn, NewLine), Len(EvictLines(w)) > FileCap,
         NEW v, v = Evicted(w, fileDropped, lastSeq + 1), ~Scan(v, FALSE).corrupt,
         NEW e \in Entries, Backed(file, torn, e) \/ ForAppend(e)
  PROVE  Backed(v, FALSE, e)
<1>0. NewLine \in {Junk, NewLine} /\ FALSE \in BOOLEAN
  OBVIOUS
<1>1. ~torn /\ ~Scan(w, FALSE).corrupt
  BY CleanFlaws, EvictWhole
<1>2. Backed(w, FALSE, e)
  BY <1>0, <1>1, BackedWritten, BackedNew
<1>3. w \in Seq(HistoryLines) /\ w # <<>> /\ Slot(w) # "rec" /\ Counting(w, FALSE)
  BY <1>0, <1>1, WriteOrdered
<1>4. fileDropped \in Nat /\ lastSeq + 1 \in Nat
  BY DEF HTypeOK
<1>5. PICK k \in Nat : Shifted(v, w, k) /\ k + FileCap + 1 = Len(w)
  BY <1>3, <1>4, EvictedShifted
<1>6. v \in Seq(HistoryLines)
  BY <1>3, <1>4, EvictedShifted
<1>7. ASSUME Slot(w) = "junk" PROVE w[2 + k].seq > 1
  <2>1. /\ IsWritten(w, file, torn, NewLine) /\ Len(file) \in Nat /\ Len(file) > 0
        /\ file \in Seq(HistoryLines) /\ lastSeq \in Nat
    BY <1>0, <1>1, CleanWrite
  <2>2. /\ Slot(file) = "junk" /\ Len(w) = Len(file) + 1 /\ w[Len(file) + 1] = NewLine
        /\ \A i \in 1 .. Len(file) : w[i] = file[i]
    BY <1>1, <1>7, <2>1 DEF IsWritten
  <2>3. count \in Nat /\ (count <= Len(file) - 1 \/ (count <= Len(file) /\ First(file, lastSeq) > 1))
    BY <1>1, <2>2 DEF Sized
  <2>4. FileCap \in Nat /\ FileCap > 0
    BY TransitionConstants
  <2>5. 2 \in 2 .. Len(w) /\ 2 + k \in 2 .. Len(w)
    BY <1>5, <2>1, <2>2, <2>4
  <2>6. CASE count <= Len(file) - 1
    <3>1. 2 < 2 + k /\ 2 <= 2 + k
      BY <1>5, <2>1, <2>2, <2>3, <2>4, <2>6
    <3>2. w[2].seq \in Nat /\ w[2].seq > 0 /\ w[2].seq < w[2 + k].seq /\ w[2 + k].seq \in Nat
      BY <1>3, <2>5, <3>1, CountingUp
    <3> QED
      BY <3>2
  <2>7. CASE First(file, lastSeq) > 1
    <3>1. w[2].seq = First(file, lastSeq)
      <4>1. CASE Len(file) > 1
        <5>1. w[2] = file[2]
          BY <2>1, <2>2, <4>1
        <5> QED
          BY <4>1, <5>1 DEF First
      <4>2. CASE ~(Len(file) > 1)
        <5>1. Len(file) = 1
          <6> DEFINE n == Len(file)
          <6>1. n \in Nat /\ n > 0 /\ ~(n > 1)
            BY <2>1, <4>2
          <6> HIDE DEF n
          <6>2. n = 1
            BY <6>1
          <6> QED
            BY <6>2 DEF n
        <5>2. w[2] = NewLine
          BY <2>2, <5>1
        <5> QED
          BY <4>2, <5>2, NewLineFacts DEF First
      <4> QED
        BY <4>1, <4>2
    <3>2. 2 <= 2 + k
      OBVIOUS
    <3>3. w[2].seq \in Nat /\ w[2 + k].seq \in Nat /\ w[2].seq <= w[2 + k].seq
      BY <1>3, <2>5, <3>2, CountingUp
    <3> QED
      BY <2>7, <3>1, <3>3
  <2> QED
    BY <2>3, <2>6, <2>7
<1> QED
  BY <1>2, <1>3, <1>5, <1>6, <1>7, BackedShifted

\* The slot's line names the highest number when there is no record.
LEMMA ScanMark == ASSUME NEW f, NEW t PROVE Scan(f, t).lastSeq = IF Slot(f) = "meta" THEN f[1].seq ELSE 0
BY DEF Scan

\* The count behind a write.
LEMMA SizedWritten ==
  ASSUME HTypeOK, Disk, Writable, Sized, NEW l \in {Junk, NewLine}, file' = Written(file, torn, l),
         torn' \in BOOLEAN, ~Scan(file', torn').corrupt,
         Writable' => \/ torn' /\ lastSeq' = lastSeq /\ count' = count
                      \/ ~torn' /\ l = NewLine /\ lastSeq' = lastSeq + 1 /\ count' = count + 1
  PROVE  Sized'
<1> DEFINE n == Len(file)
           m == Len(file')
<1>1. /\ IsWritten(file', file, torn, l) /\ n \in Nat /\ n > 0 /\ m \in Nat /\ lastSeq \in Nat /\ torn \in BOOLEAN
      /\ torn /\ ~torn' => n = 1
  BY CleanWrite
<1>2. count \in Nat
  BY DEF Sized
<1>3. /\ torn => m = n /\ file'[n] = Junk
      /\ ~torn => m = n + 1 /\ file'[n + 1] = l /\ (\A i \in 1 .. n : file'[i] = file[i]) /\ Slot(file') = Slot(file)
  BY <1>1 DEF IsWritten
<1>4. ASSUME torn', m = 1 PROVE file'[1].seq = 0 /\ (Writable' => lastSeq' = 0 /\ count' = 0)
  <2>1. torn /\ n = 1
    <3> HIDE DEF n, m
    <3> QED
      BY <1>1, <1>3, <1>4
  <2>2. file'[1] = Junk
    BY <1>3, <2>1
  <2>3. lastSeq = 0 /\ count = 0
    BY <2>1 DEF Sized
  <2>4. Writable' => lastSeq' = lastSeq /\ count' = count
    BY <1>4
  <2> QED
    BY <2>2, <2>3, <2>4 DEF Junk
<1>5. Writable' => count' \in Nat
  BY <1>2
<1>6. ASSUME Writable', ~torn', Slot(file') = "junk"
      PROVE  count' <= m - 1 \/ (count' <= m /\ First(file', lastSeq') > 1)
  <2>1. l = NewLine /\ lastSeq' = lastSeq + 1 /\ count' = count + 1
    BY <1>6
  <2>2. CASE torn
    <3>1. n = 1 /\ m = 1 /\ count = 0 /\ lastSeq = 0
      BY <1>1, <1>3, <1>6, <2>2 DEF Sized
    <3>2. count' = 1 /\ lastSeq' = 1
      BY <2>1, <3>1
    <3>3. First(file', lastSeq') = 2
      BY <3>1, <3>2 DEF First
    <3> HIDE DEF m
    <3> QED
      BY <3>1, <3>2, <3>3
  <2>3. CASE ~torn
    <3>1. m = n + 1 /\ (count <= n - 1 \/ (count <= n /\ First(file, lastSeq) > 1))
      BY <1>3, <1>6, <2>3 DEF Sized
    <3>2. First(file', lastSeq') = First(file, lastSeq)
      <4>1. CASE n > 1
        <5>1. 2 \in 1 .. n /\ m > 1
          <6> HIDE DEF n, m
          <6> QED
            BY <1>1, <3>1, <4>1
        <5>2. file'[2] = file[2]
          BY <1>3, <2>3, <5>1
        <5> QED
          BY <4>1, <5>1, <5>2 DEF First
      <4>2. CASE ~(n > 1)
        <5>1. n = 1 /\ m > 1 /\ m = 2
          <6> HIDE DEF n, m
          <6> QED
            BY <1>1, <3>1, <4>2
        <5>2. file'[2] = NewLine
          BY <1>3, <2>1, <2>3, <5>1
        <5>3. file'[2].seq = lastSeq + 1
          BY <5>2, NewLineFacts
        <5> QED
          BY <4>2, <5>1, <5>3 DEF First
      <4> QED
        BY <4>1, <4>2
    <3> DEFINE a == First(file, lastSeq)
    <3> HIDE DEF n, m, a
    <3>3. count' <= m - 1 \/ (count' <= m /\ a > 1)
      BY <1>1, <1>2, <2>1, <3>1 DEF a
    <3> QED
      BY <3>2, <3>3 DEF a
  <2> QED
    BY <1>1, <2>2, <2>3
<1> QED
  BY <1>4, <1>5, <1>6 DEF Sized

\* The count a scan leaves.
LEMMA SizedScanned ==
  ASSUME file' \in Seq(HistoryLines), torn' \in BOOLEAN, Disk', flaws' = {}, Writable',
         count' = Len(View'.recs),
         torn' /\ Len(file') = 1 => file'[1].seq = 0 /\ (Len(View'.recs) = 0 => lastSeq' = 0)
  PROVE  Sized'
<1> DEFINE m == Len(file')
           c == Len(View'.recs)
<1>1. ~View'.corrupt /\ Slot(file') # "rec" /\ file' # <<>>
  BY DEF Disk, Clean, Shape
<1>2. c \in Nat /\ c = Reach(file', torn') - 1
  BY <1>1, ViewLines DEF View
<1>3. m \in Nat /\ Reach(file', torn') \in Nat /\ Reach(file', torn') <= m
  BY WholeFacts
<1>4. c <= m - 1 /\ (m = 1 => c = 0)
  <2> DEFINE h == Reach(file', torn')
  <2>1. c \in Nat /\ c = h - 1 /\ m \in Nat /\ h \in Nat /\ h <= m
    BY <1>2, <1>3
  <2> HIDE DEF c, h, m
  <2> QED
    BY <2>1
<1> QED
  BY <1>2, <1>4 DEF Sized

\* A step that leaves the file alone.
LEMMA SizedSame ==
  ASSUME Sized, UNCHANGED <<file, torn>>, Writable' => Writable /\ lastSeq' = lastSeq /\ count' = count
  PROVE  Sized'
BY DEF Sized

LEMMA FlawsStay == Next /\ flaws' = {} => flaws = {}
BY DEF Next, OpenFails, OpenUnreadable, OpenCorrupt, Open, ObserveBaseline, ObserveNoEdge, AppendRefused,
       AppendShort, AppendUnsynced, AppendSynced, ReadAll, ReadBefore, Crash, CrashInAppend, NoteCorrupt, vars, histVars

\* A synced append counts.
LEMMA SyncCounts ==
  ASSUME HTypeOK, AppendSynced
  PROVE  \/ SyncsAll /\ count' = count + 1
         \/ Evicts /\ count + 1 > FileCap /\ count' = FileCap
<1>1. /\ Edge /\ ~openErr /\ torn' = FALSE /\ durable' = durable \union {now + 1} /\ NoteCorrupt
      /\ lastSeq' = lastSeq + 1
  BY DEF AppendSynced, Watermark
<1>2. Noted /\ up /\ up' = up /\ openErr' = openErr /\ now' = now + 1
  BY <1>1, NotedFacts DEF Edge
<1>3. Syncs
  BY <1>1, <1>2 DEF Syncs, Writable
<1>4. \/ file' = Written(file, torn, NewLine) /\ fileDropped' = fileDropped /\ count' = count + 1
      \/ /\ Len(EvictLines(Written(file, torn, NewLine))) > FileCap /\ count + 1 > FileCap
         /\ file' = Evicted(Written(file, torn, NewLine), fileDropped, lastSeq + 1)
         /\ fileDropped' = fileDropped + Len(EvictLines(Written(file, torn, NewLine))) - FileCap
         /\ count' = FileCap
  BY DEF AppendSynced, Watermark
<1> QED
  BY <1>3, <1>4 DEF SyncsAll, Evicts

\* A start leaves the file it found, a new one, or one it numbered.
LEMMA OpenLeaves ==
  ASSUME HTypeOK, Disk, Open, flaws = {}, Paging
  PROVE  \/ UNCHANGED <<file, torn>> /\ file # <<>>
         \/ file = <<>> /\ ~torn'
         \/ ~Counting(file, torn) /\ ~torn'
<1> DEFINE s0 == Scan(Opened, torn)
<1>1. /\ file' = IF s0.legacy THEN Migrated(s0) ELSE Opened
      /\ torn' = IF s0.legacy THEN FALSE ELSE torn
      /\ ~s0.corrupt
  BY DEF Open
<1>2. file \in Seq(HistoryLines) /\ torn \in BOOLEAN /\ Slot(file) # "rec" /\ (file = <<>> => ~torn)
  BY DEF HTypeOK, Disk, Shape
<1>3. CASE file = <<>>
  BY <1>1, <1>2, <1>3
<1>4. CASE file # <<>> /\ ~s0.legacy
  BY <1>1, <1>4 DEF Opened
<1>5. CASE file # <<>> /\ s0.legacy
  <2>1. s0 = Scan(file, torn)
    BY <1>5 DEF Opened
  <2>2. /\ Scan(file, torn).legacy <=> \E i \in 1 .. Len(Scan(file, torn).recs) : Scan(file, torn).recs[i].seq = 0
    BY <1>2, ScanFacts
  <2>3. PICK i \in 1 .. Len(Scan(file, torn).recs) : Scan(file, torn).recs[i].seq = 0
    BY <1>5, <2>1, <2>2
  <2>4. Scan(file, torn).recs[i] = file[i + 1] /\ i + 1 \in 2 .. Reach(file, torn)
    BY <1>1, <1>2, <1>5, <2>1, ViewLines
  <2>5. ~Counting(file, torn)
    BY <2>3, <2>4 DEF Counting
  <2> QED
    BY <1>1, <1>5, <2>5
<1> QED
  BY <1>3, <1>4, <1>5

\* Every step keeps the count in line with the file.
LEMMA SizedStep ==
  ASSUME HistoryInv, Paging, flaws = {}, Sized, Next, flaws' = {}
  PROVE  Sized'
<1>a. HTypeOK /\ Disk /\ Mirrored
  BY DEF HistoryInv
<1>b. file' \in Seq(HistoryLines) /\ torn' \in BOOLEAN /\ Disk'
  BY <1>a, DiskInvStep
<1>c. ~View.corrupt /\ ~Scan(file', torn').corrupt
  BY <1>a, <1>b, CleanFlaws DEF View, Disk, Clean
<1>1. CASE OpenFails \/ OpenUnreadable
  <2>1. ~Writable'
    BY <1>1 DEF OpenFails, OpenUnreadable, Writable
  <2>2. CASE UNCHANGED <<file, torn>>
    BY <2>1, <2>2, SizedSame
  <2>3. CASE file' \in {<<Junk>>, <<MetaLine(0, 0, FALSE)>>}
    <3>1. PICK l : file' = <<l>> /\ l.seq = 0
      BY <2>3 DEF Junk, MetaLine
    <3>2. file'[1].seq = 0
      BY <3>1
    <3> QED
      BY <2>1, <3>2 DEF Sized
  <2>4. UNCHANGED <<file, torn>> \/ file' \in {<<Junk>>, <<MetaLine(0, 0, FALSE)>>}
    BY <1>1 DEF OpenFails, OpenUnreadable, Opened, diskVars
  <2> QED
    BY <2>2, <2>3, <2>4
<1>2. CASE OpenCorrupt
  BY <1>2, <1>c DEF OpenCorrupt, View
<1>3. CASE Open
  <2>1. Writable' /\ count' = Len(View'.recs)
    BY <1>3 DEF Open, View, Writable
  <2>2. lastSeq' \in {View'.lastSeq} \union {View'.recs[i].seq : i \in DOMAIN View'.recs}
    BY <1>3 DEF Open, View
  <2>3. ASSUME torn', Len(file') = 1 PROVE file'[1].seq = 0 /\ (Len(View'.recs) = 0 => lastSeq' = 0)
    <3>1. UNCHANGED <<file, torn>>
      BY <1>3, <1>a, <2>3, OpenLeaves
    <3>2. file'[1].seq = 0
      BY <2>3, <3>1 DEF Sized
    <3>3. View'.lastSeq = IF Slot(file') = "meta" THEN file'[1].seq ELSE 0
      BY ScanMark DEF View
    <3>4. View'.lastSeq = 0
      BY <3>2, <3>3
    <3>5. ASSUME Len(View'.recs) = 0 PROVE DOMAIN View'.recs = {}
      <4>1. View'.recs \in Seq(HistoryLines)
        BY <1>3, <1>a, OpenFacts
      <4>2. DOMAIN View'.recs = 1 .. Len(View'.recs)
        BY <4>1, LenProperties
      <4> QED
        BY <3>5, <4>2
    <3> QED
      BY <2>2, <3>2, <3>4, <3>5
  <2> QED
    BY <1>b, <2>1, <2>3, SizedScanned
<1>4. CASE (\E firing \in BOOLEAN : ObserveBaseline(firing)) \/ ObserveNoEdge \/ AppendRefused \/ Crash
  <2>1. UNCHANGED <<file, torn>>
    BY <1>4 DEF ObserveBaseline, ObserveNoEdge, AppendRefused, Crash, vars, diskVars
  <2>2. Writable' => Writable /\ lastSeq' = lastSeq /\ count' = count
    BY <1>4 DEF ObserveBaseline, ObserveNoEdge, AppendRefused, Edge, Crash, Down, vars, storeVars, Writable
  <2> QED
    BY <2>1, <2>2, SizedSame
<1>5. CASE ReadAll \/ ReadBefore
  <2>1. UNCHANGED <<file, torn, lastSeq>> /\ Writable /\ Writable' /\ Mirror(Scan(file, torn))
    BY <1>5 DEF ReadAll, ReadBefore, Writable, diskVars
  <2>2. View' = View /\ count' = Len(View.recs)
    BY <1>c, <2>1 DEF Mirror, View
  <2>3. torn' /\ Len(file') = 1 => file'[1].seq = 0 /\ lastSeq' = 0
    BY <2>1 DEF Sized
  <2> QED
    BY <1>b, <2>1, <2>2, <2>3, SizedScanned
<1>6. CASE AppendShort
  <2>1. Writable /\ torn' = TRUE /\ lastSeq' = lastSeq /\ count' = count
    BY <1>6 DEF AppendShort, Edge, Writable
  <2>2. PICK l \in {Junk, NewLine} : file' = Written(file, torn, l)
    BY <1>6 DEF AppendShort
  <2> QED
    BY <1>a, <1>b, <1>c, <2>1, <2>2, SizedWritten
<1>7. CASE AppendUnsynced
  BY <1>7 DEF AppendUnsynced
<1>8. CASE AppendSynced
  <2>1. CASE SyncsAll /\ count' = count + 1
    <3>1. Writable /\ torn' = FALSE /\ lastSeq' = lastSeq + 1 /\ file' = Written(file, torn, NewLine)
      BY <2>1 DEF SyncsAll, Syncs
    <3> QED
      BY <1>a, <1>b, <1>c, <2>1, <3>1, SizedWritten
  <2>2. CASE Evicts /\ count' = FileCap
    <3>1. torn' = FALSE /\ FileCap \in Nat
      BY <2>2, TransitionConstants DEF Evicts, Syncs
    <3>2. Slot(file') = "meta"
      <4> DEFINE w == Written(file, torn, NewLine)
      <4>1. /\ Writable /\ Len(EvictLines(w)) > FileCap /\ file' = Evicted(w, fileDropped, lastSeq + 1)
        BY <2>2 DEF Evicts, Syncs
      <4>2. w = Written(file, torn, NewLine) /\ NewLine \in {Junk, NewLine} /\ FALSE \in BOOLEAN
        OBVIOUS
      <4> HIDE DEF w
      <4>3. ~Scan(w, FALSE).corrupt
        BY <1>a, <1>c, <3>1, <4>1, <4>2, EvictWhole
      <4>4. w \in Seq(HistoryLines) /\ w # <<>> /\ Slot(w) # "rec"
        BY <1>a, <4>1, <4>2, <4>3, WriteOrdered
      <4>5. fileDropped \in Nat /\ lastSeq + 1 \in Nat
        BY <1>a DEF HTypeOK
      <4> QED
        BY <4>1, <4>4, <4>5, EvictedShifted
    <3> QED
      BY <2>2, <3>1, <3>2 DEF Sized
  <2> QED
    BY <1>8, <1>a, <2>1, <2>2, SyncCounts
<1>9. CASE CrashInAppend
  <2>1. Writable /\ ~Writable'
    BY <1>9 DEF CrashInAppend, Down, Writable
  <2>2. PICK l \in {Junk, NewLine} : file' = Written(file, torn, l)
    BY <1>9 DEF CrashInAppend
  <2> QED
    BY <1>a, <1>b, <1>c, <2>1, <2>2, SizedWritten
<1> QED
  BY <1>1, <1>2, <1>3, <1>4, <1>5, <1>6, <1>7, <1>8, <1>9 DEF Next

\* An entry keeps what backs it, and a new one has it.
LEMMA BackedStep ==
  ASSUME HistoryInv, Paging, flaws = {}, Sized, Next, flaws' = {}, NEW e \in Entries,
         \/ Backed(file, torn, e) /\ Counting(file, torn)
         \/ ForAppend(e) /\ Records
  PROVE  Backed(file', torn', e) /\ Counting(file', torn')
<1>a. HTypeOK /\ Disk /\ Mirrored
  BY DEF HistoryInv
<1>b. file' \in Seq(HistoryLines) /\ torn' \in BOOLEAN /\ Disk'
  BY <1>a, DiskInvStep
<1>c. ~View.corrupt /\ ~Scan(file', torn').corrupt
  BY <1>a, <1>b, CleanFlaws DEF View, Disk, Clean
<1>1. CASE AppendSynced
  <2>1. CASE SyncsAll
    <3>1. Writable /\ torn' = FALSE /\ file' = Written(file, torn, NewLine) /\ NewLine \in {Junk, NewLine}
      BY <2>1 DEF SyncsAll, Syncs
    <3>2. Counting(file', torn')
      BY <1>a, <1>b, <1>c, <3>1, WriteOrdered
    <3>3. CASE Backed(file, torn, e)
      BY <1>a, <1>b, <1>c, <3>1, <3>2, <3>3, BackedWritten
    <3>4. CASE ForAppend(e)
      BY <1>a, <1>c, <3>1, <3>2, <3>4, BackedNew
    <3> QED
      BY <3>3, <3>4
  <2>2. CASE Evicts /\ count + 1 > FileCap
    <3> DEFINE w == Written(file, torn, NewLine)
    <3>1. /\ Writable /\ torn' = FALSE /\ Len(EvictLines(w)) > FileCap
          /\ file' = Evicted(w, fileDropped, lastSeq + 1)
      BY <2>2 DEF Evicts, Syncs
    <3>2. w = Written(file, torn, NewLine) /\ NewLine \in {Junk, NewLine} /\ FALSE \in BOOLEAN
      OBVIOUS
    <3> HIDE DEF w
    <3>3. Backed(file', FALSE, e)
      BY <1>a, <1>c, <2>2, <3>1, <3>2, BackedEvicted
    <3>4. ~Scan(w, FALSE).corrupt
      BY <1>a, <1>c, <3>1, <3>2, EvictWhole
    <3>5. w \in Seq(HistoryLines) /\ w # <<>> /\ Slot(w) # "rec" /\ Counting(w, FALSE)
      BY <1>a, <3>1, <3>2, <3>4, WriteOrdered
    <3>6. fileDropped \in Nat /\ lastSeq + 1 \in Nat
      BY <1>a DEF HTypeOK
    <3>7. PICK k \in Nat : Shifted(file', w, k)
      BY <3>1, <3>5, <3>6, EvictedShifted
    <3>8. Counting(file', FALSE)
      BY <1>b, <3>5, <3>7, ShiftedOrder
    <3> QED
      BY <3>1, <3>3, <3>8
  <2> QED
    BY <1>1, <1>a, <2>1, <2>2, SyncCounts
<1>2. CASE CrashInAppend
  <2>1. Writable
    BY <1>2 DEF CrashInAppend, Down, Writable
  <2>2. ~AppendSynced
    BY <1>2 DEF CrashInAppend, Down, AppendSynced, Edge
  <2>3. PICK l \in {Junk, NewLine} : file' = Written(file, torn, l)
    BY <1>2 DEF CrashInAppend
  <2>4. Counting(file', torn')
    BY <1>a, <1>b, <1>c, <2>1, <2>3, WriteOrdered
  <2>5. CASE Backed(file, torn, e)
    BY <1>a, <1>b, <1>c, <2>1, <2>3, <2>4, <2>5, BackedWritten
  <2>6. CASE ForAppend(e) /\ Records
    <3>1. file' = Written(file, torn, NewLine) /\ torn' = FALSE
      BY <2>2, <2>6 DEF Records
    <3> QED
      BY <1>a, <1>c, <2>1, <2>4, <2>6, <3>1, BackedNew
  <2> QED
    BY <2>5, <2>6
<1>3. CASE ~AppendSynced /\ ~CrashInAppend
  <2>1. Backed(file, torn, e) /\ Counting(file, torn)
    BY <1>3 DEF Records
  <2>2. file # <<>>
    <3> SUFFICES ASSUME file = <<>> PROVE FALSE
      OBVIOUS
    <3>1. Slot(file) = "none" /\ Len(file) = 0
      BY DEF Slot
    <3>2. \A p : p \notin Whole(file, torn)
      BY <3>1 DEF Whole
    <3> QED
      BY <2>1, <3>1, <3>2 DEF Backed
  <2>3. CASE UNCHANGED <<file, torn>>
    BY <2>1, <2>3
  <2>4. CASE AppendShort
    <3>1. Writable
      BY <2>4 DEF AppendShort, Edge, Writable
    <3>2. PICK l \in {Junk, NewLine} : file' = Written(file, torn, l)
      BY <2>4 DEF AppendShort
    <3>3. Counting(file', torn')
      BY <1>a, <1>b, <1>c, <3>1, <3>2, WriteOrdered
    <3> QED
      BY <1>a, <1>b, <1>c, <2>1, <3>1, <3>2, <3>3, BackedWritten
  <2>5. CASE Open
    BY <1>a, <2>1, <2>2, <2>3, <2>5, OpenLeaves
  <2>6. CASE AppendUnsynced
    BY <2>6 DEF AppendUnsynced
  <2>7. CASE OpenFails \/ OpenUnreadable
    BY <2>2, <2>3, <2>7 DEF OpenFails, OpenUnreadable, Opened, diskVars
  <2>8. CASE \/ OpenCorrupt \/ (\E firing \in BOOLEAN : ObserveBaseline(firing)) \/ ObserveNoEdge \/ AppendRefused
             \/ ReadAll \/ ReadBefore \/ Crash
    BY <2>3, <2>8 DEF OpenCorrupt, ObserveBaseline, ObserveNoEdge, AppendRefused, ReadAll, ReadBefore, Crash, vars, diskVars
  <2> QED
    BY <1>3, <2>4, <2>5, <2>6, <2>7, <2>8 DEF Next
<1> QED
  BY <1>1, <1>2, <1>3

\* Every step keeps the entries backed.
LEMMA AcceptingStep ==
  ASSUME HistoryInv, Paging, LedgerTyped, Accepting, [ANext]_allVars
  PROVE  LedgerTyped' /\ Accepting'
<1>1. HTypeOK /\ now \in Nat
  BY DEF HistoryInv, HTypeOK
<1>2. LedgerTyped' /\ \A e \in Held' : e \in Held \/ (ForAppend(e) /\ Records)
  BY <1>1, HeldStep
<1>3. \A e \in Held : e \in Entries
  BY DEF Held, LinesIn, LedgerTyped
<1>4. CASE UNCHANGED vars
  <2>1. UNCHANGED <<file, torn, up, openErr, count, lastSeq, now, flaws>>
    BY <1>4 DEF vars, diskVars, storeVars, histVars
  <2>2. ~Records
    BY <1>1, <2>1 DEF Records, AppendSynced, Edge, CrashInAppend
  <2>3. Attested => Attested'
    BY <1>2, <2>1, <2>2 DEF Attested
  <2>4. Sized => Sized'
    BY <2>1 DEF Sized, Writable
  <2> QED
    BY <1>2, <2>1, <2>3, <2>4 DEF Accepting
<1>5. CASE Next
  <2> SUFFICES ASSUME flaws' = {} PROVE Attested' /\ Sized'
    BY <1>2 DEF Accepting
  <2>1. flaws = {} /\ Attested /\ Sized
    BY <1>5, FlawsStay DEF Accepting
  <2>2. Sized'
    BY <1>5, <2>1, SizedStep
  <2>3. ASSUME NEW e \in Held' PROVE Backed(file', torn', e) /\ Counting(file', torn')
    <3>1. e \in Entries
      BY <1>2, <1>3, <2>3 DEF ForAppend
    <3>2. (Backed(file, torn, e) /\ Counting(file, torn)) \/ (ForAppend(e) /\ Records)
      BY <1>2, <2>1, <2>3 DEF Attested
    <3> QED
      BY <1>5, <2>1, <3>1, <3>2, BackedStep
  <2> QED
    BY <2>2, <2>3 DEF Attested
<1> QED
  BY <1>4, <1>5, RecorderStep

LEMMA AcceptingInit == AInit => LedgerTyped /\ Accepting
<1> SUFFICES ASSUME AInit PROVE LedgerTyped /\ Accepting
  OBVIOUS
<1>1. alog = <<>> /\ seen = <<>> /\ tail = NoTail /\ Init
  BY DEF AInit, NotReading
<1>2. \A S : <<>> \in Seq(S)
  OBVIOUS
<1>3. LedgerTyped
  BY <1>1, <1>2 DEF LedgerTyped
<1>4. Attested
  BY <1>1 DEF Attested, Held, LinesIn
<1>5. Sized
  BY <1>1 DEF Init, Sized, Writable
<1> QED
  BY <1>3, <1>4, <1>5 DEF Accepting

\* The entry that counts for a number is one of the entries with it.
LEMMA AcceptedEntry ==
  ASSUME NEW log \in Seq(Entries), NEW s \in RecordSeqs(log)
  PROVE  \E k \in DOMAIN log : log[k].rec = s /\ AcceptedAt(log, s) = log[k].at
<1> DEFINE n == Len(log)
           T == {k \in 0 .. n : n - k \in DOMAIN log /\ log[n - k].rec = s}
           P(i) == log[i].rec = s /\ \A j \in i + 1 .. Len(log) : log[j].rec # s
<1>1. DOMAIN log = 1 .. n /\ n \in Nat
  BY LenProperties
<1>2. T \in SUBSET Nat /\ T # {}
  <2>1. PICK i \in 1 .. n : log[i].rec = s
    BY <1>1 DEF RecordSeqs
  <2>2. n - i \in 0 .. n /\ n - (n - i) = i
    BY <1>1
  <2>3. n - i \in T
    BY <1>1, <2>1, <2>2
  <2>4. T \in SUBSET Nat
    BY <1>1
  <2> HIDE DEF T
  <2> QED
    BY <2>3, <2>4
<1>3. PICK k \in T : \A y \in T : k <= y
  <2> HIDE DEF T
  <2> QED
    BY <1>2, Least
<1>4. n - k \in DOMAIN log /\ log[n - k].rec = s /\ k \in 0 .. n
  BY <1>3
<1>5. ASSUME NEW j \in n - k + 1 .. n PROVE log[j].rec # s
  <2> SUFFICES ASSUME log[j].rec = s PROVE FALSE
    OBVIOUS
  <2>1. n - j \in 0 .. n /\ n - (n - j) = j /\ j \in 1 .. n /\ ~(k <= n - j)
    BY <1>1, <1>4, <1>5
  <2>2. n - j \in T
    BY <1>1, <2>1
  <2> QED
    BY <1>3, <2>1, <2>2
<1>6. P(n - k)
  BY <1>4, <1>5
<1>7. AcceptedAt(log, s) = log[CHOOSE i \in DOMAIN log : P(i)].at
  BY DEF AcceptedAt
<1> HIDE DEF P
<1>8. \E i \in DOMAIN log : P(i)
  BY <1>4, <1>6
<1> DEFINE c == CHOOSE i \in DOMAIN log : P(i)
<1>9. c \in DOMAIN log /\ P(c)
  BY <1>8, Zenon
<1> HIDE DEF c
<1>10. AcceptedAt(log, s) = log[c].at
  BY <1>7 DEF c
<1> QED
  BY <1>9, <1>10 DEF P

\* A store that backs every entry is not reported modified.
LEMMA NotAccused ==
  ASSUME HistoryInv, Paging, LedgerTyped, Accepting, Writable, flaws = {}, rot = {}, ~View.inc
  PROVE  Verdict(seen, View) # "modified"
<1> DEFINE r == View.recs
<1>1. /\ file \in Seq(HistoryLines) /\ torn \in BOOLEAN /\ file # <<>> /\ Slot(file) # "rec" /\ HTypeOK /\ Disk
  BY DEF HistoryInv, HTypeOK, Disk, Shape
<1>2. /\ ~View.corrupt /\ r \in Seq(HistoryLines) /\ DOMAIN r = 1 .. Len(r) /\ Len(r) \in Nat
      /\ \A i \in 1 .. Len(r) : r[i] = file[i + 1] /\ i + 1 \in 2 .. Reach(file, torn)
      /\ \A p \in 2 .. Reach(file, torn) : p - 1 \in 1 .. Len(r) /\ file[p] = r[p - 1]
  BY <1>1, ReadFinds, LenProperties
<1>3. Slot(file) = "meta"
  <2>1. View.inc = IF Slot(file) = "meta" THEN file[1].inc ELSE file # <<>>
    BY <1>1, ScanFacts DEF View
  <2> QED
    BY <1>1, <2>1
<1> HIDE DEF r
<1>4. ASSUME NEW k \in DOMAIN seen
      PROVE  /\ seen[k].rec \in Nat
             /\ \E p \in 2 .. Reach(file, torn) : file[p].seq = seen[k].rec \/ (p = 2 /\ seen[k].rec < file[p].seq)
             /\ \A p \in 2 .. Reach(file, torn) : file[p].seq = seen[k].rec => file[p].at = seen[k].at
  <2> DEFINE e == seen[k]
  <2>1. e \in Entries
    BY DEF LedgerTyped
  <2>2. e \in Held
    BY <2>1, EntryFacts DEF Held, LinesIn
  <2> HIDE DEF e
  <2>3. Backed(file, torn, e)
    BY <2>2 DEF Accepting, Attested
  <2>4. /\ \E p \in Whole(file, torn) : file[p].seq = e.rec \/ (p = 2 /\ e.rec < file[p].seq)
        /\ \A p \in 2 .. Reach(file, torn) : file[p].seq = e.rec => file[p].at = e.at
    BY <1>3, <2>3 DEF Backed
  <2>5. \A p \in Whole(file, torn) : p \in 2 .. Reach(file, torn)
    BY <1>1, WholeFacts
  <2>6. e.rec \in Nat
    BY <2>1 DEF Entries
  <2> QED
    BY <2>4, <2>5, <2>6 DEF e
<1>5. Modified(seen, r) = {}
  <2> SUFFICES ASSUME NEW s \in RecordSeqs(seen), NEW i \in DOMAIN r, r[i].seq = s, r[i].at # AcceptedAt(seen, s)
               PROVE  FALSE
    BY DEF Modified
  <2>1. PICK k \in DOMAIN seen : seen[k].rec = s /\ AcceptedAt(seen, s) = seen[k].at
    BY AcceptedEntry DEF LedgerTyped
  <2>2. i + 1 \in 2 .. Reach(file, torn) /\ r[i] = file[i + 1]
    BY <1>2
  <2> QED
    BY <1>4, <2>1, <2>2
<1>6. MissingInSpan(seen, r) = {}
  <2> SUFFICES ASSUME NEW k \in DOMAIN seen, seen[k].rec \notin Seqs(r),
                      r = <<>> \/ \E x \in Seqs(r) : x < seen[k].rec
               PROVE  FALSE
    BY DEF MissingInSpan, RecordSeqs
  <2>1. PICK p \in 2 .. Reach(file, torn) : file[p].seq = seen[k].rec \/ (p = 2 /\ seen[k].rec < file[p].seq)
    BY <1>4
  <2>2. p - 1 \in DOMAIN r /\ file[p] = r[p - 1]
    BY <1>2
  <2>3. p = 2 /\ seen[k].rec < file[2].seq
    BY <2>1, <2>2 DEF Seqs
  <2>4. r # <<>>
    BY <2>2
  <2>5. PICK i \in DOMAIN r : r[i].seq < seen[k].rec
    BY <2>4 DEF Seqs
  <2>6. Counting(file, torn) /\ file[i + 1].seq \in Nat /\ file[2].seq \in Nat
    BY <1>1, <1>2, <2>1, <2>3, WholeFacts DEF Paging
  <2>7. file[2].seq <= file[i + 1].seq
    <3>1. i + 1 \in 2 .. Reach(file, torn) /\ i \in Nat /\ i > 0
      BY <1>2
    <3>2. CASE i = 1
      BY <2>6, <3>2
    <3>3. CASE i # 1
      <4>1. 2 \in 2 .. (i + 1) - 1
        BY <3>1, <3>3
      <4>2. file[2].seq < file[i + 1].seq
        BY <2>6, <3>1, <4>1 DEF Counting
      <4> QED
        BY <2>6, <4>2
    <3> QED
      BY <3>2, <3>3
  <2> DEFINE a == file[2].seq
             b == file[i + 1].seq
             x == seen[k].rec
  <2>8. a \in Nat /\ b \in Nat /\ x \in Nat /\ a <= b /\ b < x /\ x < a
    BY <1>2, <1>4, <2>3, <2>5, <2>6, <2>7
  <2> HIDE DEF a, b, x
  <2> QED
    BY <2>8
<1>7. Verdict(seen, View) \in {"unverifiable", "incomplete", "ok"}
  BY <1>5, <1>6 DEF Verdict, r
<1> QED
  BY <1>7

\* A damaged record that the ledger covers is not reported clean.
LEMMA DamageSeen ==
  ASSUME HistoryInv, LedgerTyped, seen # <<>>, Verdict(seen, View) = "ok",
         NEW i \in DOMAIN View.recs, View.recs[i].at \in rot
  PROVE  View.recs[i].seq <= CoverageFloor(seen)
<1> DEFINE r == View.recs
           s == r[i].seq
<1>1. Modified(seen, r) = {} /\ Unaccepted(seen, r) = {}
  BY DEF Verdict
<1>2. r \in Seq(HistoryLines)
  BY ViewFacts DEF HistoryInv
<1>3. s \in Nat /\ s \in Seqs(r)
  BY <1>2, HistoryLineFacts DEF Seqs
<1>4. s \notin RecordSeqs(seen)
  BY <1>1, <1>3 DEF Modified
<1>5. ~(s > CoverageFloor(seen))
  BY <1>1, <1>3, <1>4 DEF Unaccepted
<1>6. CoverageFloor(seen) \in Int
  <2>1. seen[1] \in Entries
    BY EmptySeq, LenProperties DEF LedgerTyped
  <2>2. seen[1].rec \in Nat
    BY <2>1 DEF Entries
  <2> QED
    BY <2>2 DEF CoverageFloor
<1> HIDE DEF s
<1>7. s <= CoverageFloor(seen)
  BY <1>3, <1>5, <1>6
<1> QED
  BY <1>7 DEF s

\* The answer of a view.
LEMMA AnswerSound ==
  ASSUME HistoryInv, Paging, LedgerTyped, Accepting, [ANext]_allVars, Answers
  PROVE  /\ Verdict(seen, View) = "modified" => rot # {} \/ flaws # {} \/ View.inc
         /\ Verdict(seen, View) = "ok" =>
              \A i \in DOMAIN View.recs : View.recs[i].at \in rot => View.recs[i].seq <= CoverageFloor(seen)
<1>1. seen # <<>> /\ seen' # seen /\ up'
  BY DEF Answers, NotReading
<1>2. ViewStore
  <2>1. ~(UNCHANGED seen) /\ seen' = <<>>
    BY <1>1 DEF Answers, NotReading
  <2>2. ~CrashInRecorder /\ ~Stopped
    BY <1>1 DEF CrashInRecorder, Stopped, Crash, CrashInAppend, Down
  <2>3. ~ViewLedger
    BY <1>1 DEF ViewLedger, NotReading
  <2> QED
    BY <2>1, <2>2, <2>3
       DEF ANext, Accepted, NotAccepted, CompactionRefused, EntryFails, Damaged, acceptanceVars, allVars
<1>3. ASSUME Verdict(seen, View) = "modified", rot = {}, flaws = {}, ~View.inc PROVE FALSE
  <2>1. ~openErr
    BY <1>3 DEF Verdict
  <2>2. Writable
    BY <1>2, <2>1 DEF ViewStore, ReadAll, Writable
  <2> QED
    BY <1>3, <2>2, NotAccused
<1>4. ASSUME Verdict(seen, View) = "ok", NEW i \in DOMAIN View.recs, View.recs[i].at \in rot
      PROVE  View.recs[i].seq <= CoverageFloor(seen)
  BY <1>1, <1>4, DamageSeen
<1> QED
  BY <1>3, <1>4

\* What InputIntegrityView answers is right both ways, although it reads the
\* ledger before the store: an undamaged store is never reported modified, and
\* a damaged record within the ledger's coverage is never reported clean.
THEOREM InputVerdictRight == ASpec => InputVerdictSound
<1>1. ASpec => []HistoryInv /\ []Paging
  BY PagingInvariant, RecorderIsBystander, PTL
<1>2. HistoryInv /\ Paging /\ LedgerTyped /\ Accepting /\ [ANext]_allVars => (LedgerTyped /\ Accepting)'
  BY AcceptingStep
<1>3. ASpec => []LedgerTyped /\ []Accepting
  BY <1>1, <1>2, AcceptingInit, PTL DEF ASpec
<1>4. ASSUME HistoryInv, Paging, LedgerTyped, Accepting, [ANext]_allVars
      PROVE  [Answers =>
                /\ Verdict(seen, View) = "modified" => rot # {} \/ flaws # {} \/ View.inc
                /\ Verdict(seen, View) = "ok" =>
                     \A i \in DOMAIN View.recs :
                       View.recs[i].at \in rot => View.recs[i].seq <= CoverageFloor(seen)]_allVars
  BY <1>4, AnswerSound
<1> QED
  BY <1>1, <1>3, <1>4, PTL DEF ASpec, InputVerdictSound

=============================================================================
