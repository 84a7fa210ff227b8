--------------------------- MODULE VerificationLog ---------------------------
(***************************************************************************)
(* The verification attestations (snapshot_verification.go).  The verify   *)
(* ticker and an administrator's request each read the published snapshots *)
(* and the key lifecycle ledger, build a report and append it to a chained *)
(* log under verificationWriteMu; the view derives from the surviving      *)
(* reports which publications were never verified and whose verdict        *)
(* changed.  The configuration without an anchor transport is modelled:    *)
(* anchoring a report is what KeyLifecycle models for an event.            *)
(*                                                                         *)
(* Every instant the code reads from its clock is a new value of clock.    *)
(***************************************************************************)
EXTENDS AppendOnlyLog, FiniteSetsExt

CONSTANTS Attesters,        \* the verify tick and the request handler
          Pubs,             \* publications
          VerifyCapacity,   \* reports the log keeps
          MaxReports,       \* bound: attestations started
          MaxMishaps,        \* bound: failed writes and outside changes
          Nobody

ASSUME VerificationConstants == Nobody \notin Attesters /\ VerifyCapacity \in Int

VARIABLES pub,        \* publication -> [state, at, altered]
          ruler,      \* the key lifecycle ledger: "bounded" or "unreadable"
          clock,
          vlog,       \* verification.jsonl
          att,        \* attester -> where it is in AttestVerification
          writeMu,    \* verificationWriteMu
          reader,     \* what a view has read so far, if one is on
          started, mishaps,
          covered,    \* history: publications some written report covers
          late,       \* history: publications covered by a report that began before them
          overtaken,  \* history: a report was written after one that began later
          blamed      \* history: gaps and divergences a view reported wrongly

vvars == <<pub, ruler, clock, vlog, att, writeMu, reader, started, mishaps, covered,
          late, overtaken, blamed>>

Dimensions == {"status", "lifecycle"}
NoAtt == [step |-> "idle"]
NoView == <<>>
Listed == {p \in Pubs : pub[p].state = "listed"}

(***************************************************************************)
(* The verdict of one publication.                                         *)
(***************************************************************************)
ClassOf(v) == IF v = "mismatch" THEN "contradicted"
              ELSE IF v \in {"ok", "bounded"} THEN "ok" ELSE "unattested"

MergeOverall(classes) ==
  IF "contradicted" \in classes THEN "contradicted"
  ELSE IF classes \subseteq {"ok"} THEN "attested" ELSE "unattested"

\* A dimension without its input is not evaluable.
ClassOfItem(it, evaluable, d) == IF d \in evaluable THEN ClassOf(it[d]) ELSE "unavailable"

Item(status, life, evaluable) ==
  LET it == [status |-> status, lifecycle |-> life] IN
    [status |-> status, lifecycle |-> life,
     overall |-> MergeOverall({ClassOfItem(it, evaluable, d) : d \in Dimensions})]

(***************************************************************************)
(* loadVerificationState                                                   *)
(***************************************************************************)
Digest(line) == [group |-> line.group, at |-> line.at]

Verifiable(log) ==
  \A i \in 2 .. Len(log) : /\ log[i].prev = Digest(log[i - 1])
                           /\ log[i].group = log[i - 1].group + 1

VInit == /\ pub = [p \in Pubs |-> [state |-> "none", at |-> 0, altered |-> FALSE]]
        /\ ruler = "bounded" /\ clock = 1 /\ vlog = <<>>
        /\ att = [a \in Attesters |-> NoAtt] /\ writeMu = Nobody /\ reader = NoView
        /\ started = 0 /\ mishaps = 0
        /\ covered = {} /\ late = {} /\ overtaken = FALSE /\ blamed = {}

(***************************************************************************)
(* The environment: a snapshot gets its time, is listed, altered, pruned.  *)
(***************************************************************************)
Becomes(p, state, altered) ==
  pub' = [pub EXCEPT ![p] = [state |-> state, at |-> pub[p].at, altered |-> altered]]

Generate(p) ==
  /\ pub[p].state = "none"
  /\ pub' = [pub EXCEPT ![p] = [state |-> "generated", at |-> clock, altered |-> FALSE]]
  /\ clock' = clock + 1
  /\ UNCHANGED <<ruler, vlog, att, writeMu, reader, started, mishaps, covered, late, overtaken, blamed>>

Link(p) ==
  /\ pub[p].state = "generated"
  /\ Becomes(p, "listed", pub[p].altered)
  /\ UNCHANGED <<ruler, clock, vlog, att, writeMu, reader, started, mishaps, covered, late, overtaken, blamed>>

Outside ==
  /\ mishaps < MaxMishaps /\ mishaps' = mishaps + 1
  /\ \/ \E p \in Listed : Becomes(p, "listed", TRUE) /\ UNCHANGED ruler
     \/ \E p \in Listed : Becomes(p, "pruned", pub[p].altered) /\ UNCHANGED ruler
     \/ ruler' = "unreadable" /\ ruler # ruler' /\ UNCHANGED pub
  /\ UNCHANGED <<clock, vlog, att, writeMu, reader, started, covered, late, overtaken, blamed>>

(***************************************************************************)
(* AttestVerification                                                      *)
(***************************************************************************)
\* The time is taken before anything is read.  (verifyTick skips while its
\* previous run is on: an attester runs one attestation at a time.)
Attest(a) ==
  /\ att[a] = NoAtt /\ started < MaxReports
  /\ att' = [att EXCEPT ![a] = [step |-> "verify", at |-> clock]]
  /\ clock' = clock + 1 /\ started' = started + 1
  /\ UNCHANGED <<pub, ruler, vlog, writeMu, reader, mishaps, covered, late, overtaken, blamed>>

\* VerifySnapshotsDetailed
VerifySnapshots(a) ==
  /\ att[a].step = "verify"
  /\ att' = [att EXCEPT ![a] =
       [step |-> "list", at |-> att[a].at,
        status |-> [p \in Listed |-> IF pub[p].altered THEN "mismatch" ELSE "ok"]]]
  /\ UNCHANGED <<pub, ruler, clock, vlog, writeMu, reader, started, mishaps, covered, late, overtaken, blamed>>

\* ListManifests gives the results their ids; then the lifecycle ledger.
BuildReport(a) ==
  /\ att[a].step = "list"
  /\ LET evaluable == IF ruler = "bounded" THEN Dimensions ELSE Dimensions \ {"lifecycle"}
         life == IF ruler = "bounded" THEN "bounded" ELSE ""
         ids == DOMAIN att[a].status \intersect Listed
     IN att' = [att EXCEPT ![a] =
          [step |-> "lock", at |-> att[a].at, evaluable |-> evaluable,
           items |-> [p \in ids |-> Item(att[a].status[p], life, evaluable)]]]
  /\ UNCHANGED <<pub, ruler, clock, vlog, writeMu, reader, started, mishaps, covered, late, overtaken, blamed>>

\* appendVerificationReport: the number and the link are read under the mutex.
WriteMuIgnored == TRUE
WriteMuFree == writeMu = Nobody

ReportRefused(a) ==
  /\ att[a].step = "lock" /\ WriteMuFree /\ ~ Classified(vlog)
  /\ att' = [att EXCEPT ![a] = NoAtt]
  /\ UNCHANGED <<pub, ruler, clock, vlog, writeMu, reader, started, mishaps, covered, late, overtaken, blamed>>

ReadHead(a) ==
  /\ att[a].step = "lock" /\ WriteMuFree /\ Classified(vlog)
  /\ writeMu' = a
  /\ att' = [att EXCEPT ![a] =
       [step |-> "append",
        line |-> [group |-> Max({0} \union Groups(vlog)) + 1, at |-> att[a].at,
                  evaluable |-> att[a].evaluable, items |-> att[a].items,
                  prev |-> IF vlog = <<>> THEN NoDigest ELSE Digest(vlog[Len(vlog)])]]]
  /\ UNCHANGED <<pub, ruler, clock, vlog, reader, started, mishaps, covered, late, overtaken, blamed>>

AppendReport(a) ==
  /\ att[a].step = "append"
  /\ vlog' = Appended(vlog, att[a].line)
  /\ covered' = covered \union DOMAIN att[a].line.items
  /\ late' = late \union {p \in DOMAIN att[a].line.items : pub[p].at > att[a].line.at}
  /\ overtaken' = (overtaken \/ \E i \in DOMAIN vlog : vlog[i] # Torn /\ vlog[i].at > att[a].line.at)
  /\ att' = [att EXCEPT ![a] = [step |-> "compact"]]
  /\ UNCHANGED <<pub, ruler, clock, writeMu, reader, started, mishaps, blamed>>

AppendFails(a) ==
  /\ att[a].step = "append"
  /\ mishaps < MaxMishaps /\ mishaps' = mishaps + 1
  /\ vlog' = TornAppend(vlog)
  /\ att' = [att EXCEPT ![a] = NoAtt] /\ writeMu' = Nobody
  /\ UNCHANGED <<pub, ruler, clock, reader, started, covered, late, overtaken, blamed>>

\* The destruction log accounts for the dropped reports or refuses.
CompactReports(a) ==
  /\ att[a].step = "compact"
  /\ \/ vlog' = IF Classified(vlog) THEN WithoutGroups(vlog, DroppedGroups(vlog, VerifyCapacity)) ELSE vlog
     \/ vlog' = vlog
  /\ att' = [att EXCEPT ![a] = NoAtt] /\ writeMu' = Nobody
  /\ UNCHANGED <<pub, ruler, clock, reader, started, mishaps, covered, late, overtaken, blamed>>

(***************************************************************************)
(* VerificationView                                                        *)
(***************************************************************************)
Covers(log, p) == \E i \in DOMAIN log : p \in DOMAIN log[i].items
FullHistory(log) == log[1].group = 1

\* deriveVerificationGap: a publication no surviving report covers is a gap
\* when nothing was compacted, or when it is not older than the oldest report.
Assertable(log, p) == FullHistory(log) \/ pub[p].at >= log[1].at
Gaps(log) ==
  IF log = <<>> THEN {} ELSE {p \in Listed : ~ Covers(log, p) /\ Assertable(log, p)}

\* classifyChange between two consecutive reports on a publication
Available(line, p) == {d \in line.evaluable : line.items[p][d] # ""}
ChangedAnyhow(r, s, p) ==
  \/ \E d \in Available(r, p) \intersect Available(s, p) : r.items[p][d] # s.items[p][d]
  \/ r.items[p].overall # s.items[p].overall
Changed(r, s, p) ==
  \/ \E d \in Available(r, p) \intersect Available(s, p) : r.items[p][d] # s.items[p][d]
  \/ Available(r, p) = Available(s, p) /\ r.items[p].overall # s.items[p].overall

\* deriveVerificationChanges
Divergent(log) ==
  {p \in Pubs : \E i, j \in DOMAIN log :
     /\ i < j /\ p \in DOMAIN log[i].items /\ p \in DOMAIN log[j].items
     /\ \A k \in i + 1 .. j - 1 : p \notin DOMAIN log[k].items
     /\ Changed(log[i], log[j], p)}

\* The log is read first; the listed publications afterwards.
ViewRead ==
  /\ reader = NoView /\ vlog # <<>>
  /\ reader' = [log |-> vlog, covered |-> covered]
  /\ UNCHANGED <<pub, ruler, clock, vlog, att, writeMu, started, mishaps, covered, late, overtaken, blamed>>

ViewDerive ==
  /\ reader # NoView
  /\ reader' = NoView
  /\ LET sound == IF Classified(reader.log) THEN Verifiable(reader.log) ELSE FALSE IN
       blamed' = IF ~ sound THEN blamed
                 ELSE blamed
                      \union {"gap" : p \in (Gaps(reader.log) \intersect reader.covered) \ late}
                      \union {"divergent" : p \in {q \in Divergent(reader.log) : ~ pub[q].altered}}
  /\ UNCHANGED <<pub, ruler, clock, vlog, att, writeMu, started, mishaps, covered, late, overtaken>>

VNext ==
  \/ \E p \in Pubs : Generate(p) \/ Link(p)
  \/ \E a \in Attesters :
       \/ Attest(a) \/ VerifySnapshots(a) \/ BuildReport(a) \/ ReportRefused(a) \/ ReadHead(a)
       \/ AppendReport(a) \/ AppendFails(a) \/ CompactReports(a)
  \/ Outside \/ ViewRead \/ ViewDerive

VSpec == VInit /\ [][VNext]_vvars

-----------------------------------------------------------------------------
\* Concurrent attestations leave one chain: the log verifies and its report
\* numbers run on, whoever appended and compacted (verificationWriteMu,
\* appendVerificationReport, loadVerificationState).
ReportsChained == Classified(vlog) => Verifiable(vlog)

\* A publication reported as never verified was covered by no report written
\* before the view began, although covering reports may have been compacted
\* away.  The boundary the code argues with is the time of the oldest report;
\* it is blind to reports written out of the order of their times and to
\* publications made while the covering attestation was already on, which are
\* excepted (deriveVerificationGap).
GapJustified == "gap" \in blamed => overtaken

\* A publication nobody altered is never reported divergent: losing an input
\* of the verification changes the scope of a report, not its finding
\* (classifyChange, deriveVerificationChanges).
DivergenceJustified == "divergent" \notin blamed

\* No view blames a publication without reason (deriveVerificationGap,
\* deriveVerificationChanges).
BlameJustified == GapJustified /\ DivergenceJustified
=============================================================================
