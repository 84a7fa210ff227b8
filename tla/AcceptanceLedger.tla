-------------------------- MODULE AcceptanceLedger --------------------------
(***************************************************************************)
(* The acceptance ledger (snapshot_acceptance.go) beside the transition    *)
(* store.  Inside the store's critical section, once a record is durable,  *)
(* the recorder appends a signed, chained entry with the record's sequence *)
(* and digest; it keeps what it knows of the ledger's end in a cached      *)
(* tail, valid for one file size.  InputIntegrityView reads the ledger and *)
(* afterwards the store and compares them.                                 *)
(*                                                                         *)
(* The bytes of a record are its time `at`; rot holds the times of records *)
(* whose bytes on disk changed behind the program's back.  Anchoring the   *)
(* entries is left to AnchorStream.                                        *)
(***************************************************************************)
EXTENDS TransitionStore, AppendOnlyLog

CONSTANTS
  AcceptanceCapacity,   \* entries the ledger keeps
  MaxFaults             \* bound: failures of the recorder and damaged records

ASSUME AcceptanceConstants == AcceptanceCapacity \in Nat \ {0, 1} /\ MaxFaults \in Nat

VARIABLES
  alog,     \* record-acceptance.jsonl
  tail,     \* acceptanceRecorder.tail
  seen,     \* the ledger as a view under way has read it
  rot,      \* times of the damaged records
  faults

acceptanceVars == <<alog, tail, seen, rot, faults>>
allVars == <<vars, acceptanceVars>>

NotReading == <<>>
NoTail == [valid |-> FALSE]

EntryDigest(e) == [group |-> e.group, rec |-> e.rec, at |-> e.at]

Chained(log) ==
  \A i \in 2 .. Len(log) : /\ log[i].prev = EntryDigest(log[i - 1])
                           /\ log[i].group = log[i - 1].group + 1

\* What reading the whole ledger, or the part behind a cached tail, yields.
TailOf(log) ==
  IF log = <<>> THEN [valid |-> TRUE, size |-> 0, head |-> NoDigest, max |-> 0]
  ELSE [valid |-> TRUE, size |-> Len(log), head |-> EntryDigest(log[Len(log)]), max |-> log[Len(log)].group]

Refused == [valid |-> FALSE, size |-> 0]

\* record: a cached tail is used as it is while the file has the cached size.
TailTrusted == IF tail.valid THEN [tail EXCEPT !.size = Len(alog)] ELSE IF Classified(alog) THEN TailOf(alog) ELSE Refused
KnownTail ==
  IF tail.valid /\ tail.size = Len(alog) THEN tail
  ELSE IF Classified(alog) THEN TailOf(alog) ELSE Refused

\* What the recorder's cache holds once the ledger's end is known: of a suffix
\* that was verified only the size is kept, the rest follows with the append.
CachedTail == IF tail.valid /\ Len(alog) > tail.size THEN [tail EXCEPT !.size = Len(alog)] ELSE KnownTail

\* A full ledger is compacted first, down to one entry below its capacity.
Room == IF Len(alog) + 1 > AcceptanceCapacity
        THEN WithoutGroups(alog, DroppedGroups(alog, AcceptanceCapacity - 1)) ELSE alog

Entry(t) == [group |-> t.max + 1, rec |-> lastSeq + 1, at |-> now + 1, prev |-> t.head]

AInit == /\ Init
         /\ alog = <<>> /\ tail = NoTail /\ seen = NotReading /\ rot = {} /\ faults = 0

-----------------------------------------------------------------------------
(* The store's append with the recorder behind it.                         *)

Accepted ==
  /\ AppendSynced
  /\ KnownTail.valid
  /\ alog' = Appended(Room, Entry(KnownTail))
  /\ tail' = TailOf(alog')
  /\ UNCHANGED <<seen, rot, faults>>

\* The ledger holds a line that cannot be read.
NotAccepted ==
  /\ AppendSynced
  /\ ~ KnownTail.valid
  /\ UNCHANGED acceptanceVars

Fault == faults < MaxFaults /\ faults' = faults + 1

\* The destruction log does not record the intent, or not the completion.
CompactionRefused ==
  /\ AppendSynced /\ KnownTail.valid /\ Fault
  /\ Room # alog
  /\ alog' \in {alog, Room}
  /\ tail' = CachedTail
  /\ UNCHANGED <<seen, rot>>

\* The entry is not written, cut short, or complete but not synced.
EntryFails ==
  /\ AppendSynced /\ KnownTail.valid /\ Fault
  /\ alog' \in {Room, TornAppend(Room), Appended(Room, Entry(KnownTail))}
  /\ tail' = [CachedTail EXCEPT !.size = Len(Room)]
  /\ UNCHANGED <<seen, rot>>

\* The process stops between the durable record and the recorder's return.
CrashInRecorder ==
  /\ CrashInAppend /\ Fault
  /\ file' = Written(file, torn, NewLine) /\ torn' = FALSE
  /\ KnownTail.valid
  /\ alog' \in {Room, TornAppend(Room), Appended(Room, Entry(KnownTail))}
  /\ tail' = NoTail /\ seen' = NotReading
  /\ UNCHANGED rot

Stopped ==
  /\ Crash \/ CrashInAppend
  /\ tail' = NoTail /\ seen' = NotReading
  /\ UNCHANGED <<alog, rot, faults>>

\* A durable record is damaged in a field nothing but its digest depends on.
Damaged ==
  /\ Fault
  /\ \E t \in Times(View.recs) : rot' = rot \union {t}
  /\ UNCHANGED <<vars, alog, tail, seen>>

-----------------------------------------------------------------------------
(* InputIntegrityView.                                                     *)

Seqs(recs) == {recs[i].seq : i \in DOMAIN recs}
RecordSeqs(log) == {log[i].rec : i \in DOMAIN log}
CoverageFloor(log) == log[1].rec - 1

\* The last entry for a sequence counts.
AcceptedAt(log, s) ==
  log[CHOOSE i \in DOMAIN log : log[i].rec = s /\ \A j \in i + 1 .. Len(log) : log[j].rec # s].at

Modified(log, recs) ==
  {s \in Seqs(recs) : s \in RecordSeqs(log) /\ \E i \in DOMAIN recs :
       recs[i].seq = s /\ (recs[i].at # AcceptedAt(log, s) \/ recs[i].at \in rot)}

\* Accepted, gone, and not older than everything the store retains.
MissingAnywhere(log, recs) == RecordSeqs(log) \ Seqs(recs)
MissingInSpan(log, recs) ==
  {s \in RecordSeqs(log) \ Seqs(recs) : recs = <<>> \/ \E r \in Seqs(recs) : r < s}

Unaccepted(log, recs) == {s \in Seqs(recs) \ RecordSeqs(log) : s > CoverageFloor(log)}

Verdict(log, s) ==
  IF openErr \/ s.corrupt THEN "unverifiable"
  ELSE IF Modified(log, s.recs) # {} \/ MissingInSpan(log, s.recs) # {} THEN "modified"
  ELSE IF Unaccepted(log, s.recs) # {} THEN "incomplete" ELSE "ok"

\* An absent or unverifiable ledger is answered at once.
ViewLedger ==
  /\ up /\ seen = NotReading
  /\ alog # <<>> /\ Classified(alog)
  /\ seen' = alog
  /\ UNCHANGED <<vars, alog, tail, rot, faults>>

ViewStore ==
  /\ seen # NotReading /\ seen' = NotReading
  /\ ReadAll \/ (openErr /\ UNCHANGED vars)
  /\ UNCHANGED <<alog, tail, rot, faults>>

StoreOnly ==
  \/ OpenFails \/ OpenUnreadable \/ OpenCorrupt \/ Open
  \/ \E firing \in BOOLEAN : ObserveBaseline(firing)
  \/ ObserveNoEdge \/ AppendRefused \/ AppendShort \/ AppendUnsynced
  \/ ReadAll \/ ReadBefore

ANext ==
  \/ StoreOnly /\ UNCHANGED acceptanceVars
  \/ Accepted \/ NotAccepted \/ CompactionRefused \/ EntryFails
  \/ CrashInRecorder \/ Stopped \/ Damaged
  \/ ViewLedger \/ ViewStore

ASpec == AInit /\ [][ANext]_allVars

-----------------------------------------------------------------------------
(* Properties.                                                             *)

\* The cached tail never lets the recorder write an entry that does not follow
\* the ledger's last one, although an entry failed, the ledger was compacted or
\* the process restarted before (record, verifySuffix; one failure of the
\* recorder: a second one, right after an entry that was written and not
\* synced, leaves the cache at a stale head).
LedgerChained == faults <= 1 /\ Classified(alog) => Chained(alog)

Answers == seen # NotReading /\ seen' = NotReading /\ up'

\* What the view answers is right both ways.  A store nobody damaged, whose
\* metadata is intact and that no failed sync and no torn line in the middle
\* disturbed, is never reported modified, although entries outlive the evicted
\* records, records are written between the view's two reads, and recording may
\* have failed; and a damaged record within the ledger's coverage is never
\* reported clean (InputIntegrityView).
InputVerdictSound ==
  [][Answers =>
       /\ Verdict(seen, View) = "modified" => rot # {} \/ flaws # {} \/ View.inc
       /\ Verdict(seen, View) = "ok" =>
            \A i \in DOMAIN View.recs :
              View.recs[i].at \in rot => View.recs[i].seq <= CoverageFloor(seen)]_allVars
=============================================================================
