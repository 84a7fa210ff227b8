-------------------------- MODULE ExportPublication --------------------------
(***************************************************************************)
(* The scheduled history export (history_export_scheduler.go) on its       *)
(* directory: a tick links the artifact files of a snapshot, allocates a   *)
(* publication id from the watermark file, extends the manifest chain,     *)
(* records the manifest in the ledger and prunes old snapshots.  Removing  *)
(* evidence goes through the destruction log.  Another goroutine (the      *)
(* verification loop or the administrator's API) compacts a log of its own *)
(* and shares the destruction log with the tick.                           *)
(*                                                                         *)
(* Every step below is one durable change; the process may crash between   *)
(* any two.  Somebody outside the program may remove or alter one file.    *)
(* Snapshots are numbered by the tick that exported them; the formats of a *)
(* snapshot, which are linked and removed one after the other, are one     *)
(* file "artifact".  Manifests are signed (the export key is configured).  *)
(***************************************************************************)
EXTENDS DestructionLog, SnapshotChain

CONSTANTS
  Retain,          \* snapshots kept by the retention
  LedgerCapacity,  \* groups kept in the chain ledger
  MaxTicks,        \* bound on the ticks
  MaxErrors,       \* bound on crashes and failing file operations
  MaxOutside,      \* bound on interference from outside
  MaxOthers        \* bound on the compactions of the other goroutine

ASSUME ExportConstants ==
  /\ Retain \in Nat \ {0} /\ LedgerCapacity \in Nat \ {0}
  /\ MaxTicks \in Nat /\ MaxErrors \in Nat /\ MaxOutside \in Nat /\ MaxOthers \in Nat

VARIABLES
  wm,        \* publication-seq.state: the last id, or Missing
  wmTmp,     \* publication-seq.state.tmp exists
  unit,      \* snapshot number -> [files, man]
  ledger,    \* chain-ledger.jsonl
  job,       \* where the tick is, and its local variables
  other,     \* where the other goroutine is: [at, seq]
  ticks,     \* ticks so far
  others,    \* windows the other goroutine opened so far
  errors,    \* crashes and failures so far
  outside,   \* history: references of the manifests removed from outside
  meddled,   \* steps somebody outside took
  intact,    \* history: nobody touched the watermark file
  minted,    \* manifests signed so far; the digest of the last one
  high,      \* history: the highest id ever published
  forgotten  \* history: ids compacted out of the ledger

dirVars == <<wm, wmTmp, unit, ledger>>
boundVars == <<ticks, others, errors>>
historyVars == <<outside, meddled, intact, minted, high, forgotten>>
vars == <<dlog, self, windowMu, dirVars, job, other, boundVars, historyVars>>

Snapshots == 1 .. MaxTicks
Missing == -1
NoManifest == [id |-> 0, digest |-> 0, prev |-> 0, prevd |-> 0, ok |-> TRUE]
NoUnit == [files |-> {}, man |-> NoManifest]
NoJob == [at |-> "idle", n |-> 0, id |-> 0, prev |-> NoManifest, entry |-> NoManifest,
          next |-> "none", plan |-> <<>>, todo |-> <<>>, seq |-> 0, failed |-> FALSE]

OnDisk == {n \in Snapshots : unit[n].files # {}}
Published == {n \in Snapshots : "manifest" \in unit[n].files}
Manifests == {unit[n].man : n \in Published}

Init ==
  /\ DInit
  /\ wm = 0 /\ wmTmp = FALSE
  /\ unit = [n \in Snapshots |-> NoUnit]
  /\ ledger = <<>>
  /\ job = NoJob
  /\ other = [at |-> "idle", seq |-> 0]
  /\ ticks = 0 /\ others = 0 /\ errors = 0
  /\ outside = {} /\ meddled = 0 /\ intact = TRUE /\ minted = 0 /\ high = 0 /\ forgotten = {}

\* The tick is at this place, and not inside the destruction log's own
\* compaction.
TickAt(place) == job.at = place /\ self.by # "tick"
Goto(place) == job' = [job EXCEPT !.at = place]

-----------------------------------------------------------------------------
\* The tick: publishSnapshot and publishManifest.

\* The durable history cannot be read: the tick does nothing else.
TickSkipped ==
  /\ TickAt("idle") /\ ticks < MaxTicks
  /\ ticks' = ticks + 1
  /\ UNCHANGED <<dlog, self, windowMu, dirVars, job, other, others, errors, historyVars>>

\* A snapshot's files as written and synced under reserved names, then linked.
Artifacts(fs) == [files |-> fs, man |-> NoManifest]

\* What a publication that fails leaves: its temporary files and reservations
\* are removed, a format that was linked stays.
Leftovers == {{}, {"artifact"}}

\* Artifacts are written to reserved names and linked; a failing format
\* leaves the others behind and there is no manifest.
PublishArtifacts ==
  /\ TickAt("idle") /\ ticks < MaxTicks
  /\ ticks' = ticks + 1
  /\ \/ /\ unit' = [unit EXCEPT ![ticks + 1] = Artifacts({"artifact"})]
        /\ job' = [NoJob EXCEPT !.at = "allocate", !.n = ticks + 1]
        /\ UNCHANGED errors
     \/ /\ errors < MaxErrors
        /\ errors' = errors + 1
        /\ \E fs \in Leftovers : unit' = [unit EXCEPT ![ticks + 1] = Artifacts(fs)]
        /\ job' = [NoJob EXCEPT !.at = "prune"]
  /\ UNCHANGED <<dlog, self, windowMu, wm, wmTmp, ledger, other, others, historyVars>>

\* allocatePublicationID: the new watermark goes to a file that must not
\* exist yet ...
AllocateWrite ==
  /\ TickAt("allocate")
  /\ IF wm = Missing \/ wmTmp
     THEN Goto("prune") /\ UNCHANGED wmTmp
     ELSE job' = [job EXCEPT !.at = "commit", !.id = wm + 1] /\ wmTmp' = TRUE
  /\ UNCHANGED <<dlog, self, windowMu, wm, unit, ledger, other, boundVars, historyVars>>

\* ... and is renamed.
AllocateCommit ==
  /\ TickAt("commit")
  /\ wm' = job.id
  /\ wmTmp' = FALSE
  /\ Goto("chain")
  /\ UNCHANGED <<dlog, self, windowMu, unit, ledger, other, boundVars, historyVars>>

\* The chain is extended from the newest manifest, whose ledger entry is
\* written first in case an earlier tick did not get to it.
ExtendChain ==
  /\ TickAt("chain")
  /\ job' = IF PredecessorRefused(Manifests, job.id) THEN [job EXCEPT !.at = "prune"]
            ELSE IF Manifests = {} THEN [job EXCEPT !.at = "link"]
            ELSE [job EXCEPT !.at = "append", !.next = "link",
                             !.prev = Newest(Manifests), !.entry = Newest(Manifests)]
  /\ UNCHANGED <<dlog, self, windowMu, dirVars, other, boundVars, historyVars>>

NewManifest ==
  [id |-> job.id, digest |-> minted + 1, prev |-> job.prev.id,
   prevd |-> job.prev.digest, ok |-> TRUE]

\* The manifest is signed and linked, or the link fails.
LinkManifest ==
  /\ TickAt("link")
  /\ \/ /\ unit' = [unit EXCEPT ![job.n] = [files |-> @.files \cup {"manifest"},
                                            man |-> NewManifest]]
        /\ minted' = minted + 1
        /\ high' = IF job.id > high THEN job.id ELSE high
        /\ job' = [job EXCEPT !.at = "append", !.next = "prune", !.entry = NewManifest]
        /\ UNCHANGED errors
     \/ /\ errors < MaxErrors
        /\ errors' = errors + 1
        /\ Goto("prune")
        /\ UNCHANGED <<unit, minted, high>>
  /\ UNCHANGED <<dlog, self, windowMu, wm, wmTmp, ledger, other, ticks, others,
                 outside, meddled, intact, forgotten>>

-----------------------------------------------------------------------------
\* recordLedgerEntry: append under the window lock, then compact.

Recorded(id) == id \in LedgerIds(ledger)

NothingToAppend(id) == Recorded(id) \/ ~Classified(ledger)

\* Idempotent for the same entry; an error for a conflicting one or a ledger
\* with a line that cannot be classified.  Neither stops the tick.
LedgerAppend ==
  /\ TickAt("append") /\ windowMu = NoOne
  /\ IF NothingToAppend(job.entry.id)
     THEN /\ Goto(job.next)
          /\ UNCHANGED <<ledger, windowMu>>
     ELSE /\ ledger' = Appended(ledger, EntryForManifest(job.entry))
          /\ IF DroppedGroups(ledger', LedgerCapacity) = {}
             THEN Goto(job.next) /\ UNCHANGED windowMu
             ELSE Goto("observe") /\ windowMu' = "tick"
  /\ UNCHANGED <<dlog, self, wm, wmTmp, unit, other, boundVars, historyVars>>

LedgerAppendTorn ==
  /\ TickAt("append") /\ windowMu = NoOne
  /\ errors < MaxErrors
  /\ ~NothingToAppend(job.entry.id)
  /\ ledger' = TornAppend(ledger)
  /\ errors' = errors + 1
  /\ Goto(job.next)
  /\ UNCHANGED <<dlog, self, windowMu, wm, wmTmp, unit, other, ticks, others, historyVars>>

Dropping == DroppedGroups(ledger, LedgerCapacity)

\* The observer opens a destruction group; without one nothing is compacted.
LedgerObserve ==
  /\ TickAt("observe")
  /\ \/ /\ BeginDestruction("ledger_compaction", Dropping)
        /\ job' = [job EXCEPT !.at = "rewrite", !.seq = MaxGroup(dlog) + 1]
        /\ UNCHANGED <<windowMu, errors>>
     \/ /\ BeginRefused
        /\ windowMu' = NoOne
        /\ Goto(job.next)
        /\ UNCHANGED errors
     \/ /\ errors < MaxErrors
        /\ BeginTorn
        /\ windowMu' = NoOne
        /\ Goto(job.next)
        /\ errors' = errors + 1
  /\ UNCHANGED <<dirVars, other, ticks, others, historyVars>>

\* rewriteLogLines replaces the file by a rename, or fails and leaves it.
LedgerRewrite ==
  /\ TickAt("rewrite")
  /\ \/ /\ ledger' = WithoutGroups(ledger, Dropping)
        /\ forgotten' = forgotten \cup Dropping
        /\ Goto("close_ledger")
        /\ UNCHANGED <<windowMu, errors>>
     \/ /\ errors < MaxErrors
        /\ errors' = errors + 1
        /\ windowMu' = NoOne
        /\ Goto(job.next)
        /\ UNCHANGED <<ledger, forgotten>>
  /\ UNCHANGED <<dlog, self, wm, wmTmp, unit, other, ticks, others,
                 outside, meddled, intact, minted, high>>

LedgerClose ==
  /\ TickAt("close_ledger")
  /\ CompleteDestruction("tick", job.seq, "completed") \/ CompleteRefused(job.seq)
  /\ Goto("release")
  /\ UNCHANGED <<windowMu, dirVars, other, boundVars, historyVars>>

LedgerRelease ==
  /\ TickAt("release")
  /\ windowMu' = NoOne
  /\ Goto(job.next)
  /\ UNCHANGED <<dlog, self, dirVars, other, boundVars, historyVars>>

-----------------------------------------------------------------------------
\* prune: the oldest snapshots beyond Retain, one after the other.  It does
\* not hold the window lock.

Excess == {n \in OnDisk : Cardinality({k \in OnDisk : k >= n}) > Retain}

\* The files of a snapshot in the order of the directory listing.
Listing(fs) == (IF "artifact" \in fs THEN <<"artifact">> ELSE <<>>)
               \o (IF "manifest" \in fs THEN <<"manifest">> ELSE <<>>)

PruneScan ==
  /\ TickAt("prune")
  /\ IF Excess = {} THEN job' = NoJob
     ELSE job' = [NoJob EXCEPT !.at = "prune_begin",
                              !.plan = [n \in Excess |-> Listing(unit[n].files)]]
  /\ UNCHANGED <<dlog, self, windowMu, dirVars, other, boundVars, historyVars>>

Oldest == CHOOSE n \in DOMAIN job.plan : \A k \in DOMAIN job.plan : n <= k

\* What a record names a manifest by.
Reference(m) == [id |-> m.id, digest |-> m.digest]

\* Mutant: the manifest is not among the files that are looked at.
TargetsNone(n) == IF n \in Published THEN {} ELSE {}

\* destructionTargetsForUnit: the manifest the snapshot still has.
Targets(n) == IF n \in Published
              THEN {Reference(unit[n].man)} ELSE {}

RemoveNext(seq) ==
  job' = [job EXCEPT !.at = "remove", !.n = Oldest, !.seq = seq,
                     !.todo = job.plan[Oldest], !.failed = FALSE]

\* beginPruneDestruction; when it fails the removal goes on without a record.
PruneBegin ==
  /\ TickAt("prune_begin")
  /\ \/ /\ Targets(Oldest) = {}
        /\ RemoveNext(0)
        /\ UNCHANGED <<dlog, self, errors>>
     \/ /\ Targets(Oldest) # {}
        /\ BeginDestruction("snapshot_retention", Targets(Oldest))
        /\ RemoveNext(MaxGroup(dlog) + 1)
        /\ UNCHANGED errors
     \/ /\ Targets(Oldest) # {}
        /\ BeginRefused
        /\ RemoveNext(0)
        /\ UNCHANGED errors
     \/ /\ Targets(Oldest) # {}
        /\ errors < MaxErrors
        /\ BeginTorn
        /\ RemoveNext(0)
        /\ errors' = errors + 1
  /\ UNCHANGED <<windowMu, dirVars, other, ticks, others, historyVars>>

\* os.Remove of the next file; a file that is gone already is a failure too.
PruneRemove ==
  /\ TickAt("remove") /\ job.todo # <<>>
  /\ \/ /\ Head(job.todo) \in unit[job.n].files
        /\ unit' = [unit EXCEPT ![job.n].files = @ \ {Head(job.todo)}]
        /\ job' = [job EXCEPT !.todo = Tail(@)]
        /\ UNCHANGED errors
     \/ /\ Head(job.todo) \notin unit[job.n].files
        /\ job' = [job EXCEPT !.todo = Tail(@), !.failed = TRUE]
        /\ UNCHANGED <<unit, errors>>
     \/ /\ errors < MaxErrors
        /\ errors' = errors + 1
        /\ job' = [job EXCEPT !.todo = Tail(@), !.failed = TRUE]
        /\ UNCHANGED unit
  /\ UNCHANGED <<dlog, self, windowMu, wm, wmTmp, ledger, other, ticks, others, historyVars>>

PruneOutcome == IF job.failed THEN "aborted" ELSE "completed"

\* The group is closed; a failed removal ends the pruning.
PruneClose ==
  /\ TickAt("remove") /\ job.todo = <<>>
  /\ IF job.seq = 0 THEN UNCHANGED <<dlog, self>>
     ELSE CompleteDestruction("tick", job.seq, PruneOutcome) \/ CompleteRefused(job.seq)
  /\ LET rest == DOMAIN job.plan \ {job.n}
     IN  job' = IF job.failed \/ rest = {} THEN NoJob
                ELSE [NoJob EXCEPT !.at = "prune_begin", !.plan = [n \in rest |-> job.plan[n]]]
  /\ UNCHANGED <<windowMu, dirVars, other, boundVars, historyVars>>

-----------------------------------------------------------------------------
\* The other goroutine: compactAccountedLog of another family's log.

OtherAt(place) == other.at = place /\ self.by # "other"

OtherOpen ==
  /\ OtherAt("idle") /\ windowMu = NoOne /\ others < MaxOthers
  /\ windowMu' = "other"
  /\ others' = others + 1
  /\ other' = [at |-> "observe", seq |-> 0]
  /\ UNCHANGED <<dlog, self, dirVars, job, ticks, errors, historyVars>>

OtherObserve ==
  /\ OtherAt("observe")
  /\ \/ /\ BeginDestruction("verification_compaction", {others})
        /\ other' = [at |-> "close", seq |-> MaxGroup(dlog) + 1]
     \/ /\ BeginRefused
        /\ other' = [at |-> "release", seq |-> 0]
  /\ UNCHANGED <<windowMu, dirVars, job, boundVars, historyVars>>

OtherClose ==
  /\ OtherAt("close")
  /\ CompleteDestruction("other", other.seq, "completed") \/ CompleteRefused(other.seq)
  /\ other' = [at |-> "release", seq |-> 0]
  /\ UNCHANGED <<windowMu, dirVars, job, boundVars, historyVars>>

\* Mutant: the window lock is not released.
OtherReleaseForgotten ==
  /\ OtherAt("release")
  /\ other' = [at |-> "idle", seq |-> 0]
  /\ UNCHANGED <<dlog, self, windowMu, dirVars, job, boundVars, historyVars>>

OtherRelease ==
  /\ OtherAt("release")
  /\ windowMu' = NoOne
  /\ other' = [at |-> "idle", seq |-> 0]
  /\ UNCHANGED <<dlog, self, dirVars, job, boundVars, historyVars>>

SelfCompaction ==
  /\ SelfIntent \/ SelfRewrite \/ SelfClose
  /\ UNCHANGED <<dirVars, job, other, boundVars, historyVars>>

-----------------------------------------------------------------------------
\* Crash and restart.  ensurePublicationState writes a missing watermark
\* only when there is no manifest.
Crash ==
  /\ errors < MaxErrors
  /\ job.at # "idle" \/ other.at # "idle"
  /\ errors' = errors + 1
  /\ DCrash
  /\ job' = NoJob
  /\ other' = [at |-> "idle", seq |-> 0]
  /\ wm' = IF wm = Missing /\ Published = {} THEN 0 ELSE wm
  /\ UNCHANGED <<wmTmp, unit, ledger, ticks, others, historyVars>>

\* Somebody outside removes a manifest, alters one, restores an old watermark
\* file or deletes it.
RemovedOutside(n) ==
  /\ meddled < MaxOutside /\ n \in Published
  /\ unit' = [unit EXCEPT ![n].files = @ \ {"manifest"}]
  /\ outside' = outside \cup {Reference(unit[n].man)}
  /\ meddled' = meddled + 1
  /\ UNCHANGED <<dlog, self, windowMu, wm, wmTmp, ledger, job, other, boundVars,
                 intact, minted, high, forgotten>>

AlteredOutside(n) ==
  /\ meddled < MaxOutside /\ n \in Published
  /\ unit' = [unit EXCEPT ![n].man.ok = FALSE]
  /\ meddled' = meddled + 1
  /\ UNCHANGED <<dlog, self, windowMu, wm, wmTmp, ledger, job, other, boundVars,
                 outside, intact, minted, high, forgotten>>

WatermarkReplaced ==
  /\ meddled < MaxOutside
  /\ wm' \in {Missing, 0} \ {wm}
  /\ meddled' = meddled + 1
  /\ intact' = FALSE
  /\ UNCHANGED <<dlog, self, windowMu, wmTmp, unit, ledger, job, other, boundVars,
                 outside, minted, high, forgotten>>

TickStep ==
  \/ TickSkipped \/ PublishArtifacts \/ AllocateWrite \/ AllocateCommit \/ ExtendChain
  \/ LinkManifest \/ LedgerAppend \/ LedgerAppendTorn \/ LedgerObserve \/ LedgerRewrite
  \/ LedgerClose \/ LedgerRelease \/ PruneScan \/ PruneBegin \/ PruneRemove \/ PruneClose

OtherStep == OtherOpen \/ OtherObserve \/ OtherClose \/ OtherRelease

Outsider ==
  \/ \E n \in Snapshots : RemovedOutside(n) \/ AlteredOutside(n)
  \/ WatermarkReplaced

Next == TickStep \/ OtherStep \/ SelfCompaction \/ Crash \/ Outsider

\* The run loop calls Tick again and again; each goroutine keeps running.
Fairness == WF_vars(TickStep) /\ WF_vars(OtherStep) /\ WF_vars(SelfCompaction)

Spec == Init /\ [][Next]_vars /\ Fairness
-----------------------------------------------------------------------------
\* DestructionView: what the program says about publications that are gone.

\* ListManifests, page by page to the end: the ids on disk.
Census == {m.id : m \in Manifests}

\* knownPublications: the ledger, the predecessors it names, the manifests.
Entries == {LedgerEntry(ledger, id) : id \in UsableIds(ledger)}
Known == UsableIds(ledger) \cup {e.prev : e \in Entries} \cup Census
Gone == (Known \ {0}) \ Census

KnownDigest(id) ==
  IF id \in UsableIds(ledger) THEN LedgerEntry(ledger, id).digest
  ELSE IF \E e \in Entries : e.prev = id
       THEN (CHOOSE e \in Entries : e.prev = id).prevd ELSE 0

Retentions == {g \in Groups(dlog) : LinesOf(dlog, g)[1].kind = "snapshot_retention"}
GroupTargets(g) == LinesOf(dlog, g)[1].targets

\* Only a closed, undisputed group accounts for what it names.
Covers(g, id) ==
  /\ ~GroupConflict(dlog, g) /\ GroupState(dlog, g) = "completed"
  /\ \E t \in GroupTargets(g) : t.id = id /\ KnownDigest(id) \in {0, t.digest}

Accounted == {id \in Gone : \E g \in Retentions : Covers(g, id)}

\* Mutant: the records a compaction dropped are not taken into account.
FullHistoryLax == TRUE

\* A log whose oldest group is not the first may have dropped the record.
FullHistory == dlog = <<>> \/ \E g \in Groups(dlog) : g <= 1
Unaccounted == IF FullHistory THEN Gone \ Accounted ELSE {}

\* The view makes no statement about a log it cannot read.
Readable == Classified(dlog) /\ Continuous(dlog) /\ ChainHolds(dlog)

ViewVerdict ==
  IF dlog = <<>> THEN "absent"
  ELSE IF ~Readable THEN "error"
  ELSE IF Unaccounted # {} THEN "unaccounted_disappearance"
  ELSE IF \E g \in Groups(dlog) : GroupState(dlog, g) = "intended"
       THEN "destruction_unconfirmed"
  ELSE IF \E g \in Groups(dlog) : GroupConflict(dlog, g) THEN "destruction_conflict"
  ELSE "accounted"

-----------------------------------------------------------------------------
\* Properties

RemovedIds == {r.id : r \in outside}

\* The log of destructions never reads as forked, broken or with a hole,
\* whatever the interleaving of the two writers, the self-compaction and
\* crashes: appendDestructionEntryLocked keeps the chain that
\* loadDestructionState checks.
DestructionLogVerifiable ==
  Classified(dlog) =>
    /\ ChainHolds(dlog) /\ Continuous(dlog)
    /\ \A g \in Groups(dlog) : ~GroupConflict(dlog, g)

\* A disappearance is not washed, even when the retention was about to remove
\* the same snapshot: no completed destruction names a manifest that somebody
\* outside removed, and as long as the watermark file is left alone, so that
\* no id is given twice, no such publication is listed as accounted for.
NoFalseAccount ==
  Readable =>
    /\ \A g \in Retentions :
         GroupState(dlog, g) = "completed" => outside \cap GroupTargets(g) = {}
    /\ intact => RemovedIds \cap Accounted = {}

\* DestructionView accuses only with reason: the publication was removed from
\* outside, or a destruction that names it was never closed as completed.
AccusationJustified ==
  ViewVerdict = "unaccounted_disappearance" =>
    \A id \in Unaccounted \ RemovedIds :
      \E g \in Retentions : /\ GroupState(dlog, g) # "completed"
                             /\ \E t \in GroupTargets(g) : t.id = id

\* DestructionView neither washes a disappearance nor accuses without reason.
ViewHonest == NoFalseAccount /\ AccusationJustified

\* Without interference and with a readable ledger the chain of manifests
\* verifies after any sequence of publications, failures, crashes, pruning
\* and ledger compactions (publishManifest against verifyChainWithLedger).
HonestChain ==
  meddled = 0 /\ Classified(ledger) => ChainVerdict(Manifests, ledger) # "broken"

\* The two chains an honest run writes, of destructions and of manifests, both
\* verify (loadDestructionState, verifyChainWithLedger).
ChainsVerifiable == DestructionLogVerifiable /\ HonestChain

\* Evidence leaves only on the record: a manifest without its artifact, and an
\* entry that left the ledger, are named by a group of the destruction log,
\* unless that log is torn or has dropped its own oldest groups.
RemovalsOnRecord ==
  Classified(dlog) /\ FullHistory =>
    /\ \A n \in Published :
         SnapshotStatus(unit[n].files, unit[n].man, Manifests) = "orphan_manifest" =>
           \E g \in Retentions : \E t \in GroupTargets(g) : t.id = unit[n].man.id
    /\ \A id \in forgotten :
         \E g \in Groups(dlog) : /\ LinesOf(dlog, g)[1].kind = "ledger_compaction"
                                 /\ id \in GroupTargets(g)

\* Manifest ids on disk, oldest first.
Sorted(ids) ==
  [i \in 1 .. Cardinality(ids) |->
     CHOOSE x \in ids : Cardinality({y \in ids : y <= x}) = i]

\* The refinement mapping: the window is what the directory holds.
PW == INSTANCE PublicationWindow WITH
        window <- Sorted({m.id : m \in Manifests}), lost <- RemovedIds,
        Ids <- 1 .. MaxTicks

\* The manifests on disk are a window that grows at the new end with fresh ids
\* and shrinks at the old end (PublicationWindow), through crashes, failed
\* removals and a restored watermark (allocatePublicationID,
\* publishSnapshot, prune).
WindowRefined == PW!PSpec

\* A tick always comes to its end: the locks of the destruction log are
\* released on every path, so neither goroutine blocks the other for good.
TickEnds == (job.at # "idle") ~> (job.at = "idle")

=============================================================================
