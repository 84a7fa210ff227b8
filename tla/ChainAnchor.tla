----------------------------- MODULE ChainAnchor -----------------------------
(***************************************************************************)
(* The anchors of the publications themselves (snapshot_anchor.go): the    *)
(* export tick first works off what is still pending (anchorHousekeeping), *)
(* then publishes and records an anchor for the new publication            *)
(* (recordAnchorEntry).  A fact of the stream is a publication's id.       *)
(* ReconcileAnchor compares the log with the sequence that somebody who    *)
(* holds the witness hands in.  The outside world may take a group out of  *)
(* the log.                                                                *)
(***************************************************************************)
EXTENDS AnchorStream

CONSTANTS Publisher,        \* the scheduler goroutine
          MaxPublications,  \* bound: publications
          MaxRestarts,      \* bound: crashes
          MaxRemovals       \* bound: groups removed from outside

ASSUME ChainAssumption == Publisher \in Threads

VARIABLES phase,      \* the tick: "keep" pending anchors, then "publish"
          published,  \* publications so far
          restarts,
          removed     \* history: what was removed from outside, {[seq, fact]}

chainVars == <<phase, published, restarts, removed>>
cvars == <<avars, chainVars>>

CInit == AInit /\ phase = "keep" /\ published = 0 /\ restarts = 0 /\ removed = {}

\* anchorHousekeeping; unlike the delivery sweep it does not stop at a
\* contested number.
AnchorHousekeeping ==
  /\ phase = "keep" /\ phase' = "publish"
  /\ IF Classified(alog) THEN WorkOff(Publisher) ELSE busy[Publisher] = Idle /\ UNCHANGED avars
  /\ UNCHANGED <<published, restarts, removed>>

\* anchorBacklogBlocks: the log is full and its oldest entry unconfirmed.
BacklogBlocks(log) ==
  AnchorCapacity > 0 /\ Cardinality(Seqs(log)) >= AnchorCapacity /\ OldestUnconfirmed(log)

\* With a backlog the new entry is recorded as given up and never sent.
OpenBlocked(id) ==
  /\ MutexFree
  /\ dispatch' = Publisher
  /\ busy' = [busy EXCEPT ![Publisher] =
       [step |-> FirstStep, fresh |-> FALSE, todo |-> <<>>,
        entry |-> [PendingEntry(NextAnchorSeq(alog), id) EXCEPT !.state = "unanchored"]]]
  /\ UNCHANGED <<alog, witness, faults, evicted>>

\* The last step of a publication; the publication stands whatever becomes of
\* its anchor.
RecordAnchorEntry ==
  /\ phase = "publish" /\ phase' = "keep"
  /\ busy[Publisher] = Idle
  /\ published < MaxPublications /\ published' = published + 1
  /\ IF ~ Classified(alog) THEN OpenRefused
     ELSE IF BacklogBlocks(alog) THEN OpenBlocked(published + 1)
     ELSE OpenAnchor(Publisher, published + 1)
  /\ UNCHANGED <<restarts, removed>>

\* A tick that publishes nothing.
NoPublication ==
  /\ phase = "publish" /\ phase' = "keep"
  /\ busy[Publisher] = Idle
  /\ UNCHANGED <<avars, published, restarts, removed>>

StreamStep == AnchorStep(Publisher) /\ UNCHANGED chainVars

Restart ==
  /\ restarts < MaxRestarts /\ restarts' = restarts + 1
  /\ ACrash
  /\ phase' = "keep"
  /\ UNCHANGED <<faults, published, removed>>

RemoveGroup ==
  /\ Cardinality(removed) < MaxRemovals
  /\ Classified(alog)
  /\ \E g \in Seqs(alog) :
       /\ alog' = WithoutGroups(alog, {g})
       /\ removed' = removed \union {Holds(Latest(alog, g))}
  /\ UNCHANGED <<witness, dispatch, busy, faults, evicted, phase, published, restarts>>

CNext == AnchorHousekeeping \/ RecordAnchorEntry \/ NoPublication \/ StreamStep
         \/ Restart \/ RemoveGroup

CSpec == CInit /\ [][CNext]_cvars

(***************************************************************************)
(* ReconcileAnchor over the items of a witness sequence.  Only confirmed   *)
(* entries take part; an entry and an item belong together when they name  *)
(* the same publication and agree when the sequence number is the same     *)
(* too.                                                                    *)
(***************************************************************************)
Local(log) == {Latest(log, s) : s \in Seqs(log)}
Numbers(local) == {e.group : e \in local}
Confirmed(local) == {e \in local : e.state = "anchored"}
Named(e, items) == \E w \in items : w.fact = e.fact
Agrees(e, items) == Holds(e) \in items
Shared(local, items) == {e \in Confirmed(local) : Named(e, items)}

\* walkAnchorUnion
Mismatched(local, items) == {e \in Shared(local, items) : ~ Agrees(e, items)}
MissingWitness(local, items) == Confirmed(local) \ Shared(local, items)
Strangers(local, items) == {w \in items : \A e \in local : e.fact # w.fact}
OutsideWindow(local, items) == {w \in Strangers(local, items) : w.seq < Min(Numbers(local))}
Orphans(local, items) ==
  {w \in Strangers(local, items) : w.seq \in Min(Numbers(local)) .. Max(Numbers(local))}
AheadUnnoticed(local, items) == {}
AheadOfWindow(local, items) == {w \in Strangers(local, items) : w.seq > Max(Numbers(local))}

Broken(local, items) ==
  \/ \A e \in Shared(local, items) : ~ Agrees(e, items)
  \/ Mismatched(local, items) # {} \/ Orphans(local, items) # {} \/ AheadOfWindow(local, items) # {}
  \/ ~ Contiguous(Numbers(local))

ReconcileAnchor(log, items) ==
  LET local == Local(log) IN
    IF ~ Classified(log) THEN "unverifiable"
    ELSE IF items = {} THEN IF local = {} THEN "absent" ELSE "incomplete"
    ELSE IF Shared(local, items) = {} THEN "unverifiable"
    ELSE IF Broken(local, items) THEN "broken"
    ELSE IF \/ Confirmed(local) # local
            \/ MissingWitness(local, items) # {} \/ OutsideWindow(local, items) # {}
         THEN "incomplete"
    ELSE "ok"

-----------------------------------------------------------------------------
\* Reconciliation neither accuses nor is deceived.  Whatever part of the
\* witness sequence is handed in, a log nobody touched is not broken: crashes,
\* lost answers, a backlog and prefix compaction do not look like a deletion,
\* unless compaction evicted an unconfirmed entry.  And a confirmed
\* publication that was removed above the oldest retained one is found, as
\* long as one confirmed entry is left to align with, even after its number
\* was given to another publication (ReconcileAnchor, walkAnchorUnion,
\* recordAnchorEntry).
ReconcileSound ==
  /\ removed = {} /\ evicted = {} =>
       \A items \in SUBSET witness : ReconcileAnchor(alog, items) # "broken"
  /\ Classified(alog) /\ Shared(Local(alog), witness) # {} =>
       \A d \in removed \intersect witness :
         d \in Strangers(Local(alog), witness) /\ d.seq > Min(Seqs(alog)) =>
           ReconcileAnchor(alog, witness) = "broken"
=============================================================================
