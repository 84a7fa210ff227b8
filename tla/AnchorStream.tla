----------------------------- MODULE AnchorStream -----------------------------
(***************************************************************************)
(* One anchor stream of the evidence plane (snapshot_anchor.go,            *)
(* snapshot_anchor_delivery.go, snapshot_witness_reconcile.go): a log of   *)
(* entries [group |-> anchor_seq, fact, state, attempts], the last line of *)
(* a group winning; the outside witness the entries are delivered to; the  *)
(* stream's dispatch mutex; and per thread the append, compaction or       *)
(* delivery it is in the middle of.  A fact is what the producing ledger   *)
(* asks to be witnessed.  The modules that own a ledger open the stream.   *)
(***************************************************************************)
EXTENDS AppendOnlyLog, FiniteSetsExt

CONSTANTS Threads,          \* goroutines that use the stream
          AnchorCapacity,   \* groups the anchor log keeps; 0: all
          MaxAttempts,      \* deliveries before an entry is given up
          MaxFaults,        \* bound: short, unsynced or failed writes
          Nobody

ASSUME StreamAssumption ==
  /\ Nobody \notin Threads
  /\ AnchorCapacity \in Nat /\ MaxAttempts \in Nat \ {0} /\ MaxFaults \in Nat

VARIABLES alog,      \* the anchor log
          witness,   \* what the witness holds: {[seq, fact]}
          dispatch,  \* the holder of the stream's DispatchMu
          busy,      \* thread -> what it is doing to the stream
          faults,    \* writes that failed so far
          evicted    \* history: entries compacted away unconfirmed

avars == <<alog, witness, dispatch, busy, faults, evicted>>

Idle == [step |-> "idle"]

(***************************************************************************)
(* loadAnchorState: the last line of a group wins; a group whose lines     *)
(* disagree on the fact is a conflict and leaves the window.               *)
(***************************************************************************)
LastAt(log, s) ==
  CHOOSE i \in DOMAIN log : log[i].group = s /\ \A j \in i + 1 .. Len(log) : log[j].group # s
Latest(log, s) == log[LastAt(log, s)]
Conflicts(log) ==
  {g \in Groups(log) :
     \E i, j \in DOMAIN log : log[i].group = g /\ log[j].group = g /\ log[i].fact # log[j].fact}
Seqs(log) == Groups(log) \ Conflicts(log)
InState(log, st) == {s \in Seqs(log) : Latest(log, s).state = st}
Contiguous(S) == S # {} /\ S = Min(S) .. Max(S)

NextAnchorSeq(log) == IF Seqs(log) = {} THEN 1 ELSE Max(Seqs(log)) + 1

\* compactAnchorPrefix: refused while the oldest group is unconfirmed.
OverCapacity(log) == AnchorCapacity > 0 /\ Cardinality(Seqs(log)) > AnchorCapacity
OldestUnconfirmed(log) ==
  \E s \in Seqs(log) : (\A r \in Seqs(log) : s <= r) /\ Latest(log, s).state # "anchored"
CompactRefused(log) == Classified(log) => OverCapacity(log) /\ OldestUnconfirmed(log)
Evicted(log) == DroppedGroups(log, AnchorCapacity)

(***************************************************************************)
(* A thread works off one entry at a time: a fresh entry is appended, the  *)
(* log compacted and the entry delivered; the answer is appended as the    *)
(* group's next line.  A sweep does the latter for each of its entries.    *)
(***************************************************************************)
SweepStep(e) == IF e.attempts >= MaxAttempts THEN "append" ELSE "deliver"
SweepEntry(e) == IF e.attempts >= MaxAttempts THEN [e EXCEPT !.state = "unanchored"] ELSE e

\* What the thread does once it is done with the current entry.
Continue(todo) ==
  IF todo = <<>> THEN Idle
  ELSE [step |-> SweepStep(Head(todo)), entry |-> SweepEntry(Head(todo)),
        fresh |-> FALSE, todo |-> Tail(todo)]

Turn(t, next) == /\ busy' = [busy EXCEPT ![t] = next]
                 /\ dispatch' = IF next = Idle THEN Nobody ELSE dispatch

AInit == /\ alog = <<>>
         /\ witness = {}
         /\ dispatch = Nobody
         /\ busy = [t \in Threads |-> Idle]
         /\ faults = 0
         /\ evicted = {}

MutexIgnored == TRUE
MutexFree == dispatch = Nobody

\* An entry is on record before it is delivered.
FirstStep == "append"

PendingEntry(seq, fact) == [group |-> seq, fact |-> fact, state |-> "pending", attempts |-> 0]

\* A producer under the mutex: the next sequence number, a pending entry.
OpenAnchor(t, fact) ==
  /\ busy[t] = Idle /\ MutexFree
  /\ Classified(alog)
  /\ dispatch' = t
  /\ busy' = [busy EXCEPT ![t] =
       [step |-> FirstStep, fresh |-> TRUE, todo |-> <<>>,
        entry |-> PendingEntry(NextAnchorSeq(alog), fact)]]
  /\ UNCHANGED <<alog, witness, faults, evicted>>

\* ... and when the log cannot be read: nothing is recorded.
OpenRefused == ~ Classified(alog) /\ UNCHANGED avars

\* sweepAnchorDelivery takes the pending entries; a torn or conflicting
\* log is not swept.
OnlyTried(log) == {s \in InState(log, "pending") : Latest(log, s).attempts > 0}
Undelivered(log) == InState(log, "pending")
InOrder(entries) ==
  LET seqs == {e.group : e \in entries}
  IN [n \in 1 .. Cardinality(seqs) |-> CHOOSE e \in entries : e.group = Place(seqs, n)]
Sweepable(log) == Classified(log) /\ Conflicts(log) = {}
WorkOff(t) ==
  /\ busy[t] = Idle /\ MutexFree
  /\ LET next == Continue(InOrder({Latest(alog, s) : s \in Undelivered(alog)}))
     IN /\ busy' = [busy EXCEPT ![t] = next]
        /\ dispatch' = IF next = Idle THEN Nobody ELSE t
  /\ UNCHANGED <<alog, witness, faults, evicted>>
SweepOpen(t) == Sweepable(alog) /\ WorkOff(t)
SweepSkipped == ~ Sweepable(alog) /\ UNCHANGED avars

\* appendAnchorEntry: refused on an unreadable line or a different payload.
AppendRefused(log, e) ==
  \/ ~ Classified(log)
  \/ e.group \in Groups(log) /\ Latest(log, e.group).fact # e.fact

CheckAnchor(t) ==
  /\ busy[t].step = "append"
  /\ IF AppendRefused(alog, busy[t].entry)
     THEN Turn(t, Continue(busy[t].todo))
     ELSE Turn(t, [busy[t] EXCEPT !.step = "write"])
  /\ UNCHANGED <<alog, witness, faults, evicted>>

AppendAnchor(t) ==
  /\ busy[t].step = "write"
  /\ alog' = Appended(alog, busy[t].entry)
  /\ busy' = [busy EXCEPT ![t].step = "compact"]
  /\ UNCHANGED <<witness, dispatch, faults, evicted>>

\* The line is written short, or written and not synced.
AppendAnchorFails(t) ==
  /\ busy[t].step = "write"
  /\ faults < MaxFaults /\ faults' = faults + 1
  /\ alog' \in {TornAppend(alog), Appended(alog, busy[t].entry)}
  /\ Turn(t, Continue(busy[t].todo))
  /\ UNCHANGED <<witness, evicted>>

\* A fresh entry whose compaction is refused is left to a later sweep.
CompactAnchors(t) ==
  /\ busy[t].step = "compact"
  /\ IF ~ CompactRefused(alog) /\ OverCapacity(alog)
     THEN /\ alog' = WithoutGroups(alog, Evicted(alog))
          /\ evicted' = evicted \union {s \in Evicted(alog) : Latest(alog, s).state # "anchored"}
     ELSE UNCHANGED <<alog, evicted>>
  /\ Turn(t, IF busy[t].fresh /\ ~ CompactRefused(alog)
             THEN [busy[t] EXCEPT !.step = "deliver"]
             ELSE Continue(busy[t].todo))
  /\ UNCHANGED <<witness, faults>>

(***************************************************************************)
(* The witness (external) answers with an acknowledgement or `duplicate'   *)
(* when it holds the entry, with `conflict' when it holds another fact     *)
(* under the number, or refuses; the request or the answer may be lost.    *)
(* What is signed and sent is the identity and the fact, never the state.  *)
(***************************************************************************)
Holds(e) == [seq |-> e.group, fact |-> e.fact]
Contradicted(e) == \E w \in witness : w.seq = e.group /\ w.fact # e.fact

\* classifyAnchorResponse and the bookkeeping of dispatchAnchorPath.
ClassifyByStatus(answer) == [ack |-> "anchored", refused |-> "unanchored", lost |-> "anchored"][answer]
Classify(answer) == [ack |-> "anchored", refused |-> "unanchored", lost |-> "pending"][answer]
Settled(e, answer) ==
  LET st == Classify(answer) IN
    [e EXCEPT !.attempts = @ + 1,
              !.state = IF st = "pending" /\ e.attempts + 1 >= MaxAttempts
                        THEN "unanchored" ELSE st]

Deliver(t) ==
  /\ busy[t].step = "deliver"
  /\ \E answer \in {"ack", "refused", "lost"}, arrives \in BOOLEAN :
       /\ answer = "ack" => arrives
       /\ answer = "refused" => ~ arrives
       /\ arrives => ~ Contradicted(busy[t].entry)
       /\ witness' = IF arrives THEN witness \union {Holds(busy[t].entry)} ELSE witness
       /\ busy' = [busy EXCEPT ![t].step = "append", ![t].fresh = FALSE,
                               ![t].entry = Settled(@, answer)]
  /\ UNCHANGED <<alog, dispatch, faults, evicted>>

\* A conflicting digest at the witness: nothing is recorded.
DeliverConflict(t) ==
  /\ busy[t].step = "deliver"
  /\ Contradicted(busy[t].entry)
  /\ Turn(t, Continue(busy[t].todo))
  /\ UNCHANGED <<alog, witness, faults, evicted>>

AnchorStep(t) ==
  \/ CheckAnchor(t) \/ AppendAnchor(t) \/ AppendAnchorFails(t) \/ CompactAnchors(t)
  \/ Deliver(t) \/ DeliverConflict(t)

ACrash == /\ dispatch' = Nobody
          /\ busy' = [t \in Threads |-> Idle]
          /\ UNCHANGED <<alog, witness, evicted>>

(***************************************************************************)
(* AnchorDeliveryStatus: the counts a reader sees of the stream, and       *)
(* whether it has converged: nothing pending, no number contested, and a   *)
(* log that can be read.                                                   *)
(***************************************************************************)
Unreadable == [error |-> TRUE, anchored |-> 0, unanchored |-> 0, pending |-> 0,
               exhausted |-> 0, converged |-> FALSE]
CountIn(log, st) == Cardinality(InState(log, st))
Exhausted(log) == {s \in InState(log, "pending") : Latest(log, s).attempts >= MaxAttempts}

Converged(log) == Classified(log) /\ Conflicts(log) = {} /\ InState(log, "pending") = {}

DeliveryRow(log) ==
  IF ~ Classified(log) THEN Unreadable
  ELSE [error |-> Conflicts(log) # {},
        anchored |-> CountIn(log, "anchored"), unanchored |-> CountIn(log, "unanchored"),
        pending |-> CountIn(log, "pending"), exhausted |-> Cardinality(Exhausted(log)),
        converged |-> Converged(log)]

(***************************************************************************)
(* reconcileWitnessFamily over what the witness holds.  present says that  *)
(* the family's own ledger file is there and not empty.                    *)
(***************************************************************************)
Ambiguous == \E v, w \in witness : v.seq = w.seq /\ v # w

\* The projections against a contiguous window S of the log.
WindowVerdict(log, S) ==
  LET inside == {w \in witness : w.seq \in Min(S) .. Max(S)} IN
    IF \E w \in inside : w.seq \notin S THEN "unverifiable"
    ELSE IF \E w \in witness : w.seq > Max(S) THEN "truncated"
    ELSE IF \E w \in inside : Latest(log, w.seq).fact # w.fact THEN "divergent"
    ELSE IF S \subseteq {w.seq : w \in witness} THEN "intact"
    ELSE "incomplete"

FamilyVerdict(log, present) ==
  IF witness = {} THEN "not_provided"
  ELSE IF Ambiguous THEN "unverifiable"
  ELSE IF ~ present /\ log = <<>> THEN "deleted"
  ELSE IF ~ present \/ log = <<>> THEN "incomplete"
  ELSE IF ~ Classified(log) \/ Conflicts(log) # {} \/ ~ Contiguous(Groups(log)) THEN "unverifiable"
  ELSE WindowVerdict(log, Groups(log))
=============================================================================
