---------------------------- MODULE DecisionAttest ----------------------------
(***************************************************************************)
(* The attestation of protection decisions (snapshot_decision_attest.go).  *)
(* The gate's Emit puts a decision on a bounded queue in memory; the tail  *)
(* of the export tick sweeps the anchor stream, drains the queue into a    *)
(* chained log, anchors the chain's head, bounds the log and writes the    *)
(* number of lost decisions.  A decision is the number of its emission.    *)
(***************************************************************************)
EXTENDS AnchorStream

CONSTANTS QueueCap,          \* decisionQueueCap
          DecisionCapacity,  \* decisionLogCapacity
          MaxDecisions,      \* bound: decisions emitted
          MaxCrashes,        \* bound: crashes
          Tick               \* the scheduler goroutine

ASSUME DecisionAssumption ==
  Tick \in Threads /\ QueueCap \in Nat \ {0} /\ DecisionCapacity \in Nat

VARIABLES queue, dropped,    \* DecisionAttestSink
          emitted,           \* decisions emitted so far
          lossFile,          \* protection-decision-loss.json
          declog,            \* protection-decision.jsonl
          tick,              \* where the tick is
          drain,             \* the drain's locals: records taken, head
          unrecorded,        \* history: decisions that can no longer reach the log
          forgotten,         \* history: the ones a crash took with it
          crashes

sinkVars == <<queue, dropped, emitted, lossFile, declog, tick, drain, unrecorded,
           forgotten, crashes>>
dvars == <<avars, sinkVars>>

NoHead == [group |-> 0, rec |-> 0]
NoDrain == [taken |-> <<>>, head |-> NoHead, written |-> 0]

\* decisionRecordDigest covers the record and its number, not its link.
RecordDigest(line) == [group |-> line.group, rec |-> line.rec]

\* walkDecisionChain
ChainOK(log) ==
  /\ Classified(log)
  /\ \A i \in 2 .. Len(log) : /\ log[i].prev = RecordDigest(log[i - 1])
                              /\ log[i].group = log[i - 1].group + 1
ChainHead(log) == IF log = <<>> THEN NoHead ELSE RecordDigest(log[Len(log)])

DInit == /\ AInit
        /\ queue = <<>> /\ dropped = 0 /\ emitted = 0 /\ lossFile = 0
        /\ declog = <<>> /\ tick = "idle" /\ drain = NoDrain
        /\ unrecorded = {} /\ forgotten = {} /\ crashes = 0

\* Emit never blocks: a full queue gives up its oldest decision.
Emit ==
  /\ emitted < MaxDecisions
  /\ emitted' = emitted + 1
  /\ LET full == Len(queue) >= QueueCap IN
       /\ queue' = Append(IF full THEN Tail(queue) ELSE queue, emitted + 1)
       /\ dropped' = IF full THEN dropped + 1 ELSE dropped
       /\ unrecorded' = IF full THEN unrecorded \union {Head(queue)} ELSE unrecorded
  /\ UNCHANGED <<avars, lossFile, declog, tick, drain, forgotten, crashes>>

\* The tick's tail: the delivery sweep, ...
TickSweep ==
  /\ tick = "idle"
  /\ SweepOpen(Tick) \/ SweepSkipped
  /\ tick' = "sweep"
  /\ UNCHANGED <<queue, dropped, emitted, lossFile, declog, drain, unrecorded, forgotten, crashes>>

TickStream ==
  /\ AnchorStep(Tick)
  /\ UNCHANGED sinkVars

\* ... then drainDecisionAttest: an empty queue or a broken chain is left.
DrainNothing ==
  /\ tick = "sweep" /\ busy[Tick] = Idle
  /\ queue = <<>> \/ ~ ChainOK(declog)
  /\ tick' = "persist"
  /\ UNCHANGED <<avars, queue, dropped, emitted, lossFile, declog, drain, unrecorded,
                 forgotten, crashes>>

TakeQueue ==
  /\ tick = "sweep" /\ busy[Tick] = Idle
  /\ queue # <<>> /\ ChainOK(declog)
  /\ drain' = [taken |-> queue, head |-> ChainHead(declog), written |-> 0]
  /\ queue' = <<>>
  /\ tick' = "write"
  /\ UNCHANGED <<avars, dropped, emitted, lossFile, declog, unrecorded, forgotten, crashes>>

NextRecord ==
  [group |-> drain.head.group + 1, rec |-> Head(drain.taken), prev |-> drain.head]

WriteRecord ==
  /\ tick = "write" /\ drain.taken # <<>>
  /\ declog' = Appended(declog, NextRecord)
  /\ drain' = [taken |-> Tail(drain.taken), head |-> RecordDigest(NextRecord),
               written |-> drain.written + 1]
  /\ UNCHANGED <<avars, queue, dropped, emitted, lossFile, tick, unrecorded, forgotten, crashes>>

LossIgnored(n) == dropped
Loss(n) == dropped + n

\* A failed append ends the drain; what was not written is counted lost.
WriteFails ==
  /\ tick = "write" /\ drain.taken # <<>>
  /\ faults < MaxFaults /\ faults' = faults + 1
  /\ \/ /\ declog' = TornAppend(declog)
        /\ unrecorded' = unrecorded \union Range(drain.taken)
     \/ /\ declog' = Appended(declog, NextRecord)
        /\ unrecorded' = unrecorded \union Range(Tail(drain.taken))
  /\ dropped' = Loss(Len(drain.taken))
  /\ drain' = [drain EXCEPT !.taken = <<>>]
  /\ UNCHANGED <<alog, witness, dispatch, busy, evicted, queue, emitted, lossFile, tick, forgotten, crashes>>

\* One anchor per drain, of the head the drain itself wrote.
AnchorHead ==
  /\ tick = "write" /\ drain.taken = <<>>
  /\ IF drain.written > 0 THEN OpenAnchor(Tick, drain.head) \/ OpenRefused
                          ELSE UNCHANGED avars
  /\ tick' = "anchor"
  /\ UNCHANGED <<queue, dropped, emitted, lossFile, declog, drain, unrecorded, forgotten, crashes>>

NewestGroups(log) == {g \in Groups(log) : g > Min(Groups(log)) + DecisionCapacity - 1}
OldestGroups(log) == DroppedGroups(log, DecisionCapacity)

CompactDecisions ==
  /\ tick = "anchor" /\ busy[Tick] = Idle
  /\ declog' = IF Classified(declog)
               THEN WithoutGroups(declog, OldestGroups(declog))
               ELSE declog
  /\ tick' = "persist"
  /\ drain' = NoDrain
  /\ UNCHANGED <<avars, queue, dropped, emitted, lossFile, unrecorded, forgotten, crashes>>

\* persistLoss writes the count when it changed; the write may fail.
PersistLoss ==
  /\ tick = "persist"
  /\ \/ lossFile' = dropped /\ UNCHANGED faults
     \/ /\ dropped # lossFile /\ faults < MaxFaults
        /\ faults' = faults + 1 /\ UNCHANGED lossFile
  /\ tick' = "idle"
  /\ UNCHANGED <<alog, witness, dispatch, busy, evicted, queue, dropped, emitted, declog, drain,
                 unrecorded, forgotten, crashes>>

\* NewDecisionAttestSink continues the count the file holds.
Restored == lossFile

\* A crash empties the queue and the drain; what it takes is on no record.
DCrash ==
  /\ crashes < MaxCrashes
  /\ crashes' = crashes + 1
  /\ ACrash
  /\ LET inMemory == Range(queue) \union Range(drain.taken) IN
       /\ unrecorded' = unrecorded \union inMemory
       /\ forgotten' = forgotten \union inMemory
                       \union (IF dropped # lossFile THEN unrecorded ELSE {})
  /\ queue' = <<>> /\ dropped' = Restored /\ tick' = "idle" /\ drain' = NoDrain
  /\ UNCHANGED <<faults, emitted, lossFile, declog>>

TickNext == TickSweep \/ TickStream \/ DrainNothing \/ TakeQueue \/ WriteRecord
            \/ WriteFails \/ AnchorHead \/ CompactDecisions \/ PersistLoss
DNext == Emit \/ TickNext \/ DCrash

DSpec == DInit /\ [][DNext]_dvars
\* The scheduler's loop keeps ticking.
FairSpec == DSpec /\ WF_dvars(TickNext)

(***************************************************************************)
(* The read face: decisionLogStateAt and fillDecisionAttest.               *)
(***************************************************************************)
AnchoredFacts == {Latest(alog, s).fact : s \in InState(alog, "anchored")}
NewestAnchored ==
  LET facts == AnchoredFacts IN CHOOSE f \in facts : \A g \in facts : g.group <= f.group

DecisionLogState ==
  IF ~ Classified(alog) \/ Conflicts(alog) # {} THEN "divergent"
  ELSE IF AnchoredFacts = {} THEN "no_anchor"
  ELSE IF ~ ChainOK(declog) THEN "divergent"
  ELSE LET anchored == NewestAnchored
           head == ChainHead(declog)
       IN IF head.group < anchored.group THEN "truncated"
          ELSE IF head.group > anchored.group THEN "pending_anchor"
          ELSE IF head # anchored THEN "divergent"
          ELSE "attested"

DecisionAttested ==
  /\ DecisionLogState = "attested"
  /\ Seqs(alog) # {} /\ Latest(alog, Max(Seqs(alog))).state = "anchored"
  /\ dropped = 0

-----------------------------------------------------------------------------
\* A log that is reported attested hides no loss but the ones a crash took
\* from memory: a decision pushed off the queue or left unwritten by a failed
\* append withholds the claim, in this process and in the ones after it
\* (fillDecisionAttest, addDropped, persistLoss).
AttestedCountsLosses == DecisionAttested => unrecorded \subseteq forgotten

\* The delivery face never overstates: what it counts as anchored the witness
\* holds, whatever was lost on the way (a response without an acknowledgement
\* confirms nothing), and no entry it counts as pending is one that delivery
\* has given up (AnchorDeliveryStatus, classifyAnchorResponse).
DeliveryFaceTrue ==
  /\ DeliveryRow(alog).anchored <= Cardinality(witness)
  /\ DeliveryRow(alog).exhausted = 0
  /\ \A i \in DOMAIN alog :
       alog[i] # Torn /\ alog[i].state = "anchored" => Holds(alog[i]) \in witness

\* Honest operation is never taken for tampering.  Nothing but a short write
\* makes the log read as truncated or divergent from its own anchors, and the
\* witness never reads as evidence of a rewritten or truncated family as long
\* as compaction evicted no entry that was still unconfirmed: crashes, lost
\* answers, retries and prefix compaction never do either
\* (decisionLogStateAt, reconcileWitnessFamily, compactLogPrefixGroupsObserved).
NotAccused ==
  /\ Classified(alog) /\ Classified(declog) => DecisionLogState \notin {"truncated", "divergent"}
  /\ evicted = {} =>
       FamilyVerdict(alog, declog # <<>>) \notin {"truncated", "divergent", "deleted"}

Frozen == ~ Classified(alog) \/ ~ Classified(declog)

\* Once the gate falls silent the queue drains and the delivery face reports
\* convergence for good: what a lost answer, a crash or a refused compaction
\* left pending ends anchored or given up after MaxAttempts, unless a short
\* write froze one of the logs or an unconfirmed entry was evicted
\* (sweepAnchorDelivery, drainDecisionAttest, AnchorDeliveryStatus).
Settles ==
  <>[](Frozen \/ evicted # {} \/ (queue = <<>> /\ Converged(alog)))
=============================================================================
