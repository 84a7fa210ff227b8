--------------------------- MODULE DestructionLog ---------------------------
(***************************************************************************)
(* The destruction log of internal/controlplane/server/                    *)
(* snapshot_destruction.go.  Whoever removes evidence first appends an     *)
(* intent line, then removes, then closes the group with a second line.    *)
(* Lines are chained by digests.  The intent and the closing line share    *)
(* payload and incoming pointer, so a group may only be closed while its   *)
(* intent is the last line of the file.                                    *)
(*                                                                         *)
(* A digest is modelled by the pair of a line's sequence number and state: *)
(* payloads differ in the sequence number they sign.  Every append runs    *)
(* under destructionWriteMu; the compaction of the log itself consists of  *)
(* three durable writes under the same lock.                               *)
(***************************************************************************)
EXTENDS AppendOnlyLog

CONSTANTS
  DestructionCapacity,  \* groups kept by the log's own compaction; 0: all
  NoOne                 \* a lock nobody holds

ASSUME DestructionConstants == DestructionCapacity \in Nat

VARIABLES
  dlog,      \* destruction-log.jsonl
  self,      \* the self-compaction that holds the write lock: [by, stage, gone]
  windowMu   \* who holds destructionWindowMu

NoSelf == [by |-> NoOne, stage |-> "none", gone |-> {}]

LineDigest(l) == <<l.group, l.state>>
Origin == <<0, "none">>

\* The digest the next line points to.
TailDigest(log) == IF log = <<>> THEN Origin ELSE LineDigest(log[Len(log)])

MaxGroup(log) == IF log = <<>> THEN 0
                 ELSE CHOOSE g \in Groups(log) : \A h \in Groups(log) : h <= g

\* Where the run of adjacent lines of the same group that holds line i starts.
RunStart(log, i) ==
  CHOOSE j \in 1 .. i : /\ \A k \in j .. i : log[k].group = log[i].group
                        /\ j = 1 \/ log[j - 1].group # log[i].group

\* Every run points to the line before it; the first one is exempt, because
\* a compaction may have dropped what it points to.
ChainHolds(log) ==
  \A i \in DOMAIN log :
    LET j == RunStart(log, i)
    IN  j > 1 => log[i].prev = LineDigest(log[j - 1])

\* loadDestructionState: what is wrong with group g.
GroupConflict(log, g) ==
  LET ls == LinesOf(log, g)
  IN  \/ ls[1].state # "intended"
      \/ Len(ls) > 2
      \/ Len(ls) = 2 /\ \/ ls[2].state \notin {"completed", "aborted"}
                        \/ ls[2].targets # ls[1].targets

GroupState(log, g) ==
  LET ls == LinesOf(log, g)
  IN  IF Len(ls) > 1 /\ ~GroupConflict(log, g) THEN ls[2].state ELSE ls[1].state

Continuous(log) ==
  Groups(log) = {} \/ \A g \in Groups(log) : g = MaxGroup(log) \/ g + 1 \in Groups(log)

\* appendDestructionEntryLocked refuses a log it cannot read or verify.
Writable(log) == Classified(log) /\ ChainHolds(log)

\* The line of an intent.
IntentLine(log, kind, targets) ==
  [group |-> MaxGroup(log) + 1, kind |-> kind, targets |-> targets,
   state |-> "intended", prev |-> TailDigest(log)]

\* Mutant: the group may be closed wherever it stands.
ClosableAnywhere(log, g) == Writable(log) /\ Len(LinesOf(log, g)) = 1

\* A group may be closed once, and only while it is the chain's tail.
Closable(log, g) ==
  /\ Writable(log)
  /\ Len(LinesOf(log, g)) = 1
  /\ TailDigest(log) = LineDigest(LinesOf(log, g)[1])

ClosingLine(log, g, state) == [LinesOf(log, g)[1] EXCEPT !.state = state]

DInit ==
  /\ dlog = <<>>
  /\ self = NoSelf
  /\ windowMu = NoOne

WriteMuFree == self.stage = "none"

\* beginDestruction, when it succeeds.
BeginDestruction(kind, targets) ==
  /\ WriteMuFree
  /\ Writable(dlog)
  /\ dlog' = Appended(dlog, IntentLine(dlog, kind, targets))
  /\ UNCHANGED self

\* beginDestruction refuses: the log is not readable.
BeginRefused ==
  /\ WriteMuFree
  /\ ~Writable(dlog)
  /\ UNCHANGED <<dlog, self>>

\* beginDestruction stops short in the middle of the line.
BeginTorn ==
  /\ WriteMuFree
  /\ Writable(dlog)
  /\ dlog' = TornAppend(dlog)
  /\ UNCHANGED self

TooLong(log) ==
  DestructionCapacity > 0 /\ Cardinality(Groups(log)) > DestructionCapacity

\* completeDestruction: the closing line; a log that is now too long is
\* compacted before the lock is released.
CompleteDestruction(a, g, state) ==
  /\ WriteMuFree
  /\ Closable(dlog, g)
  /\ dlog' = Appended(dlog, ClosingLine(dlog, g, state))
  /\ self' = IF TooLong(dlog')
             THEN [by |-> a, stage |-> "intent",
                   gone |-> DroppedGroups(dlog', DestructionCapacity - 1)]
             ELSE NoSelf

\* completeDestruction refuses: the group stays intended.
CompleteRefused(g) ==
  /\ WriteMuFree
  /\ ~Closable(dlog, g)
  /\ UNCHANGED <<dlog, self>>

\* compactDestructionSelfLocked: the intent of the log's own compaction ...
SelfIntent ==
  /\ self.stage = "intent"
  /\ dlog' = Appended(dlog, IntentLine(dlog, "self_compaction", self.gone))
  /\ self' = [self EXCEPT !.stage = "rewrite"]
  /\ UNCHANGED windowMu

\* ... the rewrite without the dropped groups ...
SelfRewrite ==
  /\ self.stage = "rewrite"
  /\ dlog' = WithoutGroups(dlog, self.gone)
  /\ self' = [self EXCEPT !.stage = "close"]
  /\ UNCHANGED windowMu

\* ... and the closing line of its own group.
SelfClose ==
  /\ self.stage = "close"
  /\ IF Closable(dlog, MaxGroup(dlog))
     THEN dlog' = Appended(dlog, ClosingLine(dlog, MaxGroup(dlog), "completed"))
     ELSE UNCHANGED dlog
  /\ self' = NoSelf
  /\ UNCHANGED windowMu

\* A crash releases the locks and keeps the file.
DCrash ==
  /\ self' = NoSelf
  /\ windowMu' = NoOne
  /\ UNCHANGED dlog
=============================================================================
