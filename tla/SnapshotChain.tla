---------------------------- MODULE SnapshotChain ----------------------------
(***************************************************************************)
(* What a reader concludes from the export directory: the chain of signed  *)
(* manifests (snapshot_chain.go), the ledger that remembers manifests the  *)
(* retention removed (snapshot_ledger.go) and the verdict on each snapshot *)
(* (history_export_manifest.go).  All operators are functions of the files.*)
(*                                                                         *)
(* A manifest is [id, digest, prev, prevd, ok]: its publication id, the    *)
(* digest of its canonical payload, the id and digest it commits to, and   *)
(* whether its signature verifies.  A ledger line repeats the first four.  *)
(* Digest 0 and predecessor 0 belong to the first manifest of a chain.     *)
(***************************************************************************)
EXTENDS AppendOnlyLog

\* entryForManifest
EntryForManifest(m) ==
  [group |-> m.id, digest |-> m.digest, prev |-> m.prev, prevd |-> m.prevd]

\* loadLedgerState: ids recorded with two digests, and the entries to use.
LedgerConflicts(log) ==
  {log[i].group : i \in {j \in DOMAIN log :
      log[j] # Torn /\ \E k \in DOMAIN log : /\ log[k] # Torn
                                             /\ log[k].group = log[j].group
                                             /\ log[k].digest # log[j].digest}}

LedgerIds(log) == {log[i].group : i \in {j \in DOMAIN log : log[j] # Torn}}
UsableIds(log) == LedgerIds(log) \ LedgerConflicts(log)
LedgerEntry(log, id) == log[FirstAt(log, id)]

\* Mutant: a manifest that is not older than the new id is not noticed.
NotOlderUnnoticed(ms, before) ==
  LET newest == CHOOSE m \in ms : \A n \in ms : n.id <= m.id
  IN  ms # {} /\ ~newest.ok

\* latestVerifiedChainPredecessor: extending the chain is refused when a
\* manifest is not older than the new id or the newest one is not trusted.
Newest(ms) == CHOOSE m \in ms : \A n \in ms : n.id <= m.id
PredecessorRefused(ms, before) ==
  \/ \E m \in ms : m.id >= before
  \/ ms # {} /\ ~Newest(ms).ok

\* backtrackLedger: one step of the walk down the ledger, from what was
\* committed to.
BacktrackStep(log, w) ==
  IF w.verdict # "walking" THEN w
  ELSE IF w.id = 0 THEN [w EXCEPT !.verdict = "ended"]
  ELSE IF w.id \in LedgerConflicts(log) THEN [w EXCEPT !.verdict = "broken"]
  ELSE IF w.id \notin UsableIds(log) THEN [w EXCEPT !.verdict = "ended"]
  ELSE LET e == LedgerEntry(log, w.id)
       IN  IF w.digest # 0 /\ e.digest # w.digest
           THEN [w EXCEPT !.verdict = "broken"]
           ELSE [id |-> e.prev, digest |-> e.prevd, used |-> w.used + 1,
                 verdict |-> IF e.prev # 0 /\ e.prevd = 0 THEN "ended"
                             ELSE "walking"]

\* The walk is cut off, as broken, once it is longer than the ledger.
BacktrackBroken(log, id, digest) ==
  LET fuel == Len(log) + 2
      walk[n \in 0 .. fuel] ==
        IF n = 0 THEN [id |-> id, digest |-> digest, used |-> 0, verdict |-> "walking"]
        ELSE BacktrackStep(log, walk[n - 1])
  IN  walk[fuel].verdict # "ended"

\* The oldest node commits to nothing, or the ledger does not contradict it.
AnchorNodeBroken(m, log) ==
  IF m.prev = 0 THEN m.prevd # 0
  ELSE LedgerIds(log) = {} \/ BacktrackBroken(log, m.prev, m.prevd)

\* A node contradicts its own ledger entry.
EntryContradicts(m, log) ==
  \/ m.id \in LedgerConflicts(log)
  \/ m.id \in UsableIds(log) /\ LedgerEntry(log, m.id).digest # m.digest

\* A node does not commit to the node before it.
LinkBroken(m, nodes) ==
  LET older == {n \in nodes : n.id < m.id}
  IN  older # {} /\ LET p == Newest(older)
                    IN  m.prev # p.id \/ m.prevd # p.digest

\* VerifySnapshotsDetailed: the manifests whose signature verifies are the
\* nodes of the chain.
ChainNodes(ms) == {m \in ms : m.ok}

\* verifyChainWithLedger on the chain-bearing manifests ms.
ChainVerdict(ms, log) ==
  LET nodes == ChainNodes(ms)
      oldest == CHOOSE m \in nodes : \A n \in nodes : m.id <= n.id
  IN  IF ms = {} THEN "absent"
      ELSE IF \/ nodes # ms
              \/ AnchorNodeBroken(oldest, log)
              \/ \E m \in nodes : EntryContradicts(m, log) \/ LinkBroken(m, nodes)
           THEN "broken"
      ELSE "ok"

\* VerifySnapshotsDetailed: the status of a snapshot with files fs and
\* manifest m, among the manifests ms.
SnapshotStatus(fs, m, ms) ==
  IF "manifest" \notin fs THEN "orphan_artifact"
  ELSE IF \E n \in ms : n # m /\ n.id = m.id THEN "unknown"
  ELSE IF ~m.ok THEN "mismatch"
  ELSE IF "artifact" \notin fs THEN "orphan_manifest"
  ELSE "ok"
=============================================================================
