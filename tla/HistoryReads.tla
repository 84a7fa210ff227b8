---------------------------- MODULE HistoryReads ----------------------------
(***************************************************************************)
(* What the console answers about the alert history: the recent            *)
(* transitions from the tracker's ring or from the file                    *)
(* (/alerts/history, source memory or durable) and the export of the whole *)
(* file as JSON or CSV.  Reads leave only the mirrors of TransitionStore   *)
(* behind, so an answer is a function of the state: the set of the answers *)
(* a request of this moment may get.                                       *)
(***************************************************************************)
EXTENDS TransitionStore

CONSTANT MaxLimit   \* protection.DurableReadMaxLimit

\* The ring holds fewer records than one read may return and than the file.
ASSUME ReadConstants == MaxLimit \in Nat /\ RingCap <= MaxLimit /\ RingCap <= FileCap

\* The limit is clamped to the read limit and to the capacity of the file.
Effective(limit) ==
  CHOOSE n \in {limit, MaxLimit, FileCap} : \A x \in {limit, MaxLimit, FileCap} : n <= x

Stats(dropped, inFile, inc, ok) ==
  [available |-> ok, truncated |-> dropped > 0 \/ inFile > 0 \/ inc]

\* AlertTracker.HistoryStats: what was found at the start and dropped since.
HistoryStats ==
  Stats(tracker.historyDropped, tracker.fileDropped, tracker.metaInconsistent,
        tracker.historyLoaded /\ ~tracker.loadError /\ ~tracker.historyCorrupt)

\* The ring, newest first, cut to the limit.
MemoryAnswer(limit) ==
  LET n == Len(tracker.transitions)
  IN  [status |-> "ok", next |-> 0, stats |-> HistoryStats,
       records |-> [i \in 1..(IF limit < n THEN limit ELSE n) |-> tracker.transitions[n - i + 1]]]

Unavailable == [status |-> "unavailable", next |-> 0, stats |-> HistoryStats, records |-> <<>>]
CursorError == [status |-> "cursor_error", next |-> 0, stats |-> HistoryStats, records |-> <<>>]

ReadStatus(s) == IF s.inc THEN "degraded" ELSE "ok"

\* A page of this read's records, with what this read found of the file.
Served(s, e, limit) ==
  LET p == Page(s.recs, e, limit)
  IN  [status |-> ReadStatus(s), next |-> p.next, records |-> p.times,
       stats |-> Stats(tracker.historyDropped, s.dropped, s.inc, TRUE)]

\* s is what a scan of the file finds.  Every read may fail before it: the file
\* cannot be read, is over the budget, or the request is out of time.
WriteDurableHistory(s, before, limit) ==
  {Unavailable} \cup
    IF openErr \/ s.corrupt THEN {}
    ELSE IF before = 0 THEN {Served(s, Len(s.recs), limit)}
    ELSE IF Retained(s.recs, before) THEN {Served(s, Resolve(s.recs, before) - 1, limit)}
    ELSE {CursorError}

\* The answers of the two sources; neither ever stands in for the other.
AlertsHistory(source, s, before, limit) ==
  IF source = "memory" THEN {MemoryAnswer(Effective(limit))}
  ELSE WriteDurableHistory(s, before, Effective(limit))

-----------------------------------------------------------------------------
(* The export.                                                             *)

\* historyExportStats: from this read alone, the ring's losses left out.
ExportStats(s) == Stats(s.dropped, s.dropped, s.inc, TRUE)

SerializeJSON(s) ==
  [status |-> ReadStatus(s), next |-> 0, stats |-> ExportStats(s),
   records |-> Page(s.recs, Len(s.recs), Len(s.recs)).times]

\* Rows of data, then rows of metadata, which start with '#'.
SerializeCSV(s) ==
  LET times == Page(s.recs, Len(s.recs), Len(s.recs)).times
      data == [i \in DOMAIN times |-> [meta |-> FALSE, value |-> times[i]]]
  IN  data \o <<[meta |-> TRUE, value |-> ExportStats(s)], [meta |-> TRUE, value |-> ReadStatus(s)]>>

\* A consumer of the CSV separates the rows again.
Consumed(rows) ==
  LET n == Cardinality({i \in DOMAIN rows : ~rows[i].meta})
  IN  [status |-> rows[n + 2].value, next |-> 0, stats |-> rows[n + 1].value,
       records |-> [i \in 1..n |-> rows[i].value]]

HistoryExport(s, format) ==
  {Unavailable} \cup
    IF openErr \/ s.corrupt THEN {}
    ELSE {IF format = "json" THEN SerializeJSON(s) ELSE Consumed(SerializeCSV(s))}

-----------------------------------------------------------------------------

\* An answer that says it is complete: served, nothing older, nothing dropped.
SaysComplete(a) == a.status = "ok" /\ a.next = 0 /\ a.stats.available /\ ~a.stats.truncated
Shows(a) == {a.records[i] : i \in DOMAIN a.records}

\* No reader is told that the history is complete while a synced record is
\* missing from what it is shown, whatever was torn, evicted, migrated or
\* damaged before: the first durable page and both exports show every synced
\* record, and so does a memory ring that is not full (mgmt_obs.go: "never call
\* the result clean", the false-clean pattern).
NoFalseClean ==
  LET s == View
      durableAnswers == UNION {AlertsHistory("durable", s, 0, limit) : limit \in {PageSize, MaxLimit + 1}}
      exports == UNION {HistoryExport(s, format) : format \in {"json", "csv"}}
      ring == {a \in AlertsHistory("memory", s, 0, RingCap) : Len(tracker.transitions) < RingCap}
  IN  up => \A a \in durableAnswers \cup exports \cup ring :
              SaysComplete(a) => durable \subseteq Shows(a)

\* Nothing is lost silently: neither from the persisted count of evictions nor
\* from an answer that calls itself complete (file_transition_store.go,
\* mgmt_obs.go).
NoSilentLoss == DropsAccounted /\ NoFalseClean
=============================================================================
