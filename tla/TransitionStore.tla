--------------------------- MODULE TransitionStore ---------------------------
(***************************************************************************)
(* The durable alert history: FileBackedTransitionStore of the server, the *)
(* AlertTracker of internal/protection that records the edges of the alert *)
(* condition through it, and a client that pages through the history.      *)
(*                                                                         *)
(* The file is a sequence of lines, metadata first, and a flag that says   *)
(* whether the last line lacks its terminator.  Every operation holds the  *)
(* store's mutex, so one operation is one step; a write may stop short,    *)
(* fail to sync, or be cut off by a crash.  A record is its sequence       *)
(* number, the state it moves to and its time, which is the number of the  *)
(* observation.  The acceptance recorder, off by default, is composed with *)
(* the store in AcceptanceLedger.                                          *)
(***************************************************************************)
EXTENDS Integers, Sequences, FiniteSets

CONSTANTS
  FileCap,     \* protection.FileTransitionCapacity
  RingCap,     \* protection.TransitionHistoryCapacity
  PageSize,    \* the limit of the paging client
  MaxEdges,    \* bound on the time, in observed edges
  MaxCrashes   \* bound on the crashes

ASSUME TransitionConstants ==
  /\ FileCap \in Nat \ {0}
  /\ RingCap \in Nat \ {0}
  /\ PageSize \in Nat \ {0}
  /\ MaxEdges \in Nat
  /\ MaxCrashes \in Nat

VARIABLES
  file,         \* the lines on disk
  torn,         \* the last line has no terminator
  up,           \* the process runs
  openErr,      \* FileBackedTransitionStore.openErr, or a FailedTransitionStore
  count,        \* FileBackedTransitionStore.count
  fileDropped,  \* FileBackedTransitionStore.fileDropped
  lastSeq,      \* FileBackedTransitionStore.lastSeq
  tracker,      \* AlertTracker
  cursor,       \* the client's cursor: a sequence number, 0 for none
  page,         \* the times of the page the client was served last
  now,          \* history: the time, in observed edges
  durable,      \* history: times of the records whose append was synced
  settled,      \* history: the last change of firing was recorded and synced
  flaws,        \* history: "corrupt" once a scan reports it, "sync" once a sync failed
  crashes

storeVars == <<openErr, count, fileDropped, lastSeq>>
diskVars == <<file, torn>>
clientVars == <<cursor, page>>
histVars == <<now, durable, settled, flaws>>
vars == <<diskVars, up, storeVars, tracker, clientVars, histVars, crashes>>

-----------------------------------------------------------------------------
(* The file.                                                               *)

MetaLine(d, s, i) == [kind |-> "meta", seq |-> s, to |-> FALSE, at |-> 0, dropped |-> d, inc |-> i]
RecLine(s, t, n)  == [kind |-> "rec", seq |-> s, to |-> t, at |-> n, dropped |-> 0, inc |-> FALSE]
Junk              == [kind |-> "junk", seq |-> 0, to |-> FALSE, at |-> 0, dropped |-> 0, inc |-> FALSE]

Slot(f) == IF f = <<>> THEN "none" ELSE f[1].kind
IsRec(l) == l.kind = "rec"

\* The lines behind the metadata slot; a record found in the slot is a record.
TxLines(f) == SubSeq(f, IF Slot(f) = "rec" THEN 1 ELSE 2, Len(f))

ScanSkipping(f, t) ==
  LET tx == TxLines(f)
      recs == SelectSeq(tx, IsRec)
  IN  [corrupt |-> FALSE, lines |-> Len(tx), recs |-> recs,
       dropped |-> IF Slot(f) = "meta" THEN f[1].dropped ELSE 0,
       lastSeq |-> IF Slot(f) = "meta" THEN f[1].seq ELSE 0,
       inc     |-> IF Slot(f) = "meta" THEN f[1].inc ELSE f # <<>>,
       legacy  |-> \E i \in DOMAIN recs : recs[i].seq = 0]

\* scanRecords: only the unterminated last line may be skipped; any other line
\* that does not parse makes the file corrupt, and no record is returned.
Scan(f, t) ==
  LET tx == TxLines(f)
      n == Len(tx)
      kept == IF t /\ n > 0 /\ ~IsRec(tx[n]) THEN SubSeq(tx, 1, n - 1) ELSE tx
      corrupt == \E i \in DOMAIN kept : ~IsRec(kept[i])
  IN  [corrupt |-> corrupt,
       lines   |-> n,
       recs    |-> IF corrupt THEN <<>> ELSE kept,
       dropped |-> IF Slot(f) = "meta" /\ ~corrupt THEN f[1].dropped ELSE 0,
       lastSeq |-> IF Slot(f) = "meta" THEN f[1].seq ELSE 0,
       inc     |-> IF Slot(f) = "meta" THEN f[1].inc ELSE f # <<>>,
       legacy  |-> ~corrupt /\ \E i \in DOMAIN kept : kept[i].seq = 0]

Times(recs) == {recs[i].at : i \in DOMAIN recs}
Newest(q, n) == SubSeq(q, IF Len(q) > n THEN Len(q) - n + 1 ELSE 1, Len(q))

\* A write goes behind the last byte: behind an unterminated line it becomes
\* part of that line, which then parses as nothing.
Written(f, t, l) == IF t THEN [f EXCEPT ![Len(f)] = Junk] ELSE Append(f, l)

\* migrateLocked: sequence numbers 1..N in file order, published by a rename.
Migrated(s) ==
  <<MetaLine(IF s.inc THEN 0 ELSE s.dropped, Len(s.recs), s.inc)>>
    \o [i \in DOMAIN s.recs |-> [s.recs[i] EXCEPT !.seq = i]]

\* evictLocked reads the slot itself: one that is not metadata is a line like
\* the others.
EvictLines(f) == SubSeq(f, IF Slot(f) = "meta" THEN 2 ELSE 1, Len(f))
EvictedOldestKept(f, d, s) ==
  LET tx == EvictLines(f)
  IN  <<MetaLine(d + Len(tx) - FileCap, s, FALSE)>> \o SubSeq(tx, 1, FileCap)
Evicted(f, d, s) ==
  LET tx == EvictLines(f)
      inc == Slot(f) = "meta" /\ f[1].inc
  IN  <<MetaLine((IF inc THEN 0 ELSE d) + Len(tx) - FileCap, s, inc)>> \o Newest(tx, FileCap)

-----------------------------------------------------------------------------
(* The tracker's state after a start.                                      *)

Degraded(err, cor) ==
  [firing |-> FALSE, historyLoaded |-> FALSE, loadError |-> err, historyCorrupt |-> cor,
   metaInconsistent |-> FALSE, fileDropped |-> 0, transitions |-> <<>>, historyDropped |-> 0]

Recovered(s) ==
  [firing |-> s.recs # <<>> /\ s.recs[Len(s.recs)].to,
   historyLoaded |-> TRUE, loadError |-> FALSE, historyCorrupt |-> FALSE,
   metaInconsistent |-> s.inc, fileDropped |-> s.dropped,
   transitions |-> [i \in DOMAIN Newest(s.recs, RingCap) |-> Newest(s.recs, RingCap)[i].at],
   historyDropped |-> 0]

MaxLegacy == 2   \* bound: records of such a file

\* No file yet, or one written before records had sequence numbers.
Init ==
  /\ \E n \in 0..MaxLegacy :
       /\ file = IF n = 0 THEN <<>>
                 ELSE <<MetaLine(0, 0, FALSE)>> \o [i \in 1..n |-> RecLine(0, i % 2 = 1, i)]
       /\ durable = 1..n
  /\ now = MaxLegacy
  /\ torn = FALSE
  /\ up = FALSE
  /\ openErr = FALSE /\ count = 0 /\ fileDropped = 0 /\ lastSeq = 0
  /\ tracker = Degraded(FALSE, FALSE)
  /\ cursor = 0 /\ page = <<>>
  /\ settled = FALSE
  /\ flaws = {}
  /\ crashes = 0

\* A scan of the file as it is after the step.
NoteCorrupt == flaws' = flaws \cup (IF Scan(file', torn').corrupt THEN {"corrupt"} ELSE {})

-----------------------------------------------------------------------------
(* Start of the process.                                                   *)

\* The file cannot be opened or created: the wiring of cmd/opscore hands the
\* tracker a FailedTransitionStore.  A failed creation may leave a part of the
\* metadata line.
OpenFails ==
  /\ ~up /\ up' = TRUE
  /\ \/ UNCHANGED diskVars
     \/ /\ file = <<>>
        /\ file' \in {<<Junk>>, <<MetaLine(0, 0, FALSE)>>}
        /\ torn' = TRUE
  /\ openErr' = TRUE
  /\ tracker' = Degraded(TRUE, FALSE)
  /\ settled' = FALSE
  /\ UNCHANGED <<count, fileDropped, lastSeq, clientVars, now, durable, flaws, crashes>>

\* The file as the constructor finds it: an empty one gets its metadata line.
Opened == IF file = <<>> THEN <<MetaLine(0, 0, FALSE)>> ELSE file

\* The constructor cannot read the file or cannot migrate it; Load, Append and
\* every read report the error from then on.
OpenUnreadable ==
  /\ ~up /\ up' = TRUE
  /\ file' = Opened
  /\ openErr' = TRUE
  /\ tracker' = Degraded(TRUE, FALSE)
  /\ settled' = FALSE
  /\ UNCHANGED <<torn, count, fileDropped, lastSeq, clientVars, now, durable, flaws, crashes>>

\* A corrupt file is opened without its watermark; Load reports the corruption
\* (or an error of its own) and leaves its line count behind.
OpenCorrupt ==
  LET s == Scan(file, torn)
  IN  /\ ~up /\ up' = TRUE
      /\ s.corrupt
      /\ openErr' = FALSE
      /\ lastSeq' = 0
      /\ fileDropped' = 0
      /\ \/ count' = s.lines /\ tracker' = Degraded(FALSE, TRUE)
         \/ count' = 0 /\ tracker' = Degraded(TRUE, FALSE)
      /\ settled' = FALSE
      /\ UNCHANGED <<diskVars, clientVars, now, durable, flaws, crashes>>

\* Migration if needed, the mirrors, and the tracker's Load, which may fail.
Open ==
  LET s0 == Scan(Opened, torn)
      f == IF s0.legacy THEN Migrated(s0) ELSE Opened
      t == IF s0.legacy THEN FALSE ELSE torn
      s == Scan(f, t)
  IN  /\ ~up /\ up' = TRUE
      /\ ~s0.corrupt
      /\ file' = f /\ torn' = t
      /\ openErr' = FALSE
      /\ count' = Len(s.recs)
      /\ fileDropped' = s.dropped
      /\ \E m \in {s.lastSeq} \cup {s.recs[i].seq : i \in DOMAIN s.recs} :
           /\ m >= s.lastSeq /\ \A i \in DOMAIN s.recs : m >= s.recs[i].seq
           /\ lastSeq' = m
      /\ \/ tracker' = Recovered(s) /\ settled' = TRUE
         \/ tracker' = Degraded(TRUE, FALSE) /\ settled' = FALSE
      /\ UNCHANGED <<clientVars, now, durable, flaws, crashes>>

-----------------------------------------------------------------------------
(* AlertTracker.Observe and FileBackedTransitionStore.Append.              *)

\* The first observation after a failed load sets the state, with no edge.
ObserveBaseline(firing) ==
  /\ up /\ ~tracker.historyLoaded
  /\ tracker' = [tracker EXCEPT !.firing = firing, !.historyLoaded = TRUE]
  /\ settled' = FALSE
  /\ UNCHANGED <<diskVars, up, storeVars, clientVars, now, durable, flaws, crashes>>

\* pushTransitionLocked drops the oldest entry of a full ring.
Push(q) == [drop |-> IF Len(q) >= RingCap THEN 1 ELSE 0,
            ring |-> Append(IF Len(q) >= RingCap THEN Tail(q) ELSE q, now + 1)]

\* An observation that is no edge records nothing.
ObserveNoEdge == up /\ tracker.historyLoaded /\ UNCHANGED vars

\* An edge: the tracker's part.
Edge ==
  /\ up /\ tracker.historyLoaded
  /\ now < MaxEdges
  /\ now' = now + 1
  /\ tracker' = [tracker EXCEPT !.firing = ~@, !.transitions = Push(@).ring,
                                !.historyDropped = @ + Push(tracker.transitions).drop]
  /\ UNCHANGED <<up, openErr, clientVars, crashes>>

NewLine == RecLine(lastSeq + 1, ~tracker.firing, now + 1)

\* Nothing is written: the store is degraded or the file cannot be opened.
AppendRefused ==
  /\ Edge
  /\ settled' = FALSE
  /\ UNCHANGED <<diskVars, count, fileDropped, lastSeq, durable, flaws>>

\* The write stops short and reports it, with or without the whole record.
AppendShort ==
  /\ Edge /\ ~openErr
  /\ file' \in {Written(file, torn, Junk), Written(file, torn, NewLine)}
  /\ torn' = TRUE
  /\ settled' = FALSE
  /\ NoteCorrupt
  /\ UNCHANGED <<count, fileDropped, lastSeq, durable>>

\* The line is in the file but the sync fails: the sequence is not consumed.
AppendUnsynced ==
  /\ Edge /\ ~openErr
  /\ file' = Written(file, torn, NewLine)
  /\ torn' = FALSE
  /\ settled' = FALSE
  /\ flaws' = flaws \cup {"sync"} \cup (IF Scan(file', torn').corrupt THEN {"corrupt"} ELSE {})
  /\ UNCHANGED <<count, fileDropped, lastSeq, durable>>

StaleWatermark == lastSeq
Watermark == lastSeq + 1

\* The line is durable and its sequence consumed, whether or not the close that
\* follows fails; beyond the cap the file is rewritten, unless that fails.
AppendSynced ==
  LET f == Written(file, torn, NewLine)
  IN  /\ Edge /\ ~openErr
      /\ lastSeq' = Watermark
      /\ torn' = FALSE
      /\ \/ file' = f /\ count' = count + 1 /\ UNCHANGED fileDropped
         \/ /\ count + 1 > FileCap /\ Len(EvictLines(f)) > FileCap
            /\ file' = Evicted(f, fileDropped, Watermark)
            /\ fileDropped' = fileDropped + Len(EvictLines(f)) - FileCap
            /\ count' = FileCap
      /\ durable' = durable \cup {now + 1}
      /\ settled' = TRUE
      /\ NoteCorrupt

-----------------------------------------------------------------------------
(* Reads.                                                                  *)

\* What every scan leaves in the mirrors.
Mirror(s) ==
  /\ count' = IF s.corrupt THEN s.lines ELSE Len(s.recs)
  /\ fileDropped' = IF s.corrupt THEN fileDropped ELSE s.dropped

\* ReadRecent and ReadAll.
ReadAll ==
  /\ up /\ ~openErr
  /\ Mirror(Scan(file, torn))
  /\ UNCHANGED <<diskVars, up, openErr, lastSeq, tracker, clientVars, histVars, crashes>>

\* resolveCursor: the first record with the cursor's sequence.
Retained(recs, c) == \E i \in DOMAIN recs : recs[i].seq = c
Resolve(recs, c) == CHOOSE i \in DOMAIN recs :
                      recs[i].seq = c /\ \A j \in DOMAIN recs : recs[j].seq = c => i <= j

\* The n records before record e + 1, newest first, and the cursor behind them.
Page(recs, e, n) ==
  LET b == IF e > n THEN e - n ELSE 0
  IN  [times |-> [i \in 1..(e - b) |-> recs[e - i + 1].at],
       next  |-> IF b > 0 THEN recs[b + 1].seq ELSE 0]

Serve(recs, e) ==
  /\ page' = Page(recs, e, PageSize).times
  /\ cursor' = Page(recs, e, PageSize).next

\* The client starts over when its cursor has expired or the file is corrupt.
ReadBefore ==
  LET s == Scan(file, torn)
  IN  /\ up /\ ~openErr
      /\ Mirror(s)
      /\ \/ /\ ~s.corrupt /\ cursor = 0
            /\ Serve(s.recs, Len(s.recs))
         \/ /\ ~s.corrupt /\ cursor # 0 /\ Retained(s.recs, cursor)
            /\ Serve(s.recs, Resolve(s.recs, cursor) - 1)
         \/ /\ s.corrupt \/ (cursor # 0 /\ ~Retained(s.recs, cursor))
            /\ page' = <<>> /\ cursor' = 0
      /\ UNCHANGED <<diskVars, up, openErr, lastSeq, tracker, histVars, crashes>>

-----------------------------------------------------------------------------

\* The process stops; the client keeps its cursor.
Down ==
  /\ up /\ up' = FALSE
  /\ crashes < MaxCrashes
  /\ crashes' = crashes + 1
  /\ openErr' = FALSE /\ count' = 0 /\ fileDropped' = 0 /\ lastSeq' = 0
  /\ tracker' = Degraded(FALSE, FALSE)
  /\ settled' = FALSE
  /\ UNCHANGED <<clientVars, durable>>

Crash == Down /\ UNCHANGED <<diskVars, now, flaws>>

\* The process stops while it appends an edge: all of the line, all but its
\* terminator, or a part of it is in the file.
CrashInAppend ==
  /\ Down
  /\ tracker.historyLoaded /\ ~openErr
  /\ now < MaxEdges
  /\ now' = now + 1
  /\ \/ file' = Written(file, torn, NewLine) /\ torn' \in BOOLEAN
     \/ file' = Written(file, torn, Junk) /\ torn' = TRUE
  /\ NoteCorrupt

Next ==
  \/ OpenFails \/ OpenUnreadable \/ OpenCorrupt \/ Open
  \/ \E firing \in BOOLEAN : ObserveBaseline(firing)
  \/ ObserveNoEdge
  \/ AppendRefused \/ AppendShort \/ AppendUnsynced \/ AppendSynced
  \/ ReadAll \/ ReadBefore
  \/ Crash \/ CrashInAppend

Spec == Init /\ [][Next]_vars

-----------------------------------------------------------------------------
(* Properties.                                                             *)

\* What a start at this moment would load.
View == Scan(file, torn)

\* As long as no scan found corruption, the persisted eviction count covers all
\* synced records that are no longer in the file ("the on-disk content and the
\* file_dropped count can NEVER disagree on recovery").
DropsAccounted ==
  "corrupt" \notin flaws /\ ~View.inc
    => Cardinality(durable \ Times(View.recs)) <= View.dropped

\* When the last change of the alert state was recorded, a restart reconstructs
\* that state from a history it accepts (alerting.go NewAlertTrackerWithStore).
FiringReconstructed ==
  up /\ settled /\ ~View.corrupt /\ ~View.inc => Recovered(View).firing = tracker.firing

\* A client that follows cursors is served, page after page, the records right
\* before the ones it has while the last of them is retained, through appends,
\* evictions and restarts (file_transition_store.go ReadBefore, resolveCursor).
PagesLeaveNoGap ==
  [][LET oldest == page[Len(page)]
         older == {t \in Times(View.recs) : t < oldest}
     IN  cursor # 0 /\ clientVars' # clientVars /\ flaws = {} /\ oldest \in Times(View.recs) =>
           IF older = {} THEN page' = <<>>
           ELSE page' # <<>> /\ page'[1] \in older /\ \A t \in older : t <= page'[1]]_vars

=============================================================================
