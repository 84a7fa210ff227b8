---------------------------- MODULE AppendOnlyLog ----------------------------
(***************************************************************************)
(* The append-only JSON-lines files of the evidence plane                  *)
(* (internal/controlplane/server/appendonly_log.go).  A log is a sequence  *)
(* of lines; a line belongs to a group (a publication id or a sequence     *)
(* number), the unit of compaction.  A short write leaves a line that no   *)
(* reader can classify: it is the line Torn, which belongs to no group.    *)
(***************************************************************************)
EXTENDS Integers, Sequences, FiniteSets

\* What a write that fails in the middle leaves at the end of the file.
Torn == [group |-> 0]

\* readLogLines: is every line classified?
Classified(log) == \A i \in DOMAIN log : log[i] # Torn

Groups(log) == {log[i].group : i \in DOMAIN log}

FirstAt(log, g) ==
  CHOOSE i \in DOMAIN log : /\ log[i].group = g
                            /\ \A j \in 1 .. i - 1 : log[j].group # g

\* planLogPrefixDrop: the oldest groups beyond the last keep ones; without a
\* bound, none.
DroppedGroups(log, keep) ==
  {g \in Groups(log) :
     keep > 0 /\ Cardinality({h \in Groups(log) : FirstAt(log, h) >= FirstAt(log, g)}) > keep}

\* The lines at the given places, in their order.
Place(places, n) == CHOOSE i \in places : Cardinality({j \in places : j <= i}) = n
LinesAt(log, places) == [n \in 1 .. Cardinality(places) |-> log[Place(places, n)]]

WithoutGroups(log, gone) == LinesAt(log, {i \in DOMAIN log : log[i].group \notin gone})

\* The group's lines, in the order they were written.
LinesOf(log, g) == LinesAt(log, {i \in DOMAIN log : log[i].group = g})

\* What the first line of a chained log links to.
NoDigest == [group |-> 0]

\* appendLogLine: the line is written and synced, or the write stops short.
Appended(log, line) == Append(log, line)
TornAppend(log) == Append(log, Torn)
=============================================================================
