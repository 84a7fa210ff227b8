----------------------------- MODULE KeyLifecycle -----------------------------
(***************************************************************************)
(* The key lifecycle ledger (snapshot_key_lifecycle.go): administrators    *)
(* record when a signing key is activated, rotated out and revoked; every  *)
(* event is anchored on the ledger's own stream, which the export tick     *)
(* sweeps; signatures are judged by the authorization interval the ledger  *)
(* yields; and the realization view (snapshot_anchor_realization.go)       *)
(* compares what the anchors claim with what the ledger holds.             *)
(*                                                                         *)
(* A key serves one of two domains: it signs manifests, or verification    *)
(* reports.  The operator's trust files say which, and are read when the   *)
(* process starts; an event records the domain it was written under        *)
(* (snapshot_lifecycle_domain.go), and the authority of a report's signer  *)
(* is judged by the events of its own domain                               *)
(* (snapshot_verifier_authority.go).                                       *)
(*                                                                         *)
(* An event is a line [group |-> event_seq, type, key, at, role, prev];    *)
(* role is NoRole in the lines that builds without domains wrote.  The     *)
(* destruction log that accounts for a compaction answers yes or no here;  *)
(* it is modelled in DestructionLog.                                       *)
(***************************************************************************)
EXTENDS AnchorStream

CONSTANTS Writers,        \* administrators' requests in flight
          Sweeper,        \* the export tick
          Keys,
          Starts, Ends,   \* times a request may name, positive
          KeyCapacity,    \* KeyLifecycleCapacity
          MaxEvents,      \* bound: requests accepted
          MaxSweeps       \* bound: delivery sweeps

ASSUME KeyAssumption ==
  /\ Writers \subseteq Threads /\ Sweeper \in Threads
  /\ Starts \subseteq Nat \ {0} /\ Ends \subseteq Nat \ {0}
  /\ KeyCapacity \in Nat

VARIABLES klog,        \* key-lifecycle.jsonl
          op,          \* writer -> the request it works on
          anchor,      \* key -> the trust file that names it, if one does
          accounted,   \* event_seqs a completed destruction record covers
          reader,      \* what a realization view has read so far, if one is on
          accepted,    \* history: requests that passed validation
          recorded,    \* history: events that reached the ledger
          overlapped,  \* history: two requests were in the ledger's section at once
          accused,     \* history: a view reported an unrealized claim
          sweeps

kvars == <<klog, op, anchor, accounted, reader, accepted, recorded, overlapped, accused, sweeps>>
vars == <<avars, kvars>>

NoOp == [step |-> "idle"]
NotReading == <<>>
Terminal == {"rotated_out", "revoked"}
Domains == {"signing", "verifier"}
NoRole == "undeclared"
Requests == [type : {"activated"}, key : Keys, at : Starts]
            \union [type : Terminal, key : Keys, at : Ends]

\* lifecycleEventDigest; the link is left out, the rest determines it.
Digest(line) == [group |-> line.group, type |-> line.type, key |-> line.key,
                  at |-> line.at, role |-> line.role]

EventsOf(log, k) == {log[i] : i \in {j \in DOMAIN log : log[j].key = k}}

(***************************************************************************)
(* loadKeyLifecycleState: the chain and the run of sequence numbers hold.  *)
(***************************************************************************)
Verifiable(log) ==
  \A i \in 2 .. Len(log) : /\ log[i].prev = Digest(log[i - 1])
                           /\ log[i].group = log[i - 1].group + 1

(***************************************************************************)
(* authorizationFor: what a set of events says of one key.                 *)
(***************************************************************************)
Unbounded == [bounded |-> FALSE]
LatestEnd(ends) == CHOOSE t \in ends : \A u \in ends : u <= t
EarliestEnd(ends) == CHOOSE t \in ends : \A u \in ends : t <= u

Fold(events) ==
  LET starts == {e \in events : e.type = "activated"}
      ends == {e \in events : e.type \in Terminal}
  IN IF starts = {} THEN Unbounded
     ELSE [bounded |-> TRUE,
           from |-> (CHOOSE e \in starts : \A f \in starts : f.group <= e.group).at,
           until |-> IF ends = {} THEN 0 ELSE EarliestEnd({e.at : e \in ends}),
           terminal |-> IF \E e \in ends : e.type = "revoked" THEN "revoked" ELSE "rotated_out"]
Authorization(log, k) == IF Verifiable(log) THEN Fold(EventsOf(log, k)) ELSE Unbounded

\* authorizeByLifecycle on a signature that verifies, made at time t.
Judged(a, t) ==
  IF ~ a.bounded THEN "ok"
  ELSE IF t < a.from THEN "before_activation"
  ELSE IF a.until # 0 /\ t >= a.until THEN a.terminal
  ELSE "ok"
Authorize(log, k, t) == Judged(Authorization(log, k), t)

(***************************************************************************)
(* The domain of a key, of a ledger, and the events of one domain.         *)
(***************************************************************************)
\* domainOf; a role outside the two and two roles in one group are conflicts.
DomainOf(log, k) ==
  LET declared == {e \in EventsOf(log, k) : e.role \in Domains}
      clash == \E d, e \in EventsOf(log, k) : d.group = e.group /\ d.role # e.role
  IN IF clash THEN "conflict"
     ELSE IF declared = {} THEN "undeclared"
     ELSE (CHOOSE d \in declared : \A e \in declared : e.group <= d.group).role
Migrated(log, k) == \A d \in Domains : \E e \in EventsOf(log, k) : e.role = d

\* domainRows: an event without a role belongs to the verifier's view, and to
\* the signing view unless the verifier trust file names its key today.
DomainRows(log, k, want) ==
  {e \in EventsOf(log, k) :
     \/ e.role = want
     \/ e.role = NoRole /\ (want = "signing" => anchor[k] # "verifier")}

\* authorizationForDomain
AuthorizationForDomain(log, k, want) ==
  IF Verifiable(log) THEN Fold(DomainRows(log, k, want)) ELSE Unbounded

\* keyLifecycleDomainSummaryFromState: the ledger's state, the first that applies.
DomainState(log) ==
  LET keys == {log[i].key : i \in DOMAIN log} IN
    IF ~ Verifiable(log) \/ \E k \in keys : DomainOf(log, k) = "conflict" THEN "conflict"
    ELSE IF \E k \in keys : Migrated(log, k) THEN "migrated"
    ELSE IF \E k \in keys : DomainOf(log, k) \in Domains THEN "declared"
    ELSE "undeclared"

\* keyLifecycleSummaryFromState: the signing keys the roll-up lists, and the
\* ones that may be named active.
RolledUp(log) == {k \in Keys : Verifiable(log) /\ DomainRows(log, k, "signing") # {}}
Active(log) ==
  {k \in RolledUp(log) : LET a == AuthorizationForDomain(log, k, "signing")
                         IN a.bounded /\ a.until = 0}

(***************************************************************************)
(* judgeVerifierAuthoritySigner, for a signer whose usable reports were    *)
(* signed at the given times.                                              *)
(***************************************************************************)
\* loadRealizationAccounting: a completed destruction covers the event.
Accounted(seq) == seq \in accounted

\* verifierDomainAbsenceIsAssertable
AbsenceAssertable(log, k) ==
  LET first == Min({e.group : e \in EventsOf(log, k)}) IN first <= 1 \/ ~ Accounted(first - 1)

SignerVerdict(log, k, times) ==
  LET a == AuthorizationForDomain(log, k, "verifier")
      verdicts == {Judged(a, t) : t \in times}
  IN IF DomainOf(log, k) = "conflict" THEN "indeterminate"
     ELSE IF DomainRows(log, k, "verifier") = {} /\ EventsOf(log, k) # {}
          THEN IF AbsenceAssertable(log, k) THEN "domain_mismatch" ELSE "unbounded"
     ELSE IF ~ a.bounded THEN "unbounded"
     ELSE IF verdicts # {"ok"} THEN "violated"
     ELSE "authorized"

\* VerifierAuthorityStatus over the signers and the times they signed at.
AuthorityState(log, signed) ==
  LET row(k) == SignerVerdict(log, k, signed[k])
      some(v) == \E k \in DOMAIN signed : row(k) = v
  IN IF DOMAIN signed = {} THEN "nothing_assessed"
     ELSE IF ~ Classified(log) \/ ~ Verifiable(log) THEN "indeterminate"
     ELSE IF some("indeterminate") THEN "indeterminate"
     ELSE IF some("violated") THEN "violated"
     ELSE IF some("domain_mismatch") THEN "domain_mismatch"
     ELSE IF some("authorized") THEN "authorized"
     ELSE "nothing_assessed"

(***************************************************************************)
(* appendKeyLifecycleEvent                                                 *)
(***************************************************************************)
Duplicate(log, req) ==
  \E e \in EventsOf(log, req.key) :
    e.type = req.type /\ (req.type = "activated" \/ e.at = req.at)

\* validateLifecycleTransition, under the domain the trust files give the key.
NeverTwoDomains(log, req) == FALSE
TwoDomains(log, req) ==
  \E e \in EventsOf(log, req.key) : e.role # NoRole /\ e.role # anchor[req.key]
ValidTransition(log, req) ==
  LET starts == {e \in EventsOf(log, req.key) : e.type = "activated"}
      ends == {e \in EventsOf(log, req.key) : e.type \in Terminal}
  IN /\ ~ TwoDomains(log, req)
     /\ IF req.type = "activated" THEN starts = {} /\ ends = {}
        ELSE starts # {} /\ \A e \in starts : e.at <= req.at

\* The number and the link come from the line with the highest number.
HeadLink(log) ==
  IF log = <<>> THEN NoDigest
  ELSE Digest(log[CHOOSE i \in DOMAIN log : log[i].group = Max(Groups(log))])
NewEvent(log, req) ==
  [group |-> Max({0} \union Groups(log)) + 1, type |-> req.type, key |-> req.key,
   at |-> req.at, role |-> anchor[req.key], prev |-> HeadLink(log)]

\* The ledger is new, or an earlier build has written a key's activation.
OldLine(k, t) ==
  [group |-> 1, type |-> "activated", key |-> k, at |-> t, role |-> NoRole, prev |-> NoDigest]
Init == /\ AInit
        /\ klog \in {<<>>} \union {<<OldLine(k, t)>> : k \in Keys, t \in Starts}
        /\ anchor \in [Keys -> Domains] /\ accounted = {}
        /\ op = [w \in Writers |-> NoOp] /\ reader = NotReading
        /\ accepted = 0 /\ recorded = {klog[i] : i \in DOMAIN klog} /\ overlapped = FALSE
        /\ accused = FALSE /\ sweeps = 0

InSection(w) == op[w].step \in {"append", "compact", "rewrite"}

\* The ledger is read and the request validated; a refusal changes nothing.
Submit(w, req) ==
  /\ op[w] = NoOp /\ accepted < MaxEvents
  /\ anchor[req.key] \in Domains
  /\ Classified(klog) /\ ~ Duplicate(klog, req) /\ ValidTransition(klog, req)
  /\ op' = [op EXCEPT ![w] = [step |-> "append", event |-> NewEvent(klog, req)]]
  /\ accepted' = accepted + 1
  /\ overlapped' = (overlapped \/ \E v \in Writers : InSection(v))
  /\ UNCHANGED <<avars, klog, anchor, accounted, reader, recorded, accused, sweeps>>

AppendEvent(w) ==
  /\ op[w].step = "append"
  /\ klog' = Appended(klog, op[w].event)
  /\ recorded' = recorded \union {op[w].event}
  /\ op' = [op EXCEPT ![w].step = "compact"]
  /\ UNCHANGED <<avars, anchor, accounted, reader, accepted, overlapped, accused, sweeps>>

\* A short or unsynced write fails the request.
AppendEventFails(w) ==
  /\ op[w].step = "append"
  /\ faults < MaxFaults /\ faults' = faults + 1
  /\ \/ klog' = TornAppend(klog) /\ recorded' = recorded
     \/ klog' = Appended(klog, op[w].event) /\ recorded' = recorded \union {op[w].event}
  /\ op' = [op EXCEPT ![w] = NoOp]
  /\ UNCHANGED <<alog, witness, dispatch, busy, evicted, anchor, accounted, reader, accepted,
                 overlapped, accused, sweeps>>

\* compactKeyLifecyclePrefix reads the log, ...
DroppedEvents(log) == IF Classified(log) THEN DroppedGroups(log, KeyCapacity) ELSE {}
CompactNeeded(w) ==
  /\ op[w].step = "compact"
  /\ IF DroppedEvents(klog) = {}
     THEN op' = [op EXCEPT ![w] = IF Classified(klog) THEN [op[w] EXCEPT !.step = "anchor"] ELSE NoOp]
     ELSE op' = [op EXCEPT ![w] = [step |-> "rewrite", event |-> op[w].event, read |-> klog]]
  /\ UNCHANGED <<avars, klog, anchor, accounted, reader, accepted, recorded, overlapped,
                 accused, sweeps>>

\* ... records the destruction and replaces the file by what it read; the
\* record that closes the destruction may not be written.
RewriteEvents(w) ==
  /\ op[w].step = "rewrite"
  /\ LET gone == DroppedEvents(op[w].read) IN
       /\ klog' = WithoutGroups(op[w].read, gone)
       /\ accounted' \in {accounted, accounted \union gone}
  /\ op' = [op EXCEPT ![w] = [step |-> "anchor", event |-> op[w].event]]
  /\ UNCHANGED <<avars, anchor, reader, accepted, recorded, overlapped, accused, sweeps>>

\* The destruction log refuses: the event stays and is not anchored.
RewriteRefused(w) ==
  /\ op[w].step = "rewrite"
  /\ op' = [op EXCEPT ![w] = NoOp]
  /\ UNCHANGED <<avars, klog, anchor, accounted, reader, accepted, recorded, overlapped,
                 accused, sweeps>>

\* anchorKeyLifecycleEvent under keyLifecycleDispatchMu.
AnchorEvent(w) ==
  /\ op[w].step = "anchor"
  /\ OpenAnchor(w, Digest(op[w].event)) \/ OpenRefused
  /\ op' = [op EXCEPT ![w] = [step |-> "anchoring"]]
  /\ UNCHANGED <<klog, anchor, accounted, reader, accepted, recorded, overlapped, accused,
                 sweeps>>

Answer(w) ==
  /\ op[w].step = "anchoring" /\ busy[w] = Idle
  /\ op' = [op EXCEPT ![w] = NoOp]
  /\ UNCHANGED <<avars, klog, anchor, accounted, reader, accepted, recorded, overlapped,
                 accused, sweeps>>

Sweep ==
  /\ sweeps < MaxSweeps /\ sweeps' = sweeps + 1
  /\ SweepOpen(Sweeper) \/ SweepSkipped
  /\ UNCHANGED <<klog, op, anchor, accounted, reader, accepted, recorded, overlapped, accused>>

Stream == /\ \E t \in Threads : AnchorStep(t)
          /\ UNCHANGED kvars

(***************************************************************************)
(* AnchorRealizationStatus for this family: the anchors are read first,    *)
(* the ledger afterwards, while everybody else goes on.                    *)
(***************************************************************************)
\* What the anchor stream claims: the facts it holds, or that it cannot be judged.
Claims(anchors) ==
  IF ~ Classified(anchors) THEN {Torn}
  ELSE IF Conflicts(anchors) # {} THEN {Torn}
  ELSE {Latest(anchors, s).fact : s \in Seqs(anchors)}

\* realizationClaimFieldsMatch: the event the anchor names is the one it claims.
Realizes(line, claim) == Digest(line) = claim

\* realizeFamily
Realization(claims, log) ==
  IF Torn \in claims THEN "indeterminate"
  ELSE IF claims = {} THEN "nothing_assessed"
  ELSE IF ~ Classified(log) THEN "indeterminate"
  ELSE IF ~ Verifiable(log) THEN "indeterminate"
  ELSE LET judged == {c \in claims : log = <<>> \/ c.group >= Min(Groups(log))} IN
         IF \E c \in judged : \A i \in DOMAIN log : ~ Realizes(log[i], c) THEN "unrealized"
         ELSE IF judged # {} THEN "realized"
         ELSE "nothing_assessed"

ReadLedgerFirst == [first |-> "ledger", held |-> klog]
ReadAnchorsFirst == [first |-> "anchors", held |-> Claims(alog)]

ViewFirst ==
  /\ reader = NotReading /\ alog # <<>>
  /\ reader' = ReadAnchorsFirst
  /\ UNCHANGED <<avars, klog, op, anchor, accounted, accepted, recorded, overlapped, accused,
                 sweeps>>

ViewSecond ==
  /\ reader # NotReading
  /\ reader' = NotReading
  /\ accused' = (accused \/ "unrealized" =
       IF reader.first = "anchors" THEN Realization(reader.held, klog)
                                   ELSE Realization(Claims(alog), reader.held))
  /\ UNCHANGED <<avars, klog, op, anchor, accounted, accepted, recorded, overlapped, sweeps>>

\* The process stops, and starts on the trust files it then finds.
Crash ==
  /\ faults < MaxFaults /\ faults' = faults + 1
  /\ ACrash
  /\ op' = [w \in Writers |-> NoOp] /\ reader' = NotReading
  /\ anchor' \in [Keys -> Domains \union {"none"}]
  /\ UNCHANGED <<klog, accounted, accepted, recorded, overlapped, accused, sweeps>>

Next ==
  \/ \E w \in Writers : \/ \E req \in Requests : Submit(w, req)
                        \/ AppendEvent(w) \/ AppendEventFails(w) \/ CompactNeeded(w)
                        \/ RewriteEvents(w) \/ RewriteRefused(w) \/ AnchorEvent(w) \/ Answer(w)
  \/ Sweep \/ Stream \/ ViewFirst \/ ViewSecond \/ Crash

Spec == Init /\ [][Next]_vars

-----------------------------------------------------------------------------
\* The ledger stays verifiable through compactions, crashes and unsynced
\* writes, unless two requests were in its section at once or a line was
\* written short (appendKeyLifecycleEvent, loadKeyLifecycleState).
LedgerVerifiable == Classified(klog) /\ ~ overlapped => Verifiable(klog)

Declared(log, k) == \A e \in EventsOf(log, k) : e.role # NoRole
Retained(k) == \A e \in recorded : e.key = k => \E i \in DOMAIN klog : klog[i] = e

\* A recorded end of a key's authorization is enforced from then on, whatever
\* is recorded later and whichever domain the key is moved to: no manifest
\* signed at or after it passes, and no report signed then is authorized,
\* unless an event of the key was compacted away or the ledger was torn or
\* forked; for reports, unless an event of the key declares no domain
\* (authorizationFor, authorizeByLifecycle, judgeVerifierAuthoritySigner).
EndsEnforced ==
  Classified(klog) /\ ~ overlapped =>
    \A e \in recorded :
      e.type \in Terminal /\ Retained(e.key) =>
        \A t \in Ends : t >= e.at =>
          /\ Authorize(klog, e.key, t) # "ok"
          /\ Declared(klog, e.key) => AuthorityState(klog, [k \in {e.key} |-> {t}]) # "authorized"

\* No key is judged by another domain's window.  Moving a key between the
\* trust files, at whatever point of its history, never leaves a ledger in
\* which the manifest verdict, which folds every event of a key, differs from
\* the fold of the key's own domain; and the ledger of one process after
\* another is never in conflict with itself, nor names a verifier's key as the
\* active signing key; unless a line was written short or two requests were in
\* the ledger's section at once (validateLifecycleTransition,
\* authorizationFor, authorizationForDomain, keyLifecycleDomainSummaryFromState).
DomainsNeverMixed ==
  Classified(klog) /\ ~ overlapped =>
    /\ DomainState(klog) \notin {"conflict", "migrated"}
    /\ \A k \in Keys : Declared(klog, k) =>
         /\ DomainOf(klog, k) \in Domains =>
              Authorization(klog, k) = AuthorizationForDomain(klog, k, DomainOf(klog, k))
         /\ k \in Active(klog) => DomainOf(klog, k) = "signing"

\* The realization view never accuses an honest system: an event is in the
\* ledger before it is anchored, and the view reads the anchors before the
\* ledger, so no interleaving makes a claim look unrealized
\* (AnchorRealizationStatus, realizeFamily, AppendKeyLifecycleEvent).
NeverAccused == accused => overlapped

\* Two dispatchers of a stream never spend one anchor_seq on two facts: the
\* sequence read and the append are under the stream's mutex
\* (nextAnchorSeqPath, keyLifecycleDispatchMu).
OneFactPerSeq == evicted = {} => ~ Ambiguous /\ (Classified(alog) => Conflicts(alog) = {})

\* The key ledger and its anchor stream both stay free of forks
\* (appendKeyLifecycleEvent, nextAnchorSeqPath).
NoForks == LedgerVerifiable /\ OneFactPerSeq
=============================================================================
