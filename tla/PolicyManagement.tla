-------------------------- MODULE PolicyManagement --------------------------
(***************************************************************************)
(* The management API of internal/management on the policy repository of   *)
(* internal/governancepolicy.  A request that changes a policy writes an   *)
(* audit intent, makes one compare-and-set call on the repository and      *)
(* writes an audit outcome.  The repository and the audit trail are two    *)
(* stores without a common transaction: requests interleave between these  *)
(* steps, each step may fail and the process may crash between them.  The  *)
(* reconciler scans the trail for intents without an outcome.              *)
(*                                                                         *)
(* The repository holds its mutex during a call and replaces the file of a *)
(* policy by a rename, so a call is one step.                              *)
(***************************************************************************)
EXTENDS Integers, Sequences, FiniteSets

CONSTANTS
  Ops,          \* goroutines that serve mutation requests
  Policies,     \* policy identifiers
  Contents,     \* the rules of a policy, after normalizeRules
  NoRules,      \* the rules of a policy that does not exist
  Keys,         \* values of the Idempotency-Key header
  NoKey,        \* the header is absent
  ScanCap,      \* scanCap
  TailDepth,    \* correlationTailDepth, also the depth of the replay guard
  RingCap,      \* defaultScanHistoryCap
  MaxRequests,  \* bound on the requests
  MaxScans,     \* bound on the scans
  MaxFaults     \* bound on the failed store accesses and crashes

ASSUME PolicyConstants ==
  /\ NoRules \notin Contents
  /\ NoKey \notin Keys
  /\ ScanCap \in Nat \ {0}
  /\ TailDepth \in Nat \ {0}
  /\ RingCap \in Nat \ {0}
  /\ MaxRequests \in Nat
  /\ MaxScans \in Nat
  /\ MaxFaults \in Nat

VARIABLES
  store,     \* the policy files of the repository
  trail,     \* the audit rows of the surface, oldest first
  pc,        \* what each goroutine does next
  req,       \* the request it serves
  res,       \* what the repository answered: [kind, rev]
  scan,      \* the scan that is running; its window is the places of rows to examine
  ring,      \* the scan history: [len, truncated]
  scans,     \* scans started so far
  requests,  \* requests received so far; the last one's identity
  faults,    \* failed store accesses and crashes so far
  versions,  \* history: every version of a policy ever stored
  answers    \* history: what the callers were told

vars == <<store, trail, pc, req, res, scan, ring, scans, requests, faults,
          versions, answers>>
reqVars == <<pc, req, res, requests>>
scanVars == <<scan, ring, scans>>

Targets == {"draft", "active", "archived"}
Statuses == Targets \cup {"none"}
Verbs == Targets \cup {"create", "update"}
Records == [rev : Nat, status : Statuses, rules : Contents \cup {NoRules}]
NoRecord == [rev |-> 0, status |-> "none", rules |-> NoRules]
Exists(rec) == rec.status # "none"

\* A caller's key is the correlation id of its rows; without one the id is new.
Corr(key, n) == IF key = NoKey THEN <<"generated", n>> ELSE <<"key", key>>
Corrs == ({"generated"} \X Nat) \cup ({"key"} \X Keys)

Requests == [verb : Verbs, pol : Policies, expected : Nat,
             rules : Contents \cup {NoRules}, corr : Corrs, by : Nat]
Rows == [corr : Corrs, pol : Policies, result : {"intent", "success", "failure"},
         rev : Int, by : Nat]
Idle == [pc |-> "idle", window |-> {}, status |-> "verified", entries |-> {}, upto |-> 0]
NoRequest(p) == [verb |-> "create", pol |-> p, expected |-> 0, rules |-> NoRules,
                 corr |-> <<"generated", 0>>, by |-> 0]
NoResult == [kind |-> "none", rev |-> 0]
Pcs == {"idle", "intent", "commit", "conflict", "observe", "outcome"}

\* What an earlier run of the process may have left of a policy.
InitialRecords ==
  {NoRecord} \cup [rev : {1}, status : {"draft"}, rules : Contents]

InitialVersion(p) ==
  [pol |-> p, rev |-> store[p].rev, status |-> store[p].status, rules |-> store[p].rules,
   from |-> store[p].rev - 1, by |-> 0]

Init ==
  /\ store \in [Policies -> InitialRecords]
  /\ trail = <<>>
  /\ pc = [o \in Ops |-> "idle"]
  /\ req \in [Ops -> {NoRequest(p) : p \in Policies}]
  /\ res = [o \in Ops |-> NoResult]
  /\ scan = Idle
  /\ ring = [len |-> 0, truncated |-> FALSE]
  /\ scans = 0
  /\ requests = 0
  /\ faults = 0
  /\ versions = {InitialVersion(p) : p \in {q \in Policies : Exists(store[q])}}
  /\ answers = {}

-----------------------------------------------------------------------------
(* The audit trail.                                                        *)

\* An access to a store succeeds, or fails and leaves the store as it is.
Works == UNCHANGED faults
Fails == faults < MaxFaults /\ faults' = faults + 1

Newest(rows, n) == SubSeq(rows, IF Len(rows) > n THEN Len(rows) - n + 1 ELSE 1, Len(rows))
CorrelationTail(corr) == Newest(SelectSeq(trail, LAMBDA e : e.corr = corr), TailDepth)

HasTerminalOutcome(rows) == \E i \in DOMAIN rows : rows[i].result \in {"success", "failure"}

Row(o, result, rev) ==
  [corr |-> req[o].corr, pol |-> req[o].pol, result |-> result, rev |-> rev, by |-> req[o].by]

-----------------------------------------------------------------------------
(* The repository's two revision-aware calls, on the stored record cur.    *)

Rec(rev, status, rules) == [rev |-> rev, status |-> status, rules |-> rules]
Refused(kind, cur) == [kind |-> kind, rec |-> cur]
Stored(rec) == [kind |-> "ok", rec |-> rec]

\* CompareAndSave: a create needs the policy to be absent, an update needs its
\* revision and a draft.
CompareAndSave(cur, rules, expected) ==
  IF expected = 0
    THEN IF Exists(cur) THEN Refused("conflict", cur)
         ELSE Stored(Rec(1, "draft", rules))
  ELSE IF ~Exists(cur) THEN Refused("refused", cur)
  ELSE IF cur.rev # expected THEN Refused("conflict", cur)
  ELSE IF cur.status # "draft" THEN Refused("refused", cur)
  ELSE Stored(Rec(cur.rev + 1, "draft", rules))

\* admittedTransitions: an archived policy has no way out.
AdmittedTransitions ==
  {<<"draft", "active">>, <<"draft", "archived">>, <<"active", "draft">>, <<"active", "archived">>}

TransitionKeepsRevision(cur, target, expected) ==
  IF ~Exists(cur) THEN Refused("refused", cur)
  ELSE IF cur.rev # expected THEN Refused("conflict", cur)
  ELSE IF cur.status = target THEN Stored(cur)
  ELSE IF <<cur.status, target>> \notin AdmittedTransitions THEN Refused("refused", cur)
  ELSE Stored(Rec(cur.rev, target, cur.rules))

\* CompareAndTransition: the revision is compared first; a policy that already
\* has the status keeps its revision.
CompareAndTransition(cur, target, expected) ==
  IF ~Exists(cur) THEN Refused("refused", cur)
  ELSE IF cur.rev # expected THEN Refused("conflict", cur)
  ELSE IF cur.status = target THEN Stored(cur)
  ELSE IF <<cur.status, target>> \notin AdmittedTransitions THEN Refused("refused", cur)
  ELSE Stored(Rec(cur.rev + 1, target, cur.rules))

Call(r) ==
  IF r.verb \in Targets THEN CompareAndTransition(store[r.pol], r.verb, r.expected)
  ELSE CompareAndSave(store[r.pol], r.rules, r.expected)

-----------------------------------------------------------------------------
(* serveMutation, one step per access to a store.                          *)

Goto(o, l) == pc' = [pc EXCEPT ![o] = l]

\* The request's identity is new; a create carries expected 0, the others an
\* If-Match revision of at least 1, lifecycle requests no rules.
WellFormed(verb, expected, rules) ==
  /\ (verb = "create") <=> (expected = 0)
  /\ (verb \in Targets) <=> (rules = NoRules)

\* The replay guard answers 409 when the tail of the key has an outcome; its
\* read error is ignored.  A rejected request changes nothing.
Begin(o, verb, p, expected, rules, key) ==
  /\ pc[o] = "idle"
  /\ requests < MaxRequests
  /\ WellFormed(verb, expected, rules)
  /\ \/ Works /\ (key # NoKey => ~HasTerminalOutcome(CorrelationTail(<<"key", key>>)))
     \/ Fails /\ key # NoKey
  /\ requests' = requests + 1
  /\ req' = [req EXCEPT ![o] = [verb |-> verb, pol |-> p, expected |-> expected, rules |-> rules,
                                corr |-> Corr(key, requests + 1), by |-> requests + 1]]
  /\ Goto(o, "intent")
  /\ UNCHANGED <<store, trail, res, scanVars, versions, answers>>

Answer(o, said, rev) ==
  /\ answers' = answers \cup {[said |-> said, rev |-> rev, req |-> req[o]]}
  /\ Goto(o, "idle")
  /\ req' = [req EXCEPT ![o] = NoRequest(@.pol)]
  /\ res' = [res EXCEPT ![o] = NoResult]

\* Without a durable intent the mutation is not attempted.
Intent(o) ==
  /\ pc[o] = "intent"
  /\ \/ /\ Works
        /\ trail' = Append(trail, Row(o, "intent", req[o].expected))
        /\ Goto(o, "commit")
        /\ UNCHANGED <<req, res, answers>>
     \/ /\ Fails
        /\ Answer(o, "notAttempted", 0)
        /\ UNCHANGED trail
  /\ UNCHANGED <<store, requests, scanVars, versions>>

Version(o, rec) ==
  [pol |-> req[o].pol, rev |-> rec.rev, status |-> rec.status, rules |-> rec.rules,
   from |-> req[o].expected, by |-> req[o].by]

\* The only mutation: one call of the repository.  Its read or its write may
\* fail, which leaves the file as it was.
Commit(o) ==
  LET p == req[o].pol
      c == Call(req[o])
  IN  /\ pc[o] = "commit"
      /\ \/ /\ Works
            /\ store' = [store EXCEPT ![p] = c.rec]
            /\ versions' = IF c.rec = store[p] THEN versions
                           ELSE versions \cup {Version(o, c.rec)}
            /\ res' = [res EXCEPT ![o] = [kind |-> c.kind, rev |-> c.rec.rev]]
            /\ Goto(o, IF c.kind = "ok" THEN "outcome"
                       ELSE IF c.kind = "conflict" /\ req[o].verb = "create" THEN "conflict"
                       ELSE "observe")
         \/ /\ Fails
            /\ res' = [res EXCEPT ![o] = [kind |-> "refused", rev |-> 0]]
            /\ Goto(o, "observe")
            /\ UNCHANGED <<store, versions>>
      /\ UNCHANGED <<trail, req, requests, scanVars, answers>>

OnConflictAnyContent(o) ==
  LET cur == store[req[o].pol]
  IN  /\ pc[o] = "conflict"
      /\ Works
      /\ res' = [res EXCEPT ![o] = [kind |-> "ok", rev |-> cur.rev]]
      /\ Goto(o, "outcome")
      /\ UNCHANGED <<store, trail, req, requests, scanVars, versions, answers>>

\* A refused create reads the policy: the same content is a replay and answered
\* as a success, everything else stays refused.
OnConflict(o) ==
  LET cur == store[req[o].pol]
      replay == Exists(cur) /\ cur.rules = req[o].rules
  IN  /\ pc[o] = "conflict"
      /\ \/ /\ Works /\ replay
            /\ res' = [res EXCEPT ![o] = [kind |-> "ok", rev |-> cur.rev]]
            /\ Goto(o, "outcome")
         \/ /\ (Works /\ ~replay) \/ Fails
            /\ Goto(o, "observe")
            /\ UNCHANGED res
      /\ UNCHANGED <<store, trail, req, requests, scanVars, versions, answers>>

\* The revision of the failure row is read from the repository, if it can be.
ObserveRevision(o) ==
  LET cur == store[req[o].pol]
  IN  /\ pc[o] = "observe"
      /\ \/ /\ Works
            /\ res' = [res EXCEPT ![o].rev = IF Exists(cur) THEN cur.rev ELSE -1]
         \/ /\ Fails
            /\ res' = [res EXCEPT ![o].rev = -1]
      /\ Goto(o, "outcome")
      /\ UNCHANGED <<store, trail, req, requests, scanVars, versions, answers>>

\* The outcome row.  When it cannot be written the caller is told so, and
\* whether the mutation stands.
Outcome(o) ==
  LET ok == res[o].kind = "ok"
  IN  /\ pc[o] = "outcome"
      /\ \/ /\ Works
            /\ trail' = Append(trail, Row(o, IF ok THEN "success" ELSE "failure", res[o].rev))
            /\ Answer(o, IF ok THEN "success" ELSE "failure", res[o].rev)
         \/ /\ Fails
            /\ Answer(o, IF ok THEN "degradedApplied" ELSE "degradedNotApplied", res[o].rev)
            /\ UNCHANGED trail
      /\ UNCHANGED <<store, requests, scanVars, versions>>

-----------------------------------------------------------------------------
(* The reconciler.  One scan at a time is enough: a scan reads only.       *)

IsIntent(e) == e.result = "intent"

NeverTruncated(rows) == FALSE

\* Rows the scan did not read are known to exist because it asks for one more
\* than it examines.
Truncated(rows) == Len(rows) > ScanCap

ScanStart ==
  /\ scan.pc = "idle"
  /\ scans < MaxScans
  /\ scans' = scans + 1
  /\ scan' = [pc |-> "classify",
              window |-> {i \in DOMAIN trail : i > Len(trail) - ScanCap /\ IsIntent(trail[i])},
              status |-> IF Truncated(trail) THEN "truncated" ELSE "verified",
              entries |-> {},
              upto |-> Len(trail)]
  /\ UNCHANGED <<store, trail, reqVars, ring, faults, versions, answers>>

\* The trail cannot be read: an answer of "unknown", kept nowhere.
ScanUnknown ==
  /\ scan.pc = "idle"
  /\ Fails
  /\ UNCHANGED <<store, trail, reqVars, scanVars, versions, answers>>

\* classifyIntent of the newest intent of the window that is left.  A record
\* is never removed, so the repository may be read in the same step.
NewestOf(places) == CHOOSE i \in places : \A j \in places : j <= i
ClassifyIntent ==
  LET i == NewestOf(scan.window)
      e == trail[i]
      found(status) ==
        scan' = [pc |-> "classify", window |-> scan.window \ {i}, status |-> scan.status,
                 entries |-> scan.entries \cup {[by |-> e.by, status |-> status]},
                 upto |-> scan.upto]
      closed == HasTerminalOutcome(CorrelationTail(e.corr))
  IN  /\ scan.pc = "classify"
      /\ scan.window # {}
      /\ \/ Works /\ found(IF closed THEN "closed"
                           ELSE IF Exists(store[e.pol]) THEN "unresolved" ELSE "no_match")
         \/ Fails /\ found("unexaminable")
         \/ Fails /\ ~closed /\ found("no_match")
      /\ UNCHANGED <<store, trail, reqVars, ring, scans, versions, answers>>

\* The report is answered and pushed on the bounded ring of the scan history.
ScanEnd ==
  /\ scan.pc = "classify"
  /\ scan.window = {}
  /\ ring' = IF ring.len = RingCap THEN [ring EXCEPT !.truncated = TRUE]
             ELSE [ring EXCEPT !.len = @ + 1]
  /\ scan' = Idle
  /\ UNCHANGED <<store, trail, reqVars, scans, faults, versions, answers>>

-----------------------------------------------------------------------------

\* The process stops; the repository and the trail stay.
Crash ==
  /\ Fails
  /\ pc' = [o \in Ops |-> "idle"]
  /\ req' = [o \in Ops |-> NoRequest(req[o].pol)]
  /\ res' = [o \in Ops |-> NoResult]
  /\ scan' = Idle
  /\ ring' = [len |-> 0, truncated |-> FALSE]
  /\ UNCHANGED <<store, trail, scans, requests, versions, answers>>

Serve(o) ==
  Intent(o) \/ Commit(o) \/ OnConflict(o) \/ ObserveRevision(o) \/ Outcome(o)

\* A caller names a revision it has read, perhaps long ago.
KnownRevisions == {0} \cup {v.rev : v \in versions}

Next ==
  \/ \E o \in Ops, v \in Verbs, p \in Policies, n \in KnownRevisions,
        c \in Contents \cup {NoRules}, k \in Keys \cup {NoKey} : Begin(o, v, p, n, c, k)
  \/ \E o \in Ops : Serve(o)
  \/ ScanStart \/ ScanUnknown \/ ClassifyIntent \/ ScanEnd
  \/ Crash

Spec == Init /\ [][Next]_vars

-----------------------------------------------------------------------------
(* Properties.                                                             *)

\* Every variable holds a value of the type the code declares for it; a stored
\* policy has a revision, and the scan history stays within its ring.
TypeOK ==
  /\ store \in [Policies -> Records]
  /\ \A p \in Policies : Exists(store[p]) <=> store[p].rev > 0
  /\ trail \in Seq(Rows)
  /\ pc \in [Ops -> Pcs]
  /\ req \in [Ops -> Requests]
  /\ res \in [Ops -> [kind : {"none", "ok", "conflict", "refused"}, rev : Int]]
  /\ scan.pc \in {"idle", "classify"} /\ scan.window \subseteq DOMAIN trail
  /\ ring.len \in 0..RingCap
  /\ scans \in Nat /\ requests \in Nat /\ faults \in Nat

\* No update is lost: one revision of a policy is the work of one request, and
\* that request had named the revision before it (repository.go CompareAndSave
\* and CompareAndTransition: comparison, change and increment are one).
NoLostUpdate ==
  /\ \A v, w \in versions : v.pol = w.pol /\ v.rev = w.rev => v = w
  /\ \A v \in versions : v.rev = v.from + 1

\* A policy changes its rules only as a draft, and once archived nothing of it
\* changes any more (repository.go CompareAndSave, admittedTransitions).
LifecycleRespected ==
  [][\A p \in Policies :
       /\ store[p].status = "archived" => store'[p] = store[p]
       /\ store'[p].rules # store[p].rules => store[p].status \in {"none", "draft"}
                                              /\ store'[p].status = "draft"]_vars

\* Every version a request stored has its intent in the trail, whatever failed
\* or crashed afterwards (server.go serveMutation, step 1).
ChangeHasIntent ==
  \A v \in versions : v.by > 0 =>
    \E i \in DOMAIN trail : trail[i].by = v.by /\ trail[i].result = "intent"

\* What the caller was told is true.  A success or "WAS applied" names a version
\* of the policy that has what the request asked for; after any other answer no
\* version is the request's work (server.go finishSuccess, finishFailure,
\* degraded).
AnswersTrue ==
  \A a \in answers :
    IF a.said \in {"success", "degradedApplied"}
      THEN \E v \in versions :
             /\ v.pol = a.req.pol /\ v.rev = a.rev
             /\ IF a.req.verb \in Targets THEN v.status = a.req.verb ELSE v.rules = a.req.rules
      ELSE \A v \in versions : v.by # a.req.by

\* A scan that has run through its window and says "verified" has an entry for
\* every intent that was in the trail when it began (reconcile.go Scan: the cap
\* is never reached silently and no row is skipped).
VerifiedIsComplete ==
  scan.status = "verified" /\ scan.window = {} =>
    \A i \in 1..scan.upto :
      trail[i].result = "intent" => \E e \in scan.entries : e.by = trail[i].by
=============================================================================
