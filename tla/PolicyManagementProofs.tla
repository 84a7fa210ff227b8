----------------------- MODULE PolicyManagementProofs -----------------------
(***************************************************************************)
(* Proofs about PolicyManagement for any number of requests, policies,     *)
(* keys, failures and crashes.                                             *)
(***************************************************************************)
EXTENDS PolicyManagement, TLAPS

Versions == [pol : Policies, rev : Nat, status : Statuses, rules : Contents \cup {NoRules},
             from : Int, by : Nat]

Results == [kind : {"none", "ok", "conflict", "refused"}, rev : Int]

\* The types of what the arguments below are about.
Typed ==
  /\ store \in [Policies -> Records]
  /\ \A p \in Policies : Exists(store[p]) <=> store[p].rev > 0
  /\ trail \in Seq(Rows)
  /\ pc \in [Ops -> Pcs]
  /\ req \in [Ops -> Requests]
  /\ res \in [Ops -> Results]
  /\ requests \in Nat
  /\ versions \in SUBSET Versions

\* What is stored is the newest version.
HeadInv ==
  /\ \A p \in Policies : Exists(store[p]) =>
       \E v \in versions : v.pol = p /\ v.rev = store[p].rev
                           /\ v.status = store[p].status /\ v.rules = store[p].rules
  /\ \A v \in versions : v.rev <= store[v.pol].rev

Attempting == {"commit", "conflict", "observe", "outcome"}

\* A request that reached the repository has its intent in the trail.
IntentInv ==
  \A o \in Ops : pc[o] \in Attempting =>
    \E i \in DOMAIN trail : trail[i].by = req[o].by /\ trail[i].result = "intent"

\* A request in flight is told apart from every other one, past or present.
FreshInv ==
  /\ \A o \in Ops : pc[o] # "idle" => req[o].by \in 1..requests
  /\ \A o, x \in Ops : o # x /\ pc[o] # "idle" /\ pc[x] # "idle" => req[o].by # req[x].by
  /\ \A a \in answers : a.req.by \in 1..requests
  /\ \A a \in answers, o \in Ops : pc[o] # "idle" => a.req.by # req[o].by
  /\ \A v \in versions : v.by <= requests

\* The refused requests that are on their way to an answer.
KindInv ==
  \A o \in Ops :
    /\ pc[o] = "conflict" => res[o].kind = "conflict" /\ req[o].verb = "create"
    /\ pc[o] = "observe" => res[o].kind # "ok"

\* Whether a request in flight has made a version.
Unapplied(o) ==
  \/ pc[o] \in {"intent", "commit", "conflict", "observe"}
  \/ pc[o] = "outcome" /\ res[o].kind # "ok"

\* A version that has what request r asked for.
Satisfies(v, r, rev) ==
  /\ v.pol = r.pol /\ v.rev = rev
  /\ IF r.verb \in Targets THEN v.status = r.verb ELSE v.rules = r.rules

EffectInv ==
  \A o \in Ops :
    /\ Unapplied(o) => \A v \in versions : v.by # req[o].by
    /\ pc[o] = "outcome" /\ res[o].kind = "ok" =>
         \E v \in versions : Satisfies(v, req[o], res[o].rev)

IInv == /\ Typed /\ HeadInv /\ IntentInv /\ FreshInv /\ KindInv /\ EffectInv
        /\ NoLostUpdate /\ ChangeHasIntent /\ AnswersTrue

-----------------------------------------------------------------------------

\* What a call of the repository answers: a record that differs from the stored
\* one is its next revision, made from the revision the caller expected and
\* holding what the caller asked for.
LEMMA CallFacts ==
  ASSUME Typed, NEW o \in Ops
  PROVE  LET c == Call(req[o])
             cur == store[req[o].pol]
         IN  /\ c.rec \in Records
             /\ Exists(c.rec) <=> c.rec.rev > 0
             /\ c.kind \in {"ok", "conflict", "refused"}
             /\ c.rec # cur => /\ c.kind = "ok"
                               /\ c.rec.rev = cur.rev + 1
                               /\ c.rec.rev = req[o].expected + 1
             /\ c.kind = "ok" =>
                  /\ Exists(c.rec)
                  /\ IF req[o].verb \in Targets THEN c.rec.status = req[o].verb
                     ELSE c.rec.rules = req[o].rules
             /\ cur.status = "archived" => c.rec = cur
             /\ c.rec.rules # cur.rules => /\ cur.status \in {"none", "draft"}
                                           /\ c.rec.status = "draft"
<1> DEFINE cur == store[req[o].pol]
<1>1. /\ req[o] \in Requests /\ req[o].pol \in Policies /\ req[o].expected \in Nat
      /\ req[o].rules \in Contents \cup {NoRules}
      /\ cur \in Records /\ (Exists(cur) <=> cur.rev > 0)
    BY DEF Typed, Requests
<1>2. CASE req[o].verb \in Targets
  <2> DEFINE target == req[o].verb
             new == Rec(cur.rev + 1, target, cur.rules)
  <2>1. new \in Records /\ new.status = target /\ new.rev = cur.rev + 1 /\ new.rules = cur.rules
    BY <1>1, <1>2 DEF Records, Statuses, Targets, Rec
  <2>2. CASE ~Exists(cur) \/ cur.rev # req[o].expected
                \/ (cur.status # target /\ <<cur.status, target>> \notin AdmittedTransitions)
    <3>1. Call(req[o]).rec = cur /\ Call(req[o]).kind \in {"conflict", "refused"}
      BY <1>2, <2>2 DEF Call, CompareAndTransition, Refused
    <3> QED BY <3>1, <1>1
  <2>3. CASE Exists(cur) /\ cur.rev = req[o].expected /\ cur.status = target
    <3>1. Call(req[o]) = Stored(cur)
      BY <1>2, <2>3 DEF Call, CompareAndTransition
    <3> QED BY <3>1, <1>1, <1>2, <2>3 DEF Stored
  <2>4. CASE /\ Exists(cur) /\ cur.rev = req[o].expected /\ cur.status # target
             /\ <<cur.status, target>> \in AdmittedTransitions
    <3>1. Call(req[o]) = Stored(new)
      BY <1>2, <2>4 DEF Call, CompareAndTransition
    <3>2. cur.status \in {"draft", "active"}
      BY <2>4 DEF AdmittedTransitions
    <3>3. Exists(new) /\ new.rev > 0
      BY <1>1, <1>2, <2>1, <2>4 DEF Exists, Targets, Records
    <3> QED BY <3>1, <3>2, <3>3, <1>1, <1>2, <2>1, <2>4 DEF Stored
  <2> QED BY <2>2, <2>3, <2>4
<1>3. CASE req[o].verb \notin Targets
  <2> DEFINE created == Rec(1, "draft", req[o].rules)
             updated == Rec(cur.rev + 1, "draft", req[o].rules)
  <2>1. /\ created \in Records
        /\ updated \in Records /\ updated.rev = cur.rev + 1 /\ updated.status = "draft"
        /\ updated.rules = req[o].rules
    BY <1>1 DEF Records, Statuses, Targets, Rec
  <2>2. CASE \/ req[o].expected = 0 /\ Exists(cur)
             \/ req[o].expected # 0 /\ (~Exists(cur) \/ cur.rev # req[o].expected
                                          \/ cur.status # "draft")
    <3>1. Call(req[o]).rec = cur /\ Call(req[o]).kind \in {"conflict", "refused"}
      BY <1>3, <2>2 DEF Call, CompareAndSave, Refused
    <3> QED BY <3>1, <1>1
  <2>3. CASE req[o].expected = 0 /\ ~Exists(cur)
    <3>1. Call(req[o]) = Stored(created)
      BY <1>3, <2>3 DEF Call, CompareAndSave
    <3>2. cur.rev = 0 /\ cur.status = "none"
      BY <1>1, <2>3 DEF Exists, Records
    <3> QED BY <3>1, <3>2, <1>1, <1>3, <2>1, <2>3 DEF Stored, Exists
  <2>4. CASE req[o].expected # 0 /\ Exists(cur) /\ cur.rev = req[o].expected /\ cur.status = "draft"
    <3>1. Call(req[o]) = Stored(updated)
      BY <1>3, <2>4 DEF Call, CompareAndSave
    <3> QED BY <3>1, <1>1, <1>3, <2>1, <2>4 DEF Stored, Exists, Records
  <2> QED BY <2>2, <2>3, <2>4
<1> QED BY <1>2, <1>3

core == <<store, trail, pc, req, res, requests, versions, answers>>

\* The steps of the reconciler touch nothing of this.
LEMMA NextCases ==
  ASSUME [Next]_vars
  PROVE  \/ UNCHANGED core
         \/ \E o \in Ops, v \in Verbs, p \in Policies, n \in KnownRevisions,
               c \in Contents \cup {NoRules}, k \in Keys \cup {NoKey} : Begin(o, v, p, n, c, k)
         \/ \E o \in Ops : Serve(o)
         \/ Crash
<1>1. CASE ScanStart
    BY <1>1 DEF ScanStart, core, reqVars
<1>2. CASE ScanUnknown
    BY <1>2 DEF ScanUnknown, core, reqVars
<1>3. CASE ClassifyIntent
    BY <1>3 DEF ClassifyIntent, core, reqVars
<1>4. CASE ScanEnd
    BY <1>4 DEF ScanEnd, core, reqVars
<1>5. CASE UNCHANGED vars
    BY <1>5 DEF vars, core
<1> QED BY <1>1, <1>2, <1>3, <1>4, <1>5 DEF Next

\* Every step keeps the types.
LEMMA TypeStep ==
  Typed /\ [Next]_vars => Typed'
<1> SUFFICES ASSUME Typed, [Next]_vars PROVE Typed'
    OBVIOUS
<1>1. CASE UNCHANGED core
    BY <1>1 DEF Typed, core
<1>2. ASSUME NEW o \in Ops, NEW v \in Verbs, NEW p \in Policies, NEW n \in KnownRevisions,
             NEW c \in Contents \cup {NoRules}, NEW k \in Keys \cup {NoKey},
             Begin(o, v, p, n, c, k)
      PROVE  Typed'
  <2>1. n \in Nat
    BY DEF KnownRevisions, Typed, Versions
  <2>2. Corr(k, requests + 1) \in Corrs
    BY DEF Corr, Corrs, Typed
  <2>3. req' \in [Ops -> Requests]
    BY <1>2, <2>1, <2>2 DEF Begin, Requests, Typed
  <2>4. pc' \in [Ops -> Pcs]
    BY <1>2 DEF Begin, Goto, Typed, Pcs
  <2> QED BY <1>2, <2>3, <2>4 DEF Begin, Typed, scanVars
<1>3. ASSUME NEW o \in Ops, Intent(o)
      PROVE  Typed'
  <2>1. Row(o, "intent", req[o].expected) \in Rows
    BY DEF Row, Rows, Requests, Typed
  <2>2. trail' \in Seq(Rows)
    <3>1. Append(trail, Row(o, "intent", req[o].expected)) \in Seq(Rows)
      BY <2>1 DEF Typed
    <3> QED BY <1>3, <3>1 DEF Intent, Typed
  <2>3. pc' \in [Ops -> Pcs]
    BY <1>3 DEF Intent, Answer, Goto, Typed, Pcs
  <2>4. NoRequest(req[o].pol) \in Requests
    BY DEF NoRequest, Requests, Verbs, Corrs, Typed
  <2>5. req' \in [Ops -> Requests]
    BY <1>3, <2>4 DEF Intent, Answer, Typed
  <2>6. res' \in [Ops -> Results]
    <3>1. NoResult \in Results
      BY DEF NoResult, Results
    <3> QED BY <1>3, <3>1 DEF Intent, Answer, Typed
  <2> QED BY <1>3, <2>2, <2>3, <2>5, <2>6 DEF Intent, Typed, scanVars
<1>4. ASSUME NEW o \in Ops, Commit(o)
      PROVE  Typed'
  <2> DEFINE c == Call(req[o])
             p == req[o].pol
  <2>1. /\ c.rec \in Records /\ (Exists(c.rec) <=> c.rec.rev > 0)
        /\ c.kind \in {"ok", "conflict", "refused"}
    BY CallFacts
  <2>2. p \in Policies /\ req[o].expected \in Nat /\ req[o].by \in Nat
    BY DEF Typed, Requests
  <2> HIDE DEF c
  <2>3. store' \in [Policies -> Records] /\ \A q \in Policies : Exists(store'[q]) <=> store'[q].rev > 0
    BY <1>4, <2>1, <2>2 DEF Commit, Typed, c
  <2>4. Version(o, c.rec) \in Versions
    BY <2>1, <2>2 DEF Version, Versions, Records
  <2>5. versions' \in SUBSET Versions
    BY <1>4, <2>4 DEF Commit, Typed, c
  <2>6. pc' \in [Ops -> Pcs]
    BY <1>4 DEF Commit, Goto, Typed, Pcs
  <2>7. res' \in [Ops -> Results]
    <3>1. /\ [kind |-> c.kind, rev |-> c.rec.rev] \in Results
          /\ [kind |-> "refused", rev |-> 0] \in Results
      BY <2>1 DEF Results, Records
    <3> QED BY <1>4, <3>1 DEF Commit, Typed, c
  <2> QED BY <1>4, <2>3, <2>5, <2>6, <2>7 DEF Commit, Typed, scanVars
<1>5. ASSUME NEW o \in Ops, OnConflict(o)
      PROVE  Typed'
  <2>1. store[req[o].pol].rev \in Nat
    BY DEF Typed, Requests, Records
  <2>2. res' \in [Ops -> Results]
    <3>1. [kind |-> "ok", rev |-> store[req[o].pol].rev] \in Results
      BY <2>1 DEF Results
    <3> QED BY <1>5, <3>1 DEF OnConflict, Typed
  <2> QED BY <1>5, <2>2 DEF OnConflict, Goto, Typed, Pcs, scanVars
<1>6. ASSUME NEW o \in Ops, ObserveRevision(o)
      PROVE  Typed'
  <2>1. store[req[o].pol].rev \in Nat
    BY DEF Typed, Requests, Records
  <2>2. res' \in [Ops -> Results]
    <3>1. \A n \in Int : [res[o] EXCEPT !.rev = n] \in Results
      BY DEF Typed, Results
    <3>2. -1 \in Int /\ store[req[o].pol].rev \in Int
      BY <2>1
    <3> QED BY <1>6, <3>1, <3>2 DEF ObserveRevision, Typed
  <2> QED BY <1>6, <2>2 DEF ObserveRevision, Goto, Typed, Pcs, scanVars
<1>7. ASSUME NEW o \in Ops, Outcome(o)
      PROVE  Typed'
  <2>1. Row(o, "success", res[o].rev) \in Rows /\ Row(o, "failure", res[o].rev) \in Rows
    BY DEF Row, Rows, Requests, Typed, Results
  <2>2. trail' \in Seq(Rows)
    <3>1. \A r \in Rows : Append(trail, r) \in Seq(Rows)
      BY DEF Typed
    <3> QED BY <1>7, <2>1, <3>1 DEF Outcome, Typed
  <2>3. NoRequest(req[o].pol) \in Requests
    BY DEF NoRequest, Requests, Verbs, Corrs, Typed
  <2>4. /\ req' \in [Ops -> Requests] /\ pc' \in [Ops -> Pcs]
        /\ res' \in [Ops -> Results]
    <3>1. NoResult \in Results
      BY DEF NoResult, Results
    <3> QED BY <1>7, <2>3, <3>1 DEF Outcome, Answer, Goto, Pcs, Typed
  <2> QED BY <1>7, <2>2, <2>4 DEF Outcome, Typed, scanVars
<1>8. CASE Crash
  <2>1. \A o \in Ops : NoRequest(req[o].pol) \in Requests
    BY DEF NoRequest, Requests, Verbs, Corrs, Typed
  <2>2. NoResult \in Results
    BY DEF NoResult, Results
  <2> QED BY <1>8, <2>1, <2>2 DEF Crash, Typed, Pcs
<1> QED BY NextCases, <1>1, <1>2, <1>3, <1>4, <1>5, <1>6, <1>7, <1>8 DEF Serve

-----------------------------------------------------------------------------

\* The initial states satisfy the inductive invariant.
LEMMA InitIInv == Init => IInv
<1> SUFFICES ASSUME Init PROVE IInv
    OBVIOUS
<1>1. /\ store \in [Policies -> Records]
      /\ \A p \in Policies : store[p].rev \in {0, 1} /\ (Exists(store[p]) <=> store[p].rev = 1)
    BY DEF Init, InitialRecords, NoRecord, Records, Statuses, Targets, Exists
<1>2. \A p \in Policies : InitialVersion(p) \in Versions
    BY <1>1 DEF InitialVersion, Versions, Records
<1>3. /\ \A p \in Policies : /\ InitialVersion(p).pol = p /\ InitialVersion(p).rev = store[p].rev
                             /\ InitialVersion(p).status = store[p].status
                             /\ InitialVersion(p).rules = store[p].rules
                             /\ InitialVersion(p).from = store[p].rev - 1
                             /\ InitialVersion(p).by = 0
    BY DEF InitialVersion
<1>4. /\ \A v \in versions : \E p \in Policies : Exists(store[p]) /\ v = InitialVersion(p)
      /\ \A p \in Policies : Exists(store[p]) => InitialVersion(p) \in versions
    BY DEF Init
<1>5. Typed
  <2>1. \A p \in Policies : NoRequest(p) \in Requests
    BY DEF NoRequest, Requests, Verbs, Corrs
  <2>2. req \in [Ops -> Requests]
    BY <2>1 DEF Init
  <2>3. res \in [Ops -> Results]
    BY DEF Init, NoResult, Results
  <2>4. versions \in SUBSET Versions
    BY <1>2, <1>4
  <2>5. trail \in Seq(Rows)
    BY DEF Init
  <2> QED BY <1>1, <2>2, <2>3, <2>4, <2>5 DEF Init, Typed, Pcs
<1>6. HeadInv
    BY <1>1, <1>3, <1>4 DEF HeadInv
<1>7. IntentInv /\ KindInv /\ EffectInv
    BY DEF Init, IntentInv, KindInv, EffectInv, Unapplied, Attempting
<1>8. FreshInv
    BY <1>3, <1>4 DEF Init, FreshInv
<1>9. NoLostUpdate
    BY <1>1, <1>3, <1>4 DEF NoLostUpdate
<1>10. ChangeHasIntent /\ AnswersTrue
    BY <1>3, <1>4 DEF Init, ChangeHasIntent, AnswersTrue
<1> QED BY <1>5, <1>6, <1>7, <1>8, <1>9, <1>10 DEF IInv

\* The repository changes in a Commit step only, to what the call answered.
LEMMA StoreStep ==
  ASSUME [Next]_vars
  PROVE  \/ UNCHANGED <<store, versions>>
         \/ \E o \in Ops :
              /\ Commit(o)
              /\ store' = [store EXCEPT ![req[o].pol] = Call(req[o]).rec]
              /\ versions' = IF Call(req[o]).rec = store[req[o].pol] THEN versions
                             ELSE versions \cup {Version(o, Call(req[o]).rec)}
<1>1. CASE UNCHANGED core
    BY <1>1 DEF core
<1>2. CASE \E o \in Ops, v \in Verbs, p \in Policies, n \in KnownRevisions,
              c \in Contents \cup {NoRules}, k \in Keys \cup {NoKey} : Begin(o, v, p, n, c, k)
    BY <1>2 DEF Begin
<1>3. CASE \E o \in Ops : Intent(o) \/ OnConflict(o) \/ ObserveRevision(o) \/ Outcome(o)
    BY <1>3 DEF Intent, OnConflict, ObserveRevision, Outcome
<1>4. CASE \E o \in Ops : Commit(o)
    BY <1>4 DEF Commit
<1>5. CASE Crash
    BY <1>5 DEF Crash
<1> QED BY NextCases, <1>1, <1>2, <1>3, <1>4, <1>5 DEF Serve

\* Every step keeps the stored record the newest version, and every revision
\* the work of one request.
LEMMA HeadStep ==
  Typed /\ HeadInv /\ NoLostUpdate /\ [Next]_vars => HeadInv' /\ NoLostUpdate'
<1> SUFFICES ASSUME Typed, HeadInv, NoLostUpdate, [Next]_vars
             PROVE  HeadInv' /\ NoLostUpdate'
    OBVIOUS
<1>1. CASE UNCHANGED <<store, versions>>
    BY <1>1 DEF HeadInv, NoLostUpdate
<1>2. ASSUME NEW o \in Ops,
             store' = [store EXCEPT ![req[o].pol] = Call(req[o]).rec],
             versions' = IF Call(req[o]).rec = store[req[o].pol] THEN versions
                         ELSE versions \cup {Version(o, Call(req[o]).rec)}
      PROVE  HeadInv' /\ NoLostUpdate'
  <2> DEFINE p == req[o].pol
             rec == Call(req[o]).rec
             new == Version(o, rec)
  <2>1. /\ rec \in Records
        /\ rec # store[p] => rec.rev = store[p].rev + 1 /\ rec.rev = req[o].expected + 1
    BY CallFacts
  <2>2. /\ p \in Policies /\ req[o].expected \in Nat
        /\ \A q \in Policies : store[q] \in Records
        /\ \A v \in versions : v \in Versions
    BY DEF Typed, Requests
  <2>3. /\ new.pol = p /\ new.rev = rec.rev /\ new.status = rec.status /\ new.rules = rec.rules
        /\ new.from = req[o].expected
    BY DEF Version
  <2>4. store' = [store EXCEPT ![p] = rec] /\ store \in [Policies -> Records]
    BY <1>2 DEF Typed
  <2> HIDE DEF rec, new, p
  <2>5. CASE rec = store[p]
    <3>1. store' = store /\ versions' = versions
      BY <1>2, <2>2, <2>4, <2>5 DEF rec, p
    <3> QED BY <3>1 DEF HeadInv, NoLostUpdate
  <2>6. CASE rec # store[p]
    <3>1. versions' = versions \cup {new}
      BY <1>2, <2>6 DEF rec, new, p
    <3>2. /\ store'[p] = rec
          /\ \A q \in Policies : q # p => store'[q] = store[q]
      BY <2>2, <2>4
    <3>3. rec.rev \in Nat /\ store[p].rev \in Nat /\ rec.rev = store[p].rev + 1
      BY <2>1, <2>2, <2>6 DEF Records
    <3>4. \A v \in versions : /\ v.pol \in Policies /\ v.rev \in Nat
                              /\ v.rev <= store[v.pol].rev
                              /\ v.pol = p => v.rev < rec.rev
      BY <2>2, <3>3 DEF HeadInv, Versions
    <3>5. HeadInv'
      <4>1. ASSUME NEW q \in Policies, Exists(store'[q])
            PROVE  \E v \in versions' : v.pol = q /\ v.rev = store'[q].rev
                       /\ v.status = store'[q].status /\ v.rules = store'[q].rules
        <5>1. CASE q = p
          BY <5>1, <2>3, <3>1, <3>2
        <5>2. CASE q # p
          BY <5>2, <4>1, <3>1, <3>2 DEF HeadInv
        <5> QED BY <5>1, <5>2
      <4>2. ASSUME NEW v \in versions' PROVE v.rev <= store'[v.pol].rev
        <5>1. CASE v = new
          BY <5>1, <2>3, <3>2, <3>3
        <5>2. CASE v \in versions
          BY <5>2, <3>2, <3>3, <3>4
        <5> QED BY <5>1, <5>2, <3>1
      <4> QED BY <4>1, <4>2 DEF HeadInv, Exists
    <3>6. NoLostUpdate'
      <4>1. \A v, w \in versions' : v.pol = w.pol /\ v.rev = w.rev => v = w
        BY <2>3, <3>1, <3>3, <3>4 DEF NoLostUpdate
      <4>2. \A v \in versions' : v.rev = v.from + 1
        BY <2>1, <2>3, <2>6, <3>1 DEF NoLostUpdate
      <4> QED BY <4>1, <4>2 DEF NoLostUpdate
    <3> QED BY <3>5, <3>6
  <2> QED BY <2>5, <2>6
<1> QED BY StoreStep, <1>1, <1>2

-----------------------------------------------------------------------------

\* The trail only grows, and the goroutine that moves on to the repository has
\* added its intent.
LEMMA IntentStep ==
  Typed /\ IntentInv /\ ChangeHasIntent /\ [Next]_vars => IntentInv' /\ ChangeHasIntent'
<1> SUFFICES ASSUME Typed, IntentInv, ChangeHasIntent, [Next]_vars
             PROVE  IntentInv' /\ ChangeHasIntent'
    OBVIOUS
<1> DEFINE HasIntent(t, n) == \E i \in DOMAIN t : t[i].by = n /\ t[i].result = "intent"
<1>0. /\ \A o \in Ops : pc[o] \in Attempting => HasIntent(trail, req[o].by)
      /\ \A v \in versions : v.by > 0 => HasIntent(trail, v.by)
    BY DEF IntentInv, ChangeHasIntent
<1>1. ASSUME NEW r \in Rows
      PROVE  /\ \A n : HasIntent(trail, n) => HasIntent(Append(trail, r), n)
             /\ r.result = "intent" => HasIntent(Append(trail, r), r.by)
  <2>1. /\ DOMAIN trail = 1..Len(trail) /\ Len(trail) \in Nat
        /\ DOMAIN Append(trail, r) = 1..(Len(trail) + 1)
        /\ \A i \in 1..Len(trail) : Append(trail, r)[i] = trail[i]
        /\ Append(trail, r)[Len(trail) + 1] = r
    BY DEF Typed
  <2> QED BY <2>1
<1>2. SUFFICES /\ \A o \in Ops : pc'[o] \in Attempting => HasIntent(trail', req'[o].by)
               /\ \A v \in versions' : v.by > 0 => HasIntent(trail', v.by)
    BY DEF IntentInv, ChangeHasIntent
<1> HIDE DEF HasIntent
<1>3. CASE UNCHANGED core
    BY <1>3, <1>0 DEF core
<1>4. ASSUME NEW o \in Ops, NEW v \in Verbs, NEW p \in Policies, NEW n \in KnownRevisions,
             NEW c \in Contents \cup {NoRules}, NEW k \in Keys \cup {NoKey},
             Begin(o, v, p, n, c, k)
      PROVE  /\ \A x \in Ops : pc'[x] \in Attempting => HasIntent(trail', req'[x].by)
             /\ \A w \in versions' : w.by > 0 => HasIntent(trail', w.by)
    BY <1>4, <1>0 DEF Begin, Goto, Typed, Attempting
<1>5. ASSUME NEW o \in Ops, Intent(o)
      PROVE  /\ \A x \in Ops : pc'[x] \in Attempting => HasIntent(trail', req'[x].by)
             /\ \A w \in versions' : w.by > 0 => HasIntent(trail', w.by)
  <2> DEFINE row == Row(o, "intent", req[o].expected)
  <2>1. row \in Rows /\ row.by = req[o].by /\ row.result = "intent"
    BY DEF Row, Rows, Requests, Typed
  <2> HIDE DEF row
  <2>2. CASE trail' = Append(trail, row) /\ Goto(o, "commit") /\ UNCHANGED req
    BY <1>5, <2>2, <2>1, <1>1, <1>0 DEF Intent, Goto, Typed
  <2>3. CASE Answer(o, "notAttempted", 0) /\ UNCHANGED trail
    BY <1>5, <2>3, <1>0 DEF Intent, Answer, Goto, Typed, Attempting
  <2> QED BY <1>5, <2>2, <2>3 DEF Intent, row
<1>6. ASSUME NEW o \in Ops, Commit(o)
      PROVE  /\ \A x \in Ops : pc'[x] \in Attempting => HasIntent(trail', req'[x].by)
             /\ \A w \in versions' : w.by > 0 => HasIntent(trail', w.by)
  <2>1. /\ pc[o] = "commit" /\ UNCHANGED <<trail, req>>
        /\ \A x \in Ops : x # o => pc'[x] = pc[x]
    BY <1>6 DEF Commit, Goto, Typed
  <2>2. \A w \in versions' : w \in versions \/ w.by = req[o].by
    BY <1>6 DEF Commit, Version
  <2> QED BY <2>1, <2>2, <1>0 DEF Attempting
<1>7. ASSUME NEW o \in Ops, OnConflict(o) \/ ObserveRevision(o)
      PROVE  /\ \A x \in Ops : pc'[x] \in Attempting => HasIntent(trail', req'[x].by)
             /\ \A w \in versions' : w.by > 0 => HasIntent(trail', w.by)
  <2>1. /\ pc[o] \in {"conflict", "observe"} /\ UNCHANGED <<trail, req, versions>>
        /\ \A x \in Ops : x # o => pc'[x] = pc[x]
    BY <1>7 DEF OnConflict, ObserveRevision, Goto, Typed
  <2> QED BY <2>1, <1>0 DEF Attempting
<1>8. ASSUME NEW o \in Ops, Outcome(o)
      PROVE  /\ \A x \in Ops : pc'[x] \in Attempting => HasIntent(trail', req'[x].by)
             /\ \A w \in versions' : w.by > 0 => HasIntent(trail', w.by)
  <2>1. Row(o, "success", res[o].rev) \in Rows /\ Row(o, "failure", res[o].rev) \in Rows
    BY DEF Row, Rows, Requests, Typed, Results
  <2>2. \A n : HasIntent(trail, n) => HasIntent(trail', n)
    BY <1>8, <2>1, <1>1 DEF Outcome
  <2>3. /\ pc'[o] = "idle" /\ UNCHANGED versions
        /\ \A x \in Ops : x # o => pc'[x] = pc[x] /\ req'[x] = req[x]
    BY <1>8 DEF Outcome, Answer, Goto, Typed
  <2> QED BY <2>2, <2>3, <1>0 DEF Attempting
<1>9. CASE Crash
    BY <1>9, <1>0 DEF Crash, Attempting
<1> QED BY NextCases, <1>3, <1>4, <1>5, <1>6, <1>7, <1>8, <1>9 DEF Serve

\* What a step of a goroutine that serves a request leaves alone.
LEMMA ServeFacts ==
  ASSUME Typed, NEW o \in Ops, Serve(o)
  PROVE  /\ pc[o] # "idle" /\ UNCHANGED requests
         /\ \A x \in Ops : x # o => pc'[x] = pc[x] /\ req'[x] = req[x] /\ res'[x] = res[x]
         /\ pc'[o] # "idle" => req'[o] = req[o] /\ answers' = answers
         /\ \A a \in answers' : a \in answers \/ (a.req = req[o] /\ pc'[o] = "idle")
         /\ \A v \in versions' : v \in versions \/ v.by = req[o].by
<1>0. pc \in [Ops -> Pcs] /\ req \in [Ops -> Requests] /\ res \in [Ops -> Results]
    BY DEF Typed
<1>1. CASE Intent(o)
  <2>1. /\ pc[o] # "idle" /\ UNCHANGED requests
        /\ \A x \in Ops : x # o => pc'[x] = pc[x] /\ req'[x] = req[x] /\ res'[x] = res[x]
    BY <1>0, <1>1 DEF Intent, Goto, Answer
  <2>2. /\ pc'[o] # "idle" => req'[o] = req[o] /\ answers' = answers
        /\ \A a \in answers' : a \in answers \/ (a.req = req[o] /\ pc'[o] = "idle")
    BY <1>0, <1>1 DEF Intent, Goto, Answer
  <2>3. versions' = versions
    BY <1>1 DEF Intent
  <2> QED BY <2>1, <2>2, <2>3
<1>2. CASE Commit(o)
  <2>1. /\ pc[o] # "idle" /\ UNCHANGED requests
        /\ \A x \in Ops : x # o => pc'[x] = pc[x] /\ req'[x] = req[x] /\ res'[x] = res[x]
    BY <1>0, <1>2 DEF Commit, Goto
  <2>2. UNCHANGED <<req, answers>>
    BY <1>2 DEF Commit
  <2>3. \A v \in versions' : v \in versions \/ v.by = req[o].by
    BY <1>2 DEF Commit, Version
  <2> QED BY <2>1, <2>2, <2>3
<1>3. CASE OnConflict(o)
  <2>1. /\ pc[o] # "idle" /\ UNCHANGED requests
        /\ \A x \in Ops : x # o => pc'[x] = pc[x] /\ req'[x] = req[x] /\ res'[x] = res[x]
    BY <1>0, <1>3 DEF OnConflict, Goto
  <2>2. UNCHANGED <<req, answers, versions>>
    BY <1>3 DEF OnConflict
  <2> QED BY <2>1, <2>2
<1>4. CASE ObserveRevision(o)
  <2>1. /\ pc[o] # "idle" /\ UNCHANGED requests
        /\ \A x \in Ops : x # o => pc'[x] = pc[x] /\ req'[x] = req[x] /\ res'[x] = res[x]
    BY <1>0, <1>4 DEF ObserveRevision, Goto
  <2>2. UNCHANGED <<req, answers, versions>>
    BY <1>4 DEF ObserveRevision
  <2> QED BY <2>1, <2>2
<1>5. CASE Outcome(o)
  <2>1. /\ pc[o] # "idle" /\ UNCHANGED requests
        /\ \A x \in Ops : x # o => pc'[x] = pc[x] /\ req'[x] = req[x] /\ res'[x] = res[x]
    BY <1>0, <1>5 DEF Outcome, Goto, Answer
  <2>2. /\ pc'[o] # "idle" => req'[o] = req[o] /\ answers' = answers
        /\ \A a \in answers' : a \in answers \/ (a.req = req[o] /\ pc'[o] = "idle")
    BY <1>0, <1>5 DEF Outcome, Goto, Answer
  <2>3. versions' = versions
    BY <1>5 DEF Outcome
  <2> QED BY <2>1, <2>2, <2>3
<1> QED BY <1>1, <1>2, <1>3, <1>4, <1>5 DEF Serve

\* Identities stay apart.
LEMMA FreshStep ==
  Typed /\ FreshInv /\ [Next]_vars => FreshInv'
<1> SUFFICES ASSUME Typed, FreshInv, [Next]_vars PROVE FreshInv'
    OBVIOUS
<1>0. requests \in Nat /\ pc \in [Ops -> Pcs] /\ req \in [Ops -> Requests]
      /\ \A v \in versions : v.by \in Nat
    BY DEF Typed, Versions
<1>1. CASE UNCHANGED core
    BY <1>1 DEF FreshInv, core
<1>2. ASSUME NEW o \in Ops, NEW v \in Verbs, NEW p \in Policies, NEW n \in KnownRevisions,
             NEW c \in Contents \cup {NoRules}, NEW k \in Keys \cup {NoKey},
             Begin(o, v, p, n, c, k)
      PROVE  FreshInv'
  <2>1. /\ requests' = requests + 1 /\ UNCHANGED <<answers, versions>>
        /\ req'[o].by = requests + 1 /\ pc[o] = "idle"
        /\ \A x \in Ops : x # o => pc'[x] = pc[x] /\ req'[x] = req[x]
    BY <1>0, <1>2 DEF Begin, Goto
  <2> QED BY <1>0, <2>1 DEF FreshInv
<1>3. ASSUME NEW o \in Ops, Serve(o) PROVE FreshInv'
  <2>1. /\ pc[o] # "idle" /\ requests' = requests
        /\ \A x \in Ops : x # o => pc'[x] = pc[x] /\ req'[x] = req[x]
        /\ pc'[o] # "idle" => req'[o] = req[o] /\ answers' = answers
        /\ \A a \in answers' : a \in answers \/ (a.req = req[o] /\ pc'[o] = "idle")
        /\ \A v \in versions' : v \in versions \/ v.by = req[o].by
    BY <1>3, ServeFacts
  <2> QED BY <1>0, <2>1 DEF FreshInv
<1>4. CASE Crash
    BY <1>4 DEF Crash, FreshInv
<1> QED BY NextCases, <1>1, <1>2, <1>3, <1>4

\* A request on its way through the failure path was refused.
LEMMA KindStep ==
  Typed /\ KindInv /\ [Next]_vars => KindInv'
<1> SUFFICES ASSUME Typed, KindInv, [Next]_vars PROVE KindInv'
    OBVIOUS
<1>0. pc \in [Ops -> Pcs] /\ req \in [Ops -> Requests] /\ res \in [Ops -> Results]
    BY DEF Typed
<1>1. CASE UNCHANGED core
    BY <1>1 DEF KindInv, core
<1>2. ASSUME NEW o \in Ops, NEW v \in Verbs, NEW p \in Policies, NEW n \in KnownRevisions,
             NEW c \in Contents \cup {NoRules}, NEW k \in Keys \cup {NoKey},
             Begin(o, v, p, n, c, k)
      PROVE  KindInv'
    BY <1>0, <1>2 DEF Begin, Goto, KindInv
<1>3. ASSUME NEW o \in Ops, Serve(o) PROVE KindInv'
  <2>1. \A x \in Ops : x # o => pc'[x] = pc[x] /\ req'[x] = req[x] /\ res'[x] = res[x]
    BY <1>3, ServeFacts
  <2>2. SUFFICES /\ pc'[o] = "conflict" => res'[o].kind = "conflict" /\ req'[o].verb = "create"
                 /\ pc'[o] = "observe" => res'[o].kind # "ok"
    BY <2>1 DEF KindInv
  <2>3. CASE Intent(o) \/ Outcome(o) \/ ObserveRevision(o)
    <3>1. pc'[o] \in {"idle", "commit", "outcome"}
      BY <1>0, <2>3 DEF Intent, Outcome, ObserveRevision, Answer, Goto
    <3> QED BY <3>1
  <2>4. CASE Commit(o)
    <3> DEFINE c == Call(req[o])
    <3>1. UNCHANGED req
      BY <2>4 DEF Commit
    <3>2. CASE /\ res' = [res EXCEPT ![o] = [kind |-> c.kind, rev |-> c.rec.rev]]
               /\ Goto(o, IF c.kind = "ok" THEN "outcome"
                          ELSE IF c.kind = "conflict" /\ req[o].verb = "create" THEN "conflict"
                          ELSE "observe")
      <4> HIDE DEF c
      <4>1. res'[o].kind = c.kind
        BY <1>0, <3>2
      <4>2. pc'[o] = IF c.kind = "ok" THEN "outcome"
                     ELSE IF c.kind = "conflict" /\ req[o].verb = "create" THEN "conflict"
                     ELSE "observe"
        BY <1>0, <3>2 DEF Goto
      <4> QED BY <3>1, <4>1, <4>2
    <3>3. CASE /\ res' = [res EXCEPT ![o] = [kind |-> "refused", rev |-> 0]]
               /\ Goto(o, "observe")
      BY <1>0, <3>3 DEF Goto
    <3> QED BY <2>4, <3>2, <3>3 DEF Commit
  <2>5. CASE OnConflict(o)
    <3>1. pc'[o] = "outcome" \/ (pc'[o] = "observe" /\ res' = res)
      BY <1>0, <2>5 DEF OnConflict, Goto
    <3>2. res[o].kind = "conflict"
      BY <2>5 DEF OnConflict, KindInv
    <3> QED BY <3>1, <3>2
  <2> QED BY <1>3, <2>3, <2>4, <2>5 DEF Serve
<1>4. CASE Crash
    BY <1>4 DEF Crash, KindInv
<1> QED BY NextCases, <1>1, <1>2, <1>3, <1>4

-----------------------------------------------------------------------------

\* Versions are never removed, and a new one is the work of the request that
\* is at the repository.
LEMMA VersionStep ==
  ASSUME Typed, [Next]_vars
  PROVE  /\ versions \subseteq versions'
         /\ \A v \in versions' \ versions :
              \E o \in Ops : pc[o] = "commit" /\ v.by = req[o].by
<1>1. CASE UNCHANGED <<store, versions>>
    BY <1>1
<1>2. CASE \E o \in Ops :
             /\ Commit(o)
             /\ versions' = IF Call(req[o]).rec = store[req[o].pol] THEN versions
                            ELSE versions \cup {Version(o, Call(req[o]).rec)}
    BY <1>2 DEF Commit, Version
<1> QED BY StoreStep, <1>1, <1>2

\* The stored record is a version that satisfies whoever finds it satisfactory.
LEMMA HeadSatisfies ==
  ASSUME Typed, HeadInv, NEW r \in Requests, Exists(store[r.pol]),
         IF r.verb \in Targets THEN store[r.pol].status = r.verb
         ELSE store[r.pol].rules = r.rules
  PROVE  \E v \in versions : Satisfies(v, r, store[r.pol].rev)
<1>1. r.pol \in Policies
    BY DEF Requests
<1>2. PICK v \in versions : v.pol = r.pol /\ v.rev = store[r.pol].rev
                            /\ v.status = store[r.pol].status /\ v.rules = store[r.pol].rules
    BY <1>1 DEF HeadInv
<1> QED BY <1>2 DEF Satisfies

\* A successful call leaves a version that has what the request asked for.
LEMMA CommitSatisfies ==
  ASSUME Typed, HeadInv, HeadInv', Typed', [Next]_vars, NEW o \in Ops, Commit(o),
         pc'[o] = "outcome"
  PROVE  res'[o].kind = "ok" /\ \E v \in versions' : Satisfies(v, req'[o], res'[o].rev)
<1> DEFINE c == Call(req[o])
           p == req[o].pol
<1>0. /\ pc \in [Ops -> Pcs] /\ res \in [Ops -> Results] /\ req[o] \in Requests
      /\ store \in [Policies -> Records] /\ p \in Policies
    BY DEF Typed, Requests
<1>1. /\ c.kind = "ok" =>
           /\ Exists(c.rec)
           /\ IF req[o].verb \in Targets THEN c.rec.status = req[o].verb
              ELSE c.rec.rules = req[o].rules
    BY CallFacts
<1> HIDE DEF c
<1>2. /\ store' = [store EXCEPT ![p] = c.rec] /\ c.kind = "ok"
      /\ res'[o] = [kind |-> c.kind, rev |-> c.rec.rev]
  <2>1. CASE /\ store' = [store EXCEPT ![p] = c.rec]
             /\ res' = [res EXCEPT ![o] = [kind |-> c.kind, rev |-> c.rec.rev]]
             /\ Goto(o, IF c.kind = "ok" THEN "outcome"
                        ELSE IF c.kind = "conflict" /\ req[o].verb = "create" THEN "conflict"
                        ELSE "observe")
    BY <1>0, <2>1 DEF Goto
  <2>2. CASE Goto(o, "observe")
    BY <1>0, <2>2 DEF Goto
  <2> QED BY <2>1, <2>2 DEF Commit, c
<1>3. req' = req
    BY DEF Commit
<1>4. store'[p] = c.rec
    BY <1>0, <1>2
<1>5. \E v \in versions' : v.pol = p /\ v.rev = store'[p].rev
                           /\ v.status = store'[p].status /\ v.rules = store'[p].rules
    BY <1>0, <1>1, <1>2, <1>4 DEF HeadInv, Exists
<1> QED BY <1>1, <1>2, <1>3, <1>4, <1>5 DEF Satisfies

\* Whether a request in flight has had its effect.
LEMMA EffectStep ==
  /\ Typed /\ HeadInv /\ FreshInv /\ KindInv /\ EffectInv /\ Typed' /\ HeadInv' /\ [Next]_vars
  => EffectInv'
<1> SUFFICES ASSUME Typed, HeadInv, FreshInv, KindInv, EffectInv, Typed', HeadInv', [Next]_vars
             PROVE  EffectInv'
    OBVIOUS
<1>0. /\ pc \in [Ops -> Pcs] /\ req \in [Ops -> Requests] /\ res \in [Ops -> Results]
      /\ requests \in Nat /\ \A v \in versions : v.by \in Nat
    BY DEF Typed, Versions
<1> DEFINE Good(o) ==
      /\ Unapplied(o)' => \A v \in versions' : v.by # req'[o].by
      /\ pc'[o] = "outcome" /\ res'[o].kind = "ok" =>
           \E v \in versions' : Satisfies(v, req'[o], res'[o].rev)
<1>1. SUFFICES ASSUME NEW x \in Ops PROVE Good(x)
    BY DEF EffectInv, Satisfies
<1>2. /\ versions \subseteq versions'
      /\ \A v \in versions' \ versions : \E o \in Ops : pc[o] = "commit" /\ v.by = req[o].by
    BY VersionStep
<1>3. CASE pc'[x] = pc[x] /\ req'[x] = req[x] /\ res'[x] = res[x]
           /\ (pc[x] = "commit" => versions' = versions)
  <2>1. ASSUME Unapplied(x)' PROVE \A v \in versions' : v.by # req'[x].by
    <3>1. Unapplied(x)
      BY <1>3, <2>1 DEF Unapplied
    <3>2. \A v \in versions : v.by # req[x].by
      BY <3>1 DEF EffectInv
    <3>3. \A v \in versions' \ versions : v.by # req[x].by
      BY <1>2, <1>3, <3>1 DEF FreshInv, Unapplied
    <3> QED BY <1>3, <3>2, <3>3
  <2>2. ASSUME pc'[x] = "outcome", res'[x].kind = "ok"
        PROVE  \E v \in versions' : Satisfies(v, req'[x], res'[x].rev)
    BY <1>2, <1>3, <2>2 DEF EffectInv
  <2> QED BY <2>1, <2>2
<1>4. CASE UNCHANGED core
    BY <1>3, <1>4 DEF core
<1>5. ASSUME NEW o \in Ops, NEW v \in Verbs, NEW p \in Policies, NEW n \in KnownRevisions,
             NEW c \in Contents \cup {NoRules}, NEW k \in Keys \cup {NoKey},
             Begin(o, v, p, n, c, k)
      PROVE  Good(x)
  <2>1. /\ UNCHANGED <<versions, res>> /\ req'[o].by = requests + 1 /\ pc'[o] = "intent"
        /\ \A y \in Ops : y # o => pc'[y] = pc[y] /\ req'[y] = req[y]
    BY <1>0, <1>5 DEF Begin, Goto
  <2>2. CASE x = o
    BY <1>0, <2>1, <2>2 DEF FreshInv
  <2>3. CASE x # o
    BY <1>3, <2>1, <2>3
  <2> QED BY <2>2, <2>3
<1>6. ASSUME NEW o \in Ops, Serve(o) PROVE Good(x)
  <2>1. /\ \A y \in Ops : y # o => pc'[y] = pc[y] /\ req'[y] = req[y] /\ res'[y] = res[y]
        /\ pc'[o] # "idle" => req'[o] = req[o]
        /\ pc[o] # "idle"
        /\ \A v \in versions' : v \in versions \/ v.by = req[o].by
    BY <1>6, ServeFacts
  <2>2. CASE x # o
    <3>1. ASSUME Unapplied(x)' PROVE \A v \in versions' : v.by # req'[x].by
      <4>1. Unapplied(x) /\ pc[x] # "idle"
        BY <2>1, <2>2, <3>1 DEF Unapplied
      <4>2. \A v \in versions : v.by # req[x].by
        BY <4>1 DEF EffectInv
      <4>3. req[o].by # req[x].by
        BY <2>1, <2>2, <4>1 DEF FreshInv
      <4> QED BY <2>1, <2>2, <4>2, <4>3
    <3>2. ASSUME pc'[x] = "outcome", res'[x].kind = "ok"
          PROVE  \E v \in versions' : Satisfies(v, req'[x], res'[x].rev)
      BY <1>2, <2>1, <2>2, <3>2 DEF EffectInv
    <3> QED BY <3>1, <3>2
  <2>3. CASE x = o /\ pc'[o] = "idle"
    BY <2>3 DEF Unapplied
  <2>4. CASE x = o /\ Intent(o) /\ pc'[o] # "idle"
    <3>1. pc'[o] = "commit" /\ UNCHANGED versions /\ pc[o] = "intent"
      BY <1>0, <2>4 DEF Intent, Answer, Goto
    <3> QED BY <2>1, <2>4, <3>1 DEF EffectInv, Unapplied
  <2>5. CASE x = o /\ Commit(o)
    <3>1. pc[o] = "commit" /\ pc'[o] \in {"outcome", "conflict", "observe"} /\ req' = req
      BY <1>0, <2>5 DEF Commit, Goto
    <3>2. CASE pc'[o] = "outcome"
      <4>1. res'[o].kind = "ok" /\ \E v \in versions' : Satisfies(v, req'[o], res'[o].rev)
        BY <2>5, <3>2, CommitSatisfies
      <4> QED BY <2>5, <3>2, <4>1 DEF Unapplied
    <3>3. CASE pc'[o] # "outcome"
      <4>1. versions' = versions
        <5> DEFINE c == Call(req[o])
        <5>1. c.rec # store[req[o].pol] => c.kind = "ok"
          BY CallFacts
        <5>2. CASE UNCHANGED versions
          BY <5>2
        <5>3. CASE /\ versions' = IF c.rec = store[req[o].pol] THEN versions
                                  ELSE versions \cup {Version(o, c.rec)}
                   /\ Goto(o, IF c.kind = "ok" THEN "outcome"
                              ELSE IF c.kind = "conflict" /\ req[o].verb = "create"
                                THEN "conflict"
                              ELSE "observe")
          <6> HIDE DEF c
          <6> QED BY <1>0, <3>3, <5>1, <5>3 DEF Goto
        <5> QED BY <2>5, <5>2, <5>3 DEF Commit
      <4> QED BY <2>5, <3>1, <3>3, <4>1 DEF EffectInv, Unapplied
    <3> QED BY <3>2, <3>3
  <2>6. CASE x = o /\ OnConflict(o)
    <3>1. /\ pc[o] = "conflict" /\ UNCHANGED <<req, versions, store>>
          /\ \/ /\ pc'[o] = "observe"
             \/ /\ pc'[o] = "outcome" /\ res'[o] = [kind |-> "ok", rev |-> store[req[o].pol].rev]
                /\ Exists(store[req[o].pol]) /\ store[req[o].pol].rules = req[o].rules
      BY <1>0, <2>6 DEF OnConflict, Goto
    <3>2. CASE pc'[o] = "observe"
      BY <2>6, <3>1, <3>2 DEF EffectInv, Unapplied
    <3>3. CASE pc'[o] = "outcome"
      <4>1. req[o].verb = "create" /\ req[o] \in Requests
        BY <1>0, <3>1 DEF KindInv
      <4>2. \E v \in versions : Satisfies(v, req[o], store[req[o].pol].rev)
        BY <3>1, <3>3, <4>1, HeadSatisfies DEF Targets
      <4> QED BY <2>6, <3>1, <3>3, <4>2 DEF Unapplied
    <3> QED BY <3>1, <3>2, <3>3
  <2>7. CASE x = o /\ ObserveRevision(o)
    <3>1. /\ pc[o] = "observe" /\ UNCHANGED <<req, versions>> /\ pc'[o] = "outcome"
          /\ res'[o].kind = res[o].kind
      BY <1>0, <2>7 DEF ObserveRevision, Goto, Results
    <3>2. res[o].kind # "ok"
      BY <3>1 DEF KindInv
    <3> QED BY <2>7, <3>1, <3>2 DEF EffectInv, Unapplied
  <2>8. CASE x = o /\ Outcome(o)
    BY <1>0, <2>3, <2>8 DEF Outcome, Answer, Goto
  <2> QED BY <1>6, <2>2, <2>3, <2>4, <2>5, <2>6, <2>7, <2>8 DEF Serve
<1>7. CASE Crash
    BY <1>7 DEF Crash, Unapplied
<1> QED BY NextCases, <1>4, <1>5, <1>6, <1>7

\* An answer is true when it is given and stays true.
LEMMA AnswersStep ==
  Typed /\ FreshInv /\ EffectInv /\ AnswersTrue /\ [Next]_vars => AnswersTrue'
<1> SUFFICES ASSUME Typed, FreshInv, EffectInv, AnswersTrue, [Next]_vars
             PROVE  AnswersTrue'
    OBVIOUS
<1>0. /\ pc \in [Ops -> Pcs] /\ req \in [Ops -> Requests] /\ res \in [Ops -> Results]
    BY DEF Typed
<1> DEFINE Told(a, vs) ==
      IF a.said \in {"success", "degradedApplied"}
        THEN \E v \in vs : Satisfies(v, a.req, a.rev)
        ELSE \A v \in vs : v.by # a.req.by
<1>1. /\ \A a \in answers : Told(a, versions)
      /\ (\A a \in answers' : Told(a, versions')) => AnswersTrue'
    BY DEF AnswersTrue, Satisfies
<1>2. /\ versions \subseteq versions'
      /\ \A v \in versions' \ versions : \E o \in Ops : pc[o] = "commit" /\ v.by = req[o].by
    BY VersionStep
<1>3. \A a \in answers : Told(a, versions')
  <2> SUFFICES ASSUME NEW a \in answers PROVE Told(a, versions')
    OBVIOUS
  <2>1. CASE a.said \in {"success", "degradedApplied"}
    BY <1>1, <1>2, <2>1
  <2>2. CASE a.said \notin {"success", "degradedApplied"}
    <3>1. \A v \in versions' \ versions : v.by # a.req.by
      BY <1>2 DEF FreshInv
    <3> QED BY <1>1, <2>2, <3>1
  <2> QED BY <2>1, <2>2
<1>4. ASSUME NEW a \in answers' \ answers PROVE Told(a, versions')
  <2>1. PICK o \in Ops : Intent(o) \/ Outcome(o)
    <3>1. CASE UNCHANGED answers
      BY <1>4, <3>1
    <3>2. CASE UNCHANGED core
      BY <3>1, <3>2 DEF core
    <3>3. ASSUME NEW o \in Ops, NEW v \in Verbs, NEW p \in Policies, NEW n \in KnownRevisions,
                 NEW c \in Contents \cup {NoRules}, NEW k \in Keys \cup {NoKey},
                 Begin(o, v, p, n, c, k)
          PROVE  UNCHANGED answers
      BY <3>3 DEF Begin
    <3>4. ASSUME NEW o \in Ops, Commit(o) \/ OnConflict(o) \/ ObserveRevision(o)
          PROVE  UNCHANGED answers
      BY <3>4 DEF Commit, OnConflict, ObserveRevision
    <3>5. CASE Crash
      BY <3>1, <3>5 DEF Crash
    <3> QED BY NextCases, <3>1, <3>2, <3>3, <3>4, <3>5 DEF Serve
  <2>2. versions' = versions
    BY <2>1 DEF Intent, Outcome
  <2>3. CASE Intent(o)
    <3>1. pc[o] = "intent" /\ a = [said |-> "notAttempted", rev |-> 0, req |-> req[o]]
      BY <1>4, <2>3 DEF Intent, Answer
    <3>2. \A v \in versions : v.by # req[o].by
      BY <3>1 DEF EffectInv, Unapplied
    <3> QED BY <2>2, <3>1, <3>2
  <2>4. CASE Outcome(o) /\ res[o].kind = "ok"
    <3>1. /\ pc[o] = "outcome" /\ a.req = req[o] /\ a.rev = res[o].rev
          /\ a.said \in {"success", "degradedApplied"}
      BY <1>4, <2>4 DEF Outcome, Answer
    <3>2. \E v \in versions : Satisfies(v, req[o], res[o].rev)
      BY <2>4, <3>1 DEF EffectInv
    <3> QED BY <2>2, <3>1, <3>2
  <2>5. CASE Outcome(o) /\ res[o].kind # "ok"
    <3>1. /\ pc[o] = "outcome" /\ a.req = req[o]
          /\ a.said \in {"failure", "degradedNotApplied"}
      BY <1>4, <2>5 DEF Outcome, Answer
    <3>2. \A v \in versions : v.by # req[o].by
      BY <2>5, <3>1 DEF EffectInv, Unapplied
    <3> QED BY <2>2, <3>1, <3>2
  <2> QED BY <2>1, <2>3, <2>4, <2>5
<1> QED BY <1>1, <1>3, <1>4

\* IInv is inductive.
LEMMA Inductive == IInv /\ [Next]_vars => IInv'
  BY TypeStep, HeadStep, IntentStep, FreshStep, KindStep, EffectStep, AnswersStep DEF IInv

\* IInv holds in every reachable state.
LEMMA Invariant == Spec => []IInv
  BY InitIInv, Inductive, PTL DEF Spec

-----------------------------------------------------------------------------

\* No update of a policy is lost: however many operators, failures and crashes
\* there are, one revision is the work of one request, which had named the
\* revision before it (repository.go CompareAndSave, CompareAndTransition).
THEOREM NoUpdateLost == Spec => []NoLostUpdate
<1>1. IInv => NoLostUpdate
    BY DEF IInv
<1> QED BY Invariant, <1>1, PTL

\* Every stored change has a durable intent, also after a crash between the
\* steps of serveMutation (server.go, step 1).
THEOREM IntentFirst == Spec => []ChangeHasIntent
<1>1. IInv => ChangeHasIntent
    BY DEF IInv
<1> QED BY Invariant, <1>1, PTL

\* A caller is never told a change stands that does not, or the other way round
\* (server.go finishSuccess, finishFailure, degraded).
THEOREM ToldTheTruth == Spec => []AnswersTrue
<1>1. IInv => AnswersTrue
    BY DEF IInv
<1> QED BY Invariant, <1>1, PTL

\* Rules change in drafts only and an archived policy is final (repository.go
\* CompareAndSave, admittedTransitions).
THEOREM Lifecycle == Spec => LifecycleRespected
<1> DEFINE A == \A p \in Policies :
       /\ store[p].status = "archived" => store'[p] = store[p]
       /\ store'[p].rules # store[p].rules => store[p].status \in {"none", "draft"}
                                              /\ store'[p].status = "draft"
<1>1. IInv /\ [Next]_vars => [A]_vars
  <2> SUFFICES ASSUME Typed, [Next]_vars, NEW p \in Policies
               PROVE  /\ store[p].status = "archived" => store'[p] = store[p]
                      /\ store'[p].rules # store[p].rules =>
                           store[p].status \in {"none", "draft"} /\ store'[p].status = "draft"
    BY DEF IInv
  <2>1. CASE UNCHANGED <<store, versions>>
    BY <2>1
  <2>2. ASSUME NEW o \in Ops, store' = [store EXCEPT ![req[o].pol] = Call(req[o]).rec]
        PROVE  /\ store[p].status = "archived" => store'[p] = store[p]
               /\ store'[p].rules # store[p].rules =>
                    store[p].status \in {"none", "draft"} /\ store'[p].status = "draft"
    <3> DEFINE rec == Call(req[o]).rec
               cur == store[req[o].pol]
    <3>1. /\ cur.status = "archived" => rec = cur
          /\ rec.rules # cur.rules => cur.status \in {"none", "draft"} /\ rec.status = "draft"
      BY CallFacts
    <3>2. store'[p] = IF p = req[o].pol THEN rec ELSE store[p]
      BY <2>2 DEF Typed
    <3> HIDE DEF rec
    <3> QED BY <3>1, <3>2
  <2> QED BY StoreStep, <2>1, <2>2
<1>2. LifecycleRespected <=> [][A]_vars
    BY DEF LifecycleRespected
<1> QED BY Invariant, <1>1, <1>2, PTL DEF Spec

-----------------------------------------------------------------------------
(* The reconciler.                                                         *)

\* Every intent a scan that says "verified" must account for is still in its
\* window or has its entry.
Accounting ==
  /\ scan.upto \in Nat /\ scan.upto <= Len(trail)
  /\ scan.window \subseteq 1 .. scan.upto
  /\ scan.status = "verified" => \A i \in 1 .. scan.upto :
       trail[i].result = "intent" => i \in scan.window \/ \E e \in scan.entries : e.by = trail[i].by

\* A trail only grows: what a scan saw stays where it was.
LEMMA TrailStep ==
  ASSUME Typed, [Next]_vars
  PROVE  Len(trail') >= Len(trail) /\ \A i \in 1 .. Len(trail) : trail'[i] = trail[i]
<1>1. trail \in Seq(Rows) /\ Len(trail) \in Nat
    BY DEF Typed
<1>2. CASE trail' = trail
    BY <1>1, <1>2
<1>3. ASSUME NEW row \in Rows, trail' = Append(trail, row)
      PROVE  Len(trail') >= Len(trail) /\ \A i \in 1 .. Len(trail) : trail'[i] = trail[i]
    BY <1>1, <1>3
<1>4. trail' = trail \/ \E row \in Rows : trail' = Append(trail, row)
  <2>1. \A o \in Ops : /\ Row(o, "intent", req[o].expected) \in Rows
                       /\ Row(o, "success", res[o].rev) \in Rows
                       /\ Row(o, "failure", res[o].rev) \in Rows
    BY DEF Row, Rows, Requests, Typed, Results
  <2>2. CASE UNCHANGED core
    BY <2>2 DEF core
  <2>3. CASE \E o \in Ops, v \in Verbs, p \in Policies, n \in KnownRevisions,
               c \in Contents \cup {NoRules}, k \in Keys \cup {NoKey} : Begin(o, v, p, n, c, k)
    BY <2>3 DEF Begin
  <2>4. ASSUME NEW o \in Ops, Serve(o)
        PROVE  trail' = trail \/ \E row \in Rows : trail' = Append(trail, row)
    BY <2>1, <2>4 DEF Serve, Intent, Commit, OnConflict, ObserveRevision, Outcome
  <2>5. CASE Crash
    BY <2>5 DEF Crash
  <2> QED BY NextCases, <2>2, <2>3, <2>4, <2>5
<1> QED BY <1>2, <1>3, <1>4

LEMMA AccountingStep ==
  Typed /\ Accounting /\ [Next]_vars => Accounting'
<1> SUFFICES ASSUME Typed, Accounting, [Next]_vars PROVE Accounting'
    OBVIOUS
<1>1. /\ Len(trail) \in Nat /\ Len(trail') \in Nat /\ DOMAIN trail = 1 .. Len(trail)
      /\ Len(trail') >= Len(trail) /\ \A i \in 1 .. Len(trail) : trail'[i] = trail[i]
  <2>1. Typed'
    BY TypeStep
  <2> QED BY <2>1, TrailStep DEF Typed
<1>2. /\ Idle.upto = 0 /\ Idle.window = {}
    BY DEF Idle
<1>3. CASE scan' = Idle
    BY <1>1, <1>2, <1>3 DEF Accounting
<1>4. CASE scan' = scan
    BY <1>1, <1>4 DEF Accounting
<1>5. CASE ScanStart
  <2>1. /\ scan'.upto = Len(trail) /\ trail' = trail
        /\ scan'.window = {i \in DOMAIN trail : i > Len(trail) - ScanCap /\ IsIntent(trail[i])}
        /\ scan'.status = "verified" => ~ Truncated(trail)
    BY <1>5 DEF ScanStart
  <2>2. scan'.status = "verified" => \A i \in 1 .. Len(trail) : i > Len(trail) - ScanCap
    BY <1>1, <2>1, PolicyConstants DEF Truncated
  <2> QED BY <1>1, <2>1, <2>2 DEF Accounting, IsIntent
<1>6. CASE ClassifyIntent
  <2> DEFINE i == NewestOf(scan.window)
  <2>0. PICK st : scan' = [pc |-> "classify", window |-> scan.window \ {i}, status |-> scan.status,
                           entries |-> scan.entries \cup {[by |-> trail[i].by, status |-> st]},
                           upto |-> scan.upto]
    <3> DEFINE found(st) ==
          scan' = [pc |-> "classify", window |-> scan.window \ {i}, status |-> scan.status,
                   entries |-> scan.entries \cup {[by |-> trail[i].by, status |-> st]},
                   upto |-> scan.upto]
    <3>1. \/ found("closed") \/ found("unresolved") \/ found("no_match") \/ found("unexaminable")
      BY <1>6 DEF ClassifyIntent
    <3> QED BY <3>1
  <2>1. /\ scan'.upto = scan.upto /\ trail' = trail /\ scan'.status = scan.status
        /\ scan'.window = scan.window \ {i}
        /\ scan'.entries = scan.entries \cup {[by |-> trail[i].by, status |-> st]}
    BY <1>6, <2>0 DEF ClassifyIntent
  <2>2. /\ scan.entries \subseteq scan'.entries
        /\ \E e \in scan'.entries : e.by = trail[i].by
    <3>1. [by |-> trail[i].by, status |-> st] \in scan'.entries
      BY <2>1
    <3>2. [by |-> trail[i].by, status |-> st].by = trail[i].by
      OBVIOUS
    <3> HIDE DEF i
    <3> QED BY <2>1, <3>1, <3>2
  <2> HIDE DEF i
  <2> QED BY <2>1, <2>2 DEF Accounting
<1>7. ScanStart \/ ClassifyIntent \/ scan' = scan \/ scan' = Idle
    BY DEF Next, Begin, Serve, Intent, Commit, OnConflict, ObserveRevision, Outcome, ScanUnknown,
           ScanEnd, Crash, vars, scanVars
<1> QED BY <1>3, <1>4, <1>5, <1>6, <1>7

\* For any trail, any cap and any requests during the scan, a scan that ends
\* with "verified" has an entry for every intent that was there when it began
\* (reconcile.go Scan).
THEOREM ScanComplete == Spec => []VerifiedIsComplete
<1>1. Init => Accounting
  <2> SUFFICES ASSUME Init PROVE Accounting
    OBVIOUS
  <2>1. scan.upto = 0 /\ scan.window = {} /\ Len(trail) = 0
    BY DEF Init, Idle
  <2> QED BY <2>1 DEF Accounting
<1>2. Accounting => VerifiedIsComplete
    BY DEF Accounting, VerifiedIsComplete
<1>3. IInv => Typed
    BY DEF IInv
<1> QED BY <1>1, <1>2, <1>3, AccountingStep, Invariant, PTL DEF Spec
=============================================================================
