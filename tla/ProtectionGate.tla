--------------------------- MODULE ProtectionGate ---------------------------
(***************************************************************************)
(* The admission gate of internal/protection and the handlers that call    *)
(* it: kill switch, principal kill, circuit breaker, concurrency           *)
(* semaphore, quota and rate limit, in that order, for requests that run   *)
(* concurrently.  Every guard takes its own lock, so one step of a request *)
(* is one guard and requests interleave between guards.                    *)
(*                                                                         *)
(* The breaker reads its evidence from the audit store through the adapter *)
(* of cmd/opscore.  The token bucket is modelled in detail by TokenBucket  *)
(* and is here any answer; the kill store's persistence is modelled by     *)
(* OperatorMutation and is here the projection that IsKilled reads.        *)
(***************************************************************************)
EXTENDS Integers, Sequences, FiniteSets

CONSTANTS
  Requests,          \* goroutines that serve HTTP requests, one after another
  Caps,              \* capability identifiers
  Principals,        \* authenticated users
  AnyPrincipal,      \* the "" principal of a capability-wide quota
  DefaultCap,        \* SemaphoreSet.defaultCap
  CapValues,         \* values SetCap may be called with
  FailureThreshold,  \* BreakerConfig.FailureThreshold
  Window,            \* BreakerConfig.Window, in ticks
  Cooldown,          \* BreakerConfig.Cooldown, in ticks
  AuditLimit,        \* storage.MaxAuditQueryLimit
  QuotaDefs,         \* ceilings an operator may configure: [rss, cpu]
  Usages,            \* what the evidence source may report: [complete, rss, cpu]
  Operators,         \* TRUE when operators kill and release during the run
  MaxTime,           \* bound on the clock
  MaxRows,           \* bound on the audit rows before new requests stop
  MaxFailures        \* bound on a breaker's failureCount before new requests stop

ASSUME GateConstants ==
  /\ IsFiniteSet(Requests)
  /\ AnyPrincipal \notin Principals
  /\ DefaultCap \in Nat \ {0}
  /\ CapValues \subseteq Nat \ {0}
  /\ FailureThreshold \in Nat \ {0}
  /\ Window \in Nat \ {0}
  /\ Cooldown \in Nat \ {0}
  /\ AuditLimit \in Nat \ {0}
  /\ QuotaDefs \subseteq [rss : Nat, cpu : Nat]
  /\ Usages \subseteq [complete : BOOLEAN, rss : Nat, cpu : Nat]
  /\ Operators \in BOOLEAN
  /\ MaxTime \in Nat
  /\ MaxRows \in Nat
  /\ MaxFailures \in Nat

VARIABLES
  pc,        \* what each goroutine does next
  capOf,     \* the capability its request asks for
  who,       \* the principal asking
  t0,        \* Check's single reading of the clock, until the breaker used it
  def,       \* the quota definition Check read, until the usage is compared
  failed,    \* the execution's outcome, between the run and RecordOutcome
  async,     \* requests whose execution goes on after the handler returned
  killed,    \* KillStore.killed
  pkilled,   \* KillStore.principalKilled
  brk,       \* BreakerSet.breakers
  slots,     \* occupied slots of the semaphore channels
  chanCap,   \* capacity of the channels; 0 until the first Acquire makes one
  caps,      \* SemaphoreSet.caps with the default filled in
  defs,      \* QuotaStore.defs
  audit,     \* the failure rows of the audit store, oldest first
  now        \* the clock

reqVars == <<pc, capOf, who, t0, def, failed, async>>
killVars == <<killed, pkilled>>
semVars == <<slots, chanCap, caps>>
vars == <<reqVars, killVars, brk, semVars, defs, audit, now>>

\* A request between Acquire and Release.
HoldingPcs == {"quota", "usage", "rollback", "rate", "admitted", "record", "release"}
Pcs == HoldingPcs \cup {"idle", "kill", "pkill", "breaker", "sem"}

Holders(c) == {r \in Requests : capOf[r] = c /\ pc[r] \in HoldingPcs}

QuotaKeys == Caps \X (Principals \cup {AnyPrincipal})
NoDef == [rss |-> 0, cpu |-> 0]
NewBreaker == [state |-> "Closed", failureCount |-> 0, openedAt |-> 0, probeAllowed |-> FALSE]

Init ==
  /\ pc = [r \in Requests |-> "idle"]
  /\ capOf \in [Requests -> Caps]
  /\ who \in [Requests -> Principals]
  /\ t0 = [r \in Requests |-> 0]
  /\ def = [r \in Requests |-> NoDef]
  /\ failed = [r \in Requests |-> FALSE]
  /\ async = {}
  /\ killed = {}
  /\ pkilled = {}
  /\ brk = [c \in Caps |-> NewBreaker]
  /\ slots = [c \in Caps |-> 0]
  /\ chanCap = [c \in Caps |-> 0]
  /\ caps = [c \in Caps |-> DefaultCap]
  /\ defs = [k \in {} |-> NoDef]
  /\ audit = <<>>
  /\ now = 0

-----------------------------------------------------------------------------
(* The guards of Check, in order.                                          *)

Goto(r, l) == pc' = [pc EXCEPT ![r] = l]

\* storageAuditWriter and the executor's audit both append a "failure" row.
AuditRow(c, action) == audit' = Append(audit, [cap |-> c, action |-> action, at |-> now])

\* A refusal: an audit row of a protection.* action and an HTTP error.  A row
\* that cannot be written does not reverse the decision.
Refuse(r) ==
  /\ Goto(r, "idle")
  /\ AuditRow(capOf[r], "protection") \/ UNCHANGED audit

\* A new request; Check reads the clock once, before the first guard.
Arrive(r, c, p) ==
  /\ pc[r] = "idle"
  /\ r \notin async
  /\ Len(audit) < MaxRows
  /\ brk[c].failureCount < MaxFailures
  /\ capOf' = [capOf EXCEPT ![r] = c]
  /\ who' = [who EXCEPT ![r] = p]
  /\ t0' = [t0 EXCEPT ![r] = now]
  /\ Goto(r, "kill")
  /\ UNCHANGED <<def, failed, async, killVars, brk, semVars, defs, audit, now>>

CheckKillSkipped(r) ==
  /\ pc[r] = "kill"
  /\ Goto(r, "pkill")
  /\ UNCHANGED <<capOf, who, t0, def, failed, async, killVars, brk, semVars, defs, audit, now>>

CheckKill(r) ==
  /\ pc[r] = "kill"
  /\ IF capOf[r] \in killed
       THEN Refuse(r)
       ELSE Goto(r, "pkill") /\ UNCHANGED audit
  /\ UNCHANGED <<capOf, who, t0, def, failed, async, killVars, brk, semVars, defs, now>>

CheckPrincipalKill(r) ==
  /\ pc[r] = "pkill"
  /\ IF who[r] \in pkilled
       THEN Refuse(r)
       ELSE Goto(r, "breaker") /\ UNCHANGED audit
  /\ UNCHANGED <<capOf, who, t0, def, failed, async, killVars, brk, semVars, defs, now>>

FailureRows == DOMAIN audit

\* The audit query of the adapter: the newest AuditLimit failed executions, of
\* every capability.
ExecutionFailures == {i \in DOMAIN audit : audit[i].action = "execute"}
Page == {i \in ExecutionFailures :
           Cardinality({j \in ExecutionFailures : j >= i}) <= AuditLimit}

\* auditFailureReader.RecentFailures: the rows of the page are filtered by
\* capability and window, its truncation flag is passed on as it is.
RecentFailures(c) ==
  [count     |-> Cardinality({i \in Page : audit[i].cap = c /\ audit[i].at >= now - Window}),
   truncated |-> Cardinality(ExecutionFailures) > AuditLimit]

\* The verdict of a closed breaker on a window of evidence.
ClosedVerdict(b, w) ==
  LET effective == IF ~w.truncated /\ w.count = 0 THEN b.failureCount ELSE w.count
  IN  IF effective >= FailureThreshold THEN "Open"
      ELSE IF w.truncated THEN "Unknown"
      ELSE "Closed"

\* Evaluate's verdict at time t; evidence that cannot be read is "Unknown".
Verdicts(c, t) ==
  CASE brk[c].state = "Open"     -> {IF t - brk[c].openedAt >= Cooldown THEN "HalfOpen" ELSE "Open"}
    [] brk[c].state = "HalfOpen" -> {"HalfOpen"}
    [] OTHER                     -> {ClosedVerdict(brk[c], RecentFailures(c)), "Unknown"}

\* What Evaluate does to the breaker when its verdict is v.
AfterVerdict(b, v, t) ==
  CASE b.state = "Open" /\ v = "HalfOpen" -> [b EXCEPT !.state = "HalfOpen", !.probeAllowed = TRUE]
    [] b.state = "Closed" /\ v = "Open"   -> [b EXCEPT !.state = "Open", !.openedAt = t]
    [] OTHER                              -> b

Evaluate(r) ==
  LET c == capOf[r]
  IN  /\ pc[r] = "breaker"
      /\ \E v \in Verdicts(c, t0[r]) :
           /\ brk' = [brk EXCEPT ![c] = AfterVerdict(@, v, t0[r])]
           /\ IF v \in {"Open", "Unknown"}
                THEN Refuse(r)
                ELSE Goto(r, "sem") /\ UNCHANGED audit
      /\ t0' = [t0 EXCEPT ![r] = 0]
      /\ UNCHANGED <<capOf, who, def, failed, async, killVars, semVars, defs, now>>

\* SemaphoreSet.Acquire never blocks; the channel is made by the first call,
\* with the capacity configured at that moment.
Acquire(r) ==
  LET c == capOf[r]
      cc == IF chanCap[c] = 0 THEN caps[c] ELSE chanCap[c]
  IN  /\ pc[r] = "sem"
      /\ chanCap' = [chanCap EXCEPT ![c] = cc]
      /\ IF slots[c] < cc
           THEN /\ slots' = [slots EXCEPT ![c] = @ + 1]
                /\ Goto(r, "quota")
                /\ UNCHANGED audit
           ELSE Refuse(r) /\ UNCHANGED slots
      /\ UNCHANGED <<capOf, who, t0, def, failed, async, killVars, brk, caps, defs, now>>

\* SemaphoreSet.Release drains one slot if there is one.
ReleaseSlot(c) == slots' = [slots EXCEPT ![c] = IF @ > 0 THEN @ - 1 ELSE 0]

\* QuotaStore.GetDefinition: the principal's own definition, else the default.
DefinitionKey(c, p) == IF <<c, p>> \in DOMAIN defs THEN <<c, p>> ELSE <<c, AnyPrincipal>>

\* No definition is no constraint.
GetDefinition(r) ==
  LET k == DefinitionKey(capOf[r], who[r])
  IN  /\ pc[r] = "quota"
      /\ IF k \in DOMAIN defs
           THEN Goto(r, "usage") /\ def' = [def EXCEPT ![r] = defs[k]]
           ELSE Goto(r, "rate") /\ UNCHANGED def
      /\ UNCHANGED <<capOf, who, t0, failed, async, killVars, brk, semVars, defs, audit, now>>

\* A ceiling of zero is no ceiling.
QuotaExceeded(d, u) ==
  \/ d.rss > 0 /\ u.rss > d.rss
  \/ d.cpu > 0 /\ u.cpu > d.cpu

\* Usage that is incomplete, unreadable or over the ceiling refuses the request.
CurrentUsage(r) ==
  /\ pc[r] = "usage"
  /\ \E u \in Usages :
       Goto(r, IF u.complete /\ ~QuotaExceeded(def[r], u) THEN "rate" ELSE "rollback")
  /\ def' = [def EXCEPT ![r] = NoDef]
  /\ UNCHANGED <<capOf, who, t0, failed, async, killVars, brk, semVars, defs, audit, now>>

\* TokenBucketSet.Take: a token or none (TokenBucket models which).
Take(r) ==
  /\ pc[r] = "rate"
  /\ \E ok \in BOOLEAN : Goto(r, IF ok THEN "admitted" ELSE "rollback")
  /\ UNCHANGED <<capOf, who, t0, def, failed, async, killVars, brk, semVars, defs, audit, now>>

RollbackLeaks(r) ==
  /\ pc[r] = "rollback"
  /\ Refuse(r)
  /\ UNCHANGED <<capOf, who, t0, def, failed, async, killVars, brk, semVars, defs, now>>

\* A refusal after Acquire gives the slot back before it is audited.
Rollback(r) ==
  /\ pc[r] = "rollback"
  /\ ReleaseSlot(capOf[r])
  /\ Refuse(r)
  /\ UNCHANGED <<capOf, who, t0, def, failed, async, killVars, brk, chanCap, caps, defs, now>>

-----------------------------------------------------------------------------
(* The handlers behind the gate.                                           *)

\* A synchronous run or batch ends and its failure is audited, unless the
\* audit store refuses the row.
ExecutionEnds(r) ==
  /\ pc[r] = "admitted"
  /\ \E f \in BOOLEAN :
       /\ failed' = [failed EXCEPT ![r] = f]
       /\ (f /\ AuditRow(capOf[r], "execute")) \/ UNCHANGED audit
  /\ Goto(r, "record")
  /\ UNCHANGED <<capOf, who, t0, def, async, killVars, brk, semVars, defs, now>>

\* The handler returns before anything ran: bad body, bad target, failed plan.
HandlerReturnsEarly(r) ==
  /\ pc[r] = "admitted"
  /\ Goto(r, "release")
  /\ UNCHANGED <<capOf, who, t0, def, failed, async, killVars, brk, semVars, defs, audit, now>>

\* handleCreateExecution submits and returns; it never records an outcome.
SubmitAsync(r) ==
  /\ pc[r] = "admitted"
  /\ Goto(r, "release")
  /\ async' = async \cup {r}
  /\ UNCHANGED <<capOf, who, t0, def, failed, killVars, brk, semVars, defs, audit, now>>

AsyncEnds(r) ==
  /\ r \in async
  /\ async' = async \ {r}
  /\ AuditRow(capOf[r], "execute") \/ UNCHANGED audit
  /\ UNCHANGED <<pc, capOf, who, t0, def, failed, killVars, brk, semVars, defs, now>>

\* What RecordOutcome does to a breaker: the probe's outcome moves it out of
\* HalfOpen, a failure is counted for good.
AfterOutcome(b, f) ==
  LET counted == [b EXCEPT !.failureCount = IF f THEN @ + 1 ELSE @]
  IN  IF b.state # "HalfOpen" THEN counted
      ELSE IF f THEN [counted EXCEPT !.state = "Open", !.openedAt = now, !.probeAllowed = FALSE]
      ELSE [counted EXCEPT !.state = "Closed", !.probeAllowed = FALSE]

RecordOutcome(r) ==
  LET c == capOf[r]
  IN  /\ pc[r] = "record"
      /\ brk' = [brk EXCEPT ![c] = AfterOutcome(@, failed[r])]
      /\ failed' = [failed EXCEPT ![r] = FALSE]
      /\ Goto(r, "release")
      /\ UNCHANGED <<capOf, who, t0, def, async, killVars, semVars, defs, audit, now>>

\* The deferred Admission.Release of every handler.
Release(r) ==
  /\ pc[r] = "release"
  /\ ReleaseSlot(capOf[r])
  /\ Goto(r, "idle")
  /\ UNCHANGED <<capOf, who, t0, def, failed, async, killVars, brk, chanCap, caps,
                 defs, audit, now>>

-----------------------------------------------------------------------------
(* Operators, configuration and time.                                      *)

SetKilled(c) ==
  /\ Operators
  /\ killed' \in {killed \cup {c}, killed \ {c}}
  /\ UNCHANGED <<reqVars, pkilled, brk, semVars, defs, audit, now>>

SetPrincipalKilled(p) ==
  /\ Operators
  /\ pkilled' \in {pkilled \cup {p}, pkilled \ {p}}
  /\ UNCHANGED <<reqVars, killed, brk, semVars, defs, audit, now>>

SetDefinition(k, d) ==
  /\ defs' = [x \in DOMAIN defs \cup {k} |-> IF x = k THEN d ELSE defs[x]]
  /\ UNCHANGED <<reqVars, killVars, brk, semVars, audit, now>>

ClearDefinition(k) ==
  /\ defs' = [x \in DOMAIN defs \ {k} |-> defs[x]]
  /\ UNCHANGED <<reqVars, killVars, brk, semVars, audit, now>>

\* SetCap changes the configured cap; a channel that exists keeps its size.
SetCap(c, n) ==
  /\ caps' = [caps EXCEPT ![c] = n]
  /\ UNCHANGED <<reqVars, killVars, brk, slots, chanCap, defs, audit, now>>

Tick ==
  /\ now < MaxTime
  /\ now' = now + 1
  /\ UNCHANGED <<reqVars, killVars, brk, semVars, defs, audit>>

-----------------------------------------------------------------------------

\* The steps of the goroutine that serves r.
Serve(r) ==
  \/ CheckKill(r) \/ CheckPrincipalKill(r) \/ Evaluate(r) \/ Acquire(r)
  \/ GetDefinition(r) \/ CurrentUsage(r) \/ Take(r) \/ Rollback(r)
  \/ ExecutionEnds(r) \/ HandlerReturnsEarly(r) \/ SubmitAsync(r)
  \/ RecordOutcome(r) \/ Release(r)

Environment ==
  \/ \E c \in Caps : SetKilled(c)
  \/ \E p \in Principals : SetPrincipalKilled(p)
  \/ \E k \in QuotaKeys, d \in QuotaDefs : SetDefinition(k, d)
  \/ \E k \in QuotaKeys : ClearDefinition(k)
  \/ \E c \in Caps, n \in CapValues : SetCap(c, n)
  \/ Tick

Next ==
  \/ \E r \in Requests, c \in Caps, p \in Principals : Arrive(r, c, p)
  \/ \E r \in Requests : Serve(r) \/ AsyncEnds(r)
  \/ Environment

Spec == Init /\ [][Next]_vars

\* The goroutine of a request runs until its handler has returned.
FairSpec == Spec /\ \A r \in Requests : WF_vars(Serve(r))

-----------------------------------------------------------------------------
(* Properties.                                                             *)

\* Every variable holds a value of the type the code declares for it.
TypeOK ==
  /\ pc \in [Requests -> Pcs]
  /\ capOf \in [Requests -> Caps]
  /\ who \in [Requests -> Principals]
  /\ t0 \in [Requests -> Nat]
  /\ def \in [Requests -> [rss : Nat, cpu : Nat]]
  /\ failed \in [Requests -> BOOLEAN]
  /\ async \subseteq Requests
  /\ killed \subseteq Caps
  /\ pkilled \subseteq Principals
  /\ brk \in [Caps -> [state : {"Closed", "Open", "HalfOpen"}, failureCount : Nat,
                        openedAt : Nat, probeAllowed : BOOLEAN]]
  /\ slots \in [Caps -> Nat]
  /\ chanCap \in [Caps -> Nat]
  /\ caps \in [Caps -> Nat \ {0}]
  /\ DOMAIN defs \subseteq QuotaKeys
  /\ \A k \in DOMAIN defs : defs[k] \in [rss : Nat, cpu : Nat]
  /\ audit \in Seq([cap : Caps, action : {"execute", "protection"}, at : Nat])
  /\ now \in Nat

\* The occupied slots of a capability's semaphore are exactly the requests
\* between Acquire and Release: no path of Check or of a handler leaks a slot,
\* and no Release drains a slot that another request holds (semaphore.go,
\* gate.go: the rollbacks and Admission.Release).
SlotsAccounted == \A c \in Caps : slots[c] = Cardinality(Holders(c))

\* Never more requests of a capability past the concurrency guard than its
\* channel was made for, whatever the cap is set to later (semaphore.go Acquire).
ConcurrencyBound == \A c \in Caps : Cardinality(Holders(c)) <= chanCap[c]

\* Both of these: every slot is held by exactly one request that is past the
\* guard, and there are no more of them than the channel has (semaphore.go,
\* gate.go).
SlotsBounded == SlotsAccounted /\ ConcurrencyBound

\* A breaker is open only after FailureThreshold failed executions of its own
\* capability: the audit rows of the gate's own refusals never feed it
\* (main.go auditFailureReader, breaker.go RecordOutcome).
OpensOnlyOnExecutionFailures ==
  \A c \in Caps : brk[c].state # "Closed" =>
    \/ brk[c].failureCount >= FailureThreshold
    \/ Cardinality({i \in DOMAIN audit : audit[i].cap = c /\ audit[i].action = "execute"})
         >= FailureThreshold

\* A capability that stays killed is eventually and for good without a request
\* past the concurrency guard, although requests keep arriving (gate.go Check).
KillDrains == \A c \in Caps : <>[](c \in killed) => <>[](Holders(c) = {})
=============================================================================
