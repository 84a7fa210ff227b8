-------------------------- MODULE ProtectionProofs --------------------------
(***************************************************************************)
(* Proofs about ProtectionGate for any number of requests and              *)
(* capabilities, any caps and any interleaving of guards, handlers and     *)
(* operators: the concurrency guard, and what opens a breaker.  And about  *)
(* OperatorMutation for any number of operator requests, keys and crashes: *)
(* acknowledged kills and quotas hold.                                     *)
(***************************************************************************)
EXTENDS ProtectionGate, OperatorMutation,
        FiniteSetTheorems, SequenceTheorems, TLAPS

\* The part of the state the semaphore depends on is type correct, the slots
\* are accounted for and no channel is overfull.
SlotInv ==
  /\ pc \in [Requests -> Pcs]
  /\ capOf \in [Requests -> Caps]
  /\ slots \in [Caps -> Nat]
  /\ chanCap \in [Caps -> Nat]
  /\ caps \in [Caps -> Nat \ {0}]
  /\ SlotsAccounted
  /\ \A c \in Caps : slots[c] <= chanCap[c]

\* The holders of a slot are finitely many.
LEMMA HoldersFinite == ASSUME NEW c PROVE IsFiniteSet(Holders(c))
<1>1. Holders(c) \subseteq Requests
    BY DEF Holders
<1> QED
    BY <1>1, GateConstants, FS_Subset

\* A step of r that neither takes nor gives back a slot changes no holder set.
Neutral(r) ==
  /\ \E l \in Pcs : pc' = [pc EXCEPT ![r] = l] /\ (l \in HoldingPcs <=> pc[r] \in HoldingPcs)
  /\ \/ UNCHANGED capOf
     \/ pc[r] \notin HoldingPcs /\ \E c \in Caps : capOf' = [capOf EXCEPT ![r] = c]
  /\ UNCHANGED <<slots, chanCap, caps>>

\* A neutral step keeps every conjunct of the slot invariant.
LEMMA NeutralStep ==
  ASSUME NEW r \in Requests, SlotInv, Neutral(r) PROVE SlotInv'
<1>1. pc' \in [Requests -> Pcs] /\ capOf' \in [Requests -> Caps]
    BY DEF SlotInv, Neutral
<1>2. \A c \in Caps : Holders(c)' = Holders(c)
    BY DEF SlotInv, Neutral, Holders
<1>3. UNCHANGED <<slots, chanCap, caps>>
    BY DEF Neutral
<1> QED
    BY <1>1, <1>2, <1>3 DEF SlotInv, SlotsAccounted

\* A step of r that takes a slot of its capability's channel, of capacity n.
LEMMA TakeStep ==
  ASSUME NEW r \in Requests, SlotInv, NEW n \in Nat, pc[r] \notin HoldingPcs,
         chanCap[capOf[r]] \in {0, n},
         slots[capOf[r]] < n,
         pc' = [pc EXCEPT ![r] = "quota"], UNCHANGED <<capOf, caps>>,
         chanCap' = [chanCap EXCEPT ![capOf[r]] = n],
         slots' = [slots EXCEPT ![capOf[r]] = @ + 1]
  PROVE  SlotInv'
<1> DEFINE c == capOf[r]
<1>1. c \in Caps
    BY DEF SlotInv
<1>2. /\ pc' \in [Requests -> Pcs] /\ slots' \in [Caps -> Nat] /\ chanCap' \in [Caps -> Nat]
      /\ capOf' \in [Requests -> Caps] /\ caps' \in [Caps -> Nat \ {0}]
    BY <1>1 DEF SlotInv, Pcs, HoldingPcs
<1>3. Holders(c)' = Holders(c) \cup {r} /\ r \notin Holders(c)
    BY DEF SlotInv, Holders, HoldingPcs
<1>4. Cardinality(Holders(c)') = Cardinality(Holders(c)) + 1
    BY <1>3, HoldersFinite, FS_AddElement
<1>5. \A d \in Caps \ {c} : Holders(d)' = Holders(d)
    BY DEF SlotInv, Holders
<1>6. SlotsAccounted'
    BY <1>1, <1>4, <1>5 DEF SlotInv, SlotsAccounted
<1>7. \A d \in Caps : slots'[d] <= chanCap'[d]
    BY <1>1 DEF SlotInv
<1> QED
    BY <1>2, <1>6, <1>7 DEF SlotInv

\* A step of r that gives its slot back.
LEMMA GiveStep ==
  ASSUME NEW r \in Requests, SlotInv, pc[r] \in HoldingPcs,
         pc' = [pc EXCEPT ![r] = "idle"], UNCHANGED <<capOf, chanCap, caps>>,
         ReleaseSlot(capOf[r])
  PROVE  SlotInv'
<1> DEFINE c == capOf[r]
<1>1. c \in Caps
    BY DEF SlotInv
<1>2. r \in Holders(c) /\ Holders(c)' = Holders(c) \ {r}
    BY DEF SlotInv, Holders, HoldingPcs
<1>3. Cardinality(Holders(c)') = Cardinality(Holders(c)) - 1
    BY <1>2, HoldersFinite, FS_RemoveElement
<1>4. Cardinality(Holders(c)) # 0
    BY <1>2, HoldersFinite, FS_EmptySet
<1>5. slots[c] \in Nat /\ slots[c] > 0 /\ slots[c] = Cardinality(Holders(c))
    BY <1>1, <1>4 DEF SlotInv, SlotsAccounted
<1>6. slots' = [slots EXCEPT ![c] = slots[c] - 1]
    BY <1>5 DEF ReleaseSlot
<1>7. \A d \in Caps \ {c} : Holders(d)' = Holders(d)
    BY DEF SlotInv, Holders
<1>8. SlotsAccounted'
    BY <1>1, <1>3, <1>5, <1>6, <1>7 DEF SlotInv, SlotsAccounted
<1>9. /\ pc' \in [Requests -> Pcs] /\ slots' \in [Caps -> Nat] /\ chanCap' \in [Caps -> Nat]
      /\ capOf' \in [Requests -> Caps] /\ caps' \in [Caps -> Nat \ {0}]
    BY <1>1, <1>5, <1>6 DEF SlotInv, Pcs
<1>10. \A d \in Caps : slots'[d] <= chanCap'[d]
    BY <1>1, <1>5, <1>6 DEF SlotInv
<1> QED
    BY <1>8, <1>9, <1>10 DEF SlotInv

\* Every step of every request, operator and clock keeps the slots accounted.
LEMMA SlotStep == SlotInv /\ [Next]_vars => SlotInv'
<1> SUFFICES ASSUME SlotInv, [Next]_vars PROVE SlotInv'
    OBVIOUS
<1> USE DEF Goto, Refuse, Pcs, HoldingPcs
<1>1. ASSUME NEW r \in Requests, NEW c \in Caps, NEW p \in Principals, Arrive(r, c, p)
      PROVE  SlotInv'
  <2>1. pc[r] = "idle" /\ pc' = [pc EXCEPT ![r] = "kill"] /\ capOf' = [capOf EXCEPT ![r] = c]
    BY <1>1 DEF Arrive
  <2>2. Neutral(r)
    BY <1>1, <2>1 DEF Arrive, Neutral, semVars
  <2> QED
    BY <2>2, NeutralStep
<1>2. ASSUME NEW r \in Requests,
             \/ CheckKill(r) \/ CheckPrincipalKill(r) \/ GetDefinition(r) \/ CurrentUsage(r)
             \/ Take(r) \/ ExecutionEnds(r) \/ HandlerReturnsEarly(r) \/ SubmitAsync(r)
             \/ RecordOutcome(r)
      PROVE  SlotInv'
  <2>1. CASE CheckKill(r) \/ CheckPrincipalKill(r)
    BY <2>1, NeutralStep DEF CheckKill, CheckPrincipalKill, Neutral, semVars
  <2>2. CASE GetDefinition(r) \/ CurrentUsage(r) \/ Take(r)
    BY <2>2, NeutralStep DEF GetDefinition, CurrentUsage, Take, Neutral, semVars
  <2>3. CASE ExecutionEnds(r) \/ HandlerReturnsEarly(r) \/ SubmitAsync(r) \/ RecordOutcome(r)
    BY <2>3, NeutralStep
       DEF ExecutionEnds, HandlerReturnsEarly, SubmitAsync, RecordOutcome, Neutral, semVars
  <2> QED
    BY <1>2, <2>1, <2>2, <2>3
<1>3. ASSUME NEW r \in Requests, Evaluate(r) PROVE SlotInv'
    BY <1>3, NeutralStep DEF Evaluate, Neutral, semVars
<1>4. ASSUME NEW r \in Requests, Acquire(r) PROVE SlotInv'
  <2> DEFINE c == capOf[r]
             n == IF chanCap[c] = 0 THEN caps[c] ELSE chanCap[c]
  <2>1. c \in Caps /\ n \in Nat /\ chanCap[c] \in {0, n} /\ slots[c] <= chanCap[c]
    BY DEF SlotInv
  <2>2. CASE slots[c] < n
    BY <1>4, <2>1, <2>2, TakeStep DEF Acquire
  <2>3. CASE ~(slots[c] < n)
    <3>1. /\ pc' = [pc EXCEPT ![r] = "idle"] /\ pc[r] = "sem"
          /\ chanCap' = [chanCap EXCEPT ![c] = n]
          /\ UNCHANGED <<slots, caps, capOf>>
      BY <1>4, <2>3 DEF Acquire
    <3>a. slots[c] \in Nat /\ caps[c] \in Nat \ {0} /\ chanCap[c] \in Nat
      BY <2>1 DEF SlotInv
    <3>2. chanCap[c] # 0
      <4> SUFFICES ASSUME chanCap[c] = 0 PROVE FALSE
        OBVIOUS
      <4>1. n = caps[c] /\ slots[c] = 0
        BY <2>1, <3>a
      <4> QED
        BY <2>3, <3>a, <4>1
    <3>3. chanCap' = chanCap
      BY <2>1, <3>1, <3>2 DEF SlotInv
    <3>4. Neutral(r)
      <4>1. "idle" \in Pcs /\ ("idle" \in HoldingPcs <=> pc[r] \in HoldingPcs)
        BY <3>1
      <4> QED
        BY <3>1, <3>3, <4>1 DEF Neutral
    <3> QED
      BY <3>4, NeutralStep
  <2> QED
    BY <2>2, <2>3
<1>5. ASSUME NEW r \in Requests, Rollback(r) \/ Release(r) PROVE SlotInv'
  <2>1. /\ pc[r] \in HoldingPcs /\ pc' = [pc EXCEPT ![r] = "idle"] /\ ReleaseSlot(capOf[r])
        /\ UNCHANGED <<capOf, chanCap, caps>>
    BY <1>5 DEF Rollback, Release
  <2> HIDE DEF HoldingPcs
  <2> QED
    BY <2>1, GiveStep
<1>6. CASE Environment \/ (\E r \in Requests : AsyncEnds(r)) \/ UNCHANGED vars
  <2>a. ASSUME NEW c \in Caps, NEW n \in CapValues, SetCap(c, n)
        PROVE  UNCHANGED <<pc, capOf, slots, chanCap>> /\ caps' \in [Caps -> Nat \ {0}]
    <3>1. n \in Nat \ {0}
      BY GateConstants
    <3> QED
      BY <2>a, <3>1 DEF SetCap, reqVars, SlotInv
  <2>b. \/ \E c \in Caps, n \in CapValues : SetCap(c, n)
        \/ UNCHANGED <<pc, capOf, slots, chanCap, caps>>
    BY <1>6
       DEF Environment, SetKilled, SetPrincipalKilled, SetDefinition, ClearDefinition,
           Tick, AsyncEnds, vars, reqVars, semVars
  <2>1. UNCHANGED <<pc, capOf, slots, chanCap>> /\ caps' \in [Caps -> Nat \ {0}]
    BY <2>a, <2>b DEF SlotInv
  <2>2. \A c \in Caps : Holders(c)' = Holders(c)
    BY <2>1 DEF Holders
  <2> QED
    BY <2>1, <2>2 DEF SlotInv, SlotsAccounted
<1> QED
    BY <1>1, <1>2, <1>3, <1>4, <1>5, <1>6 DEF Next, Serve

\* SlotInv holds in every reachable state of the gate.
THEOREM SlotInvariance == Spec => []SlotInv
<1>1. Init => SlotInv
  <2> SUFFICES ASSUME Init PROVE SlotInv
    OBVIOUS
  <2>1. \A c \in Caps : Holders(c) = {}
    BY DEF Init, Holders, HoldingPcs
  <2>2. SlotsAccounted
    BY <2>1, FS_EmptySet DEF Init, SlotsAccounted
  <2> QED
    BY <2>2, GateConstants DEF Init, SlotInv, Pcs
<1> QED
    BY <1>1, SlotStep, PTL DEF Spec

\* No interleaving of guards, rollbacks and handlers leaks a slot or drains one
\* that another request holds (semaphore.go, gate.go Check and Release).
THEOREM Accounted == Spec => []SlotsAccounted
<1>1. SlotInv => SlotsAccounted
    BY DEF SlotInv
<1> QED
    BY <1>1, SlotInvariance, PTL

\* The requests past the concurrency guard never exceed the channel's capacity,
\* whatever SetCap is called with later (semaphore.go Acquire).
THEOREM Bounded == Spec => []ConcurrencyBound
<1>1. SlotInv => ConcurrencyBound
    BY DEF SlotInv, SlotsAccounted, ConcurrencyBound
<1> QED
    BY <1>1, SlotInvariance, PTL

\* Slots are accounted for and bounded at once (semaphore.go, gate.go).
THEOREM SlotsSafe == Spec => []SlotsBounded
<1>1. SlotsAccounted /\ ConcurrencyBound => SlotsBounded
    BY DEF SlotsBounded
<1> QED
    BY <1>1, Accounted, Bounded, PTL

-----------------------------------------------------------------------------
(* Type correctness.                                                       *)

BreakerType == [state : {"Closed", "Open", "HalfOpen"}, failureCount : Nat,
                openedAt : Nat, probeAllowed : BOOLEAN]
RowType == [cap : Caps, action : {"execute", "protection"}, at : Nat]

\* An audit row keeps the audit store a sequence of rows.
LEMMA AuditTyped ==
  ASSUME TypeOK, NEW c \in Caps, NEW a \in {"execute", "protection"}, AuditRow(c, a)
  PROVE  audit' \in Seq(RowType)
<1>1. [cap |-> c, action |-> a, at |-> now] \in RowType
    BY DEF TypeOK, RowType
<1> QED
    BY <1>1 DEF TypeOK, RowType, AuditRow

\* A refusal ends the request and keeps the audit store a sequence of rows.
LEMMA RefuseTyped ==
  ASSUME TypeOK, NEW r \in Requests, Refuse(r)
  PROVE  pc' \in [Requests -> Pcs] /\ audit' \in Seq(RowType)
<1>1. capOf[r] \in Caps
    BY DEF TypeOK
<1>2. audit' \in Seq(RowType)
    BY <1>1, AuditTyped DEF Refuse, TypeOK, RowType
<1> QED
    BY <1>2 DEF Refuse, Goto, TypeOK, Pcs

\* Evaluate leaves a breaker a breaker.
LEMMA VerdictTyped ==
  ASSUME NEW b \in BreakerType, NEW v, NEW t \in Nat
  PROVE  AfterVerdict(b, v, t) \in BreakerType
BY DEF AfterVerdict, BreakerType

\* RecordOutcome leaves a breaker a breaker.
LEMMA OutcomeTyped ==
  ASSUME NEW b \in BreakerType, NEW f \in BOOLEAN, now \in Nat
  PROVE  AfterOutcome(b, f) \in BreakerType
<1> DEFINE k == [b EXCEPT !.failureCount = IF f THEN @ + 1 ELSE @]
<1>1. k \in BreakerType
    BY DEF BreakerType
<1> HIDE DEF k
<1>2. [k EXCEPT !.state = "Open", !.openedAt = now, !.probeAllowed = FALSE] \in BreakerType
    BY <1>1 DEF BreakerType
<1>3. [k EXCEPT !.state = "Closed", !.probeAllowed = FALSE] \in BreakerType
    BY <1>1 DEF BreakerType
<1> QED
    BY <1>1, <1>2, <1>3 DEF AfterOutcome, k

\* Every step of the gate keeps the types.
LEMMA GateTypeStep == TypeOK /\ [Next]_vars => TypeOK'
<1> SUFFICES ASSUME TypeOK, [Next]_vars PROVE TypeOK'
    OBVIOUS
<1> USE DEF TypeOK, reqVars, killVars, semVars
<1>1. ASSUME NEW r \in Requests, NEW c \in Caps, NEW p \in Principals, Arrive(r, c, p)
      PROVE  TypeOK'
    BY <1>1 DEF Arrive, Goto, Pcs, HoldingPcs
<1>2. ASSUME NEW r \in Requests, CheckKill(r) PROVE TypeOK'
  <2>1. pc' \in [Requests -> Pcs] /\ audit' \in Seq(RowType)
    BY <1>2, RefuseTyped DEF CheckKill, Goto, Pcs, RowType
  <2> QED
    BY <1>2, <2>1 DEF CheckKill, RowType
<1>3. ASSUME NEW r \in Requests, CheckPrincipalKill(r) PROVE TypeOK'
  <2>1. pc' \in [Requests -> Pcs] /\ audit' \in Seq(RowType)
    BY <1>3, RefuseTyped DEF CheckPrincipalKill, Goto, Pcs, RowType
  <2> QED
    BY <1>3, <2>1 DEF CheckPrincipalKill, RowType
<1>4. ASSUME NEW r \in Requests, Evaluate(r) PROVE TypeOK'
  <2>1. capOf[r] \in Caps /\ t0[r] \in Nat /\ brk[capOf[r]] \in BreakerType
    BY DEF BreakerType
  <2>2. PICK v : /\ brk' = [brk EXCEPT ![capOf[r]] = AfterVerdict(@, v, t0[r])]
                 /\ IF v \in {"Open", "Unknown"} THEN Refuse(r)
                                                 ELSE Goto(r, "sem") /\ UNCHANGED audit
    BY <1>4 DEF Evaluate
  <2>3. brk' \in [Caps -> BreakerType]
    BY <2>1, <2>2, VerdictTyped DEF BreakerType
  <2>5. pc' \in [Requests -> Pcs] /\ audit' \in Seq(RowType)
    BY <2>2, RefuseTyped DEF Goto, Pcs, RowType
  <2> QED
    BY <1>4, <2>3, <2>5 DEF Evaluate, BreakerType, RowType
<1>5. ASSUME NEW r \in Requests, Acquire(r) PROVE TypeOK'
  <2>1. capOf[r] \in Caps
    OBVIOUS
  <2>2. pc' \in [Requests -> Pcs] /\ audit' \in Seq(RowType)
    BY <1>5, RefuseTyped DEF Acquire, Goto, Pcs, HoldingPcs, RowType
  <2>3. slots' \in [Caps -> Nat]
    <3>1. slots' = [slots EXCEPT ![capOf[r]] = @ + 1] \/ slots' = slots
      BY <1>5 DEF Acquire
    <3>2. slots \in [Caps -> Nat] /\ slots[capOf[r]] + 1 \in Nat
      BY <2>1
    <3> HIDE DEF TypeOK
    <3> QED
      BY <2>1, <3>1, <3>2
  <2>4. chanCap' \in [Caps -> Nat]
    <3>1. caps[capOf[r]] \in Nat /\ chanCap[capOf[r]] \in Nat
      BY <2>1
    <3> QED
      BY <1>5, <2>1, <3>1 DEF Acquire
  <2> QED
    BY <1>5, <2>2, <2>3, <2>4 DEF Acquire, RowType
<1>6. ASSUME NEW r \in Requests, GetDefinition(r) PROVE TypeOK'
    BY <1>6 DEF GetDefinition, Goto, Pcs, HoldingPcs
<1>7. ASSUME NEW r \in Requests, CurrentUsage(r) PROVE TypeOK'
    BY <1>7 DEF CurrentUsage, Goto, Pcs, HoldingPcs, NoDef
<1>8. ASSUME NEW r \in Requests, Take(r) PROVE TypeOK'
    BY <1>8 DEF Take, Goto, Pcs, HoldingPcs
<1>9. ASSUME NEW r \in Requests, Rollback(r) PROVE TypeOK'
  <2>1. pc' \in [Requests -> Pcs] /\ audit' \in Seq(RowType)
    BY <1>9, RefuseTyped DEF Rollback
  <2>2. slots' \in [Caps -> Nat]
    BY <1>9 DEF Rollback, ReleaseSlot
  <2> QED
    BY <1>9, <2>1, <2>2 DEF Rollback, RowType
<1>10. ASSUME NEW r \in Requests, ExecutionEnds(r) PROVE TypeOK'
  <2>0. capOf[r] \in Caps /\ audit \in Seq(RowType)
    BY DEF RowType
  <2>1. audit' \in Seq(RowType)
    <3>1. AuditRow(capOf[r], "execute") \/ UNCHANGED audit
      BY <1>10 DEF ExecutionEnds
    <3> QED
      BY <2>0, <3>1, AuditTyped
  <2>2. failed' \in [Requests -> BOOLEAN]
    BY <1>10 DEF ExecutionEnds
  <2> QED
    BY <1>10, <2>1, <2>2 DEF ExecutionEnds, Goto, Pcs, HoldingPcs, RowType
<1>11. ASSUME NEW r \in Requests, HandlerReturnsEarly(r) \/ SubmitAsync(r) PROVE TypeOK'
    BY <1>11 DEF HandlerReturnsEarly, SubmitAsync, Goto, Pcs, HoldingPcs
<1>12. ASSUME NEW r \in Requests, AsyncEnds(r) PROVE TypeOK'
  <2>1. audit' \in Seq(RowType)
    BY <1>12, AuditTyped DEF AsyncEnds, RowType
  <2> QED
    BY <1>12, <2>1 DEF AsyncEnds, RowType
<1>13. ASSUME NEW r \in Requests, RecordOutcome(r) PROVE TypeOK'
  <2>1. capOf[r] \in Caps /\ failed[r] \in BOOLEAN /\ brk[capOf[r]] \in BreakerType
    BY DEF BreakerType
  <2>2. brk' \in [Caps -> BreakerType]
    BY <1>13, <2>1, OutcomeTyped DEF RecordOutcome, BreakerType
  <2>3. failed' \in [Requests -> BOOLEAN]
    BY <1>13, <2>1 DEF RecordOutcome
  <2> QED
    BY <1>13, <2>2, <2>3 DEF RecordOutcome, Goto, Pcs, HoldingPcs, BreakerType
<1>14. ASSUME NEW r \in Requests, Release(r) PROVE TypeOK'
  <2>1. slots' \in [Caps -> Nat]
    BY <1>14 DEF Release, ReleaseSlot
  <2> QED
    BY <1>14, <2>1 DEF Release, Goto, Pcs
<1>15. CASE Environment
  <2>1. ASSUME NEW c \in Caps, SetKilled(c) PROVE TypeOK'
    BY <2>1 DEF SetKilled
  <2>2. ASSUME NEW p \in Principals, SetPrincipalKilled(p) PROVE TypeOK'
    BY <2>2 DEF SetPrincipalKilled
  <2>3. ASSUME NEW k \in QuotaKeys, NEW d \in QuotaDefs, SetDefinition(k, d) PROVE TypeOK'
    BY <2>3, GateConstants DEF SetDefinition
  <2>4. ASSUME NEW k \in QuotaKeys, ClearDefinition(k) PROVE TypeOK'
    BY <2>4 DEF ClearDefinition
  <2>5. ASSUME NEW c \in Caps, NEW n \in CapValues, SetCap(c, n) PROVE TypeOK'
    <3>1. n \in Nat \ {0}
      BY GateConstants
    <3> QED
      BY <2>5, <3>1 DEF SetCap
  <2>6. CASE Tick
    BY <2>6 DEF Tick
  <2> QED
    BY <1>15, <2>1, <2>2, <2>3, <2>4, <2>5, <2>6 DEF Environment
<1>16. CASE UNCHANGED vars
    BY <1>16 DEF vars
<1> QED
    BY <1>1, <1>2, <1>3, <1>4, <1>5, <1>6, <1>7, <1>8, <1>9, <1>10, <1>11, <1>12, <1>13, <1>14,
       <1>15, <1>16
       DEF Next, Serve

\* Every reachable state of the gate is type correct.
THEOREM GateTypeCorrect == Spec => []TypeOK
<1>1. Init => TypeOK
    BY GateConstants DEF Init, TypeOK, Pcs, NoDef, NewBreaker, QuotaKeys
<1> QED
    BY <1>1, GateTypeStep, PTL DEF Spec

-----------------------------------------------------------------------------
(* What opens a breaker.                                                   *)

\* The audit rows on failed executions of a capability.
FailuresOf(rows, c) == {i \in DOMAIN rows : rows[i].cap = c /\ rows[i].action = "execute"}

Tripped(c) == \/ brk[c].failureCount >= FailureThreshold
              \/ Cardinality(FailuresOf(audit, c)) >= FailureThreshold

LEMMA FailuresFinite ==
  ASSUME NEW rows \in Seq(RowType), NEW c
  PROVE  IsFiniteSet(FailuresOf(rows, c)) /\ Cardinality(FailuresOf(rows, c)) \in Nat
<1>1. DOMAIN rows = 1 .. Len(rows) /\ Len(rows) \in Nat
    OBVIOUS
<1>2. \A a, b \in Int : IsFiniteSet(a .. b)
    BY FS_Interval
<1>3. IsFiniteSet(1 .. Len(rows))
    BY <1>1, <1>2
<1>4. FailuresOf(rows, c) \subseteq 1 .. Len(rows)
    BY <1>1 DEF FailuresOf
<1> QED
    BY <1>3, <1>4, FS_Subset, FS_CardinalityType

\* Rows are only added, so the failures on record only grow.
LEMMA FailuresGrow ==
  ASSUME NEW rows \in Seq(RowType), NEW more \in Seq(RowType), NEW c,
         more = rows \/ \E row \in RowType : more = Append(rows, row)
  PROVE  Cardinality(FailuresOf(more, c)) >= Cardinality(FailuresOf(rows, c))
<1>1. FailuresOf(rows, c) \subseteq FailuresOf(more, c)
  <2>1. ASSUME NEW row \in RowType, more = Append(rows, row)
        PROVE  FailuresOf(rows, c) \subseteq FailuresOf(more, c)
    <3>1. /\ DOMAIN more = 1 .. Len(rows) + 1 /\ DOMAIN rows = 1 .. Len(rows) /\ Len(rows) \in Nat
          /\ \A i \in 1 .. Len(rows) : more[i] = rows[i]
      BY <2>1, AppendProperties
    <3> QED
      BY <3>1 DEF FailuresOf
  <2> QED
    BY <2>1
<1> QED
    BY <1>1, FailuresFinite, FS_Subset

\* Evidence that makes a closed breaker open is failures of its capability.
LEMMA VerdictEarned ==
  ASSUME TypeOK, NEW c \in Caps, ClosedVerdict(brk[c], RecentFailures(c)) = "Open"
  PROVE  Tripped(c)
<1> DEFINE W == {i \in Page : audit[i].cap = c /\ audit[i].at >= now - Window}
           w == RecentFailures(c)
<1>0. audit \in Seq(RowType)
    BY DEF TypeOK, RowType
<1>1. W \subseteq FailuresOf(audit, c)
    BY DEF Page, ExecutionFailures, FailuresOf
<1>2. Cardinality(W) <= Cardinality(FailuresOf(audit, c)) /\ Cardinality(W) \in Nat
  <2> HIDE DEF W
  <2> QED
    BY <1>0, <1>1, FailuresFinite, FS_Subset, FS_CardinalityType
<1>3. w.count = Cardinality(W)
    BY DEF RecentFailures
<1>4. brk[c].failureCount >= FailureThreshold \/ w.count >= FailureThreshold
    BY DEF ClosedVerdict
<1>5. Cardinality(FailuresOf(audit, c)) \in Nat /\ FailureThreshold \in Nat
    BY <1>0, FailuresFinite, GateConstants
<1> HIDE DEF W, w
<1> QED
    BY <1>2, <1>3, <1>4, <1>5 DEF Tripped

LEMMA VerdictFacts ==
  ASSUME NEW b \in BreakerType, NEW v, NEW t \in Nat
  PROVE  /\ AfterVerdict(b, v, t).failureCount = b.failureCount
         /\ AfterVerdict(b, v, t).state # "Closed" => b.state # "Closed" \/ v = "Open"
BY DEF AfterVerdict, BreakerType

LEMMA OutcomeFacts ==
  ASSUME NEW b \in BreakerType, NEW f \in BOOLEAN
  PROVE  /\ AfterOutcome(b, f).failureCount >= b.failureCount
         /\ AfterOutcome(b, f).state # "Closed" => b.state # "Closed"
<1> DEFINE k == [b EXCEPT !.failureCount = IF f THEN @ + 1 ELSE @]
<1>1. k.failureCount >= b.failureCount /\ k.state = b.state /\ k \in BreakerType
    BY DEF BreakerType
<1>2. AfterOutcome(b, f).failureCount = k.failureCount
  <2> HIDE DEF k
  <2> QED
    BY <1>1 DEF AfterOutcome, BreakerType, k
<1>3. AfterOutcome(b, f).state # "Closed" => b.state # "Closed"
  <2> QED
    BY <1>1 DEF AfterOutcome, BreakerType
<1> QED
    BY <1>1, <1>2, <1>3

\* Every step keeps what opened a breaker on record.
LEMMA TrippedStep ==
  ASSUME TypeOK, TypeOK', OpensOnlyOnExecutionFailures, [Next]_vars
  PROVE  OpensOnlyOnExecutionFailures'
<1> USE DEF reqVars, killVars, semVars
<1>a. FailureThreshold \in Nat
    BY GateConstants
<1>b. OpensOnlyOnExecutionFailures <=> \A c \in Caps : brk[c].state # "Closed" => Tripped(c)
    BY DEF OpensOnlyOnExecutionFailures, Tripped, FailuresOf
<1>c. OpensOnlyOnExecutionFailures' <=> \A c \in Caps : brk'[c].state # "Closed" => Tripped(c)'
    BY DEF OpensOnlyOnExecutionFailures, Tripped, FailuresOf
<1>d. \A c \in Caps : brk[c] \in BreakerType /\ brk'[c] \in BreakerType
    BY DEF TypeOK, BreakerType
<1>e. \A b \in BreakerType : b.failureCount \in Nat
    BY DEF BreakerType
<1>f. \A r \in Requests : capOf[r] \in Caps
    BY DEF TypeOK
<1>g. audit \in Seq(RowType) /\ audit' \in Seq(RowType)
    BY DEF TypeOK, RowType
<1>0. \/ audit' = audit
      \/ \E d \in Caps, a \in {"execute", "protection"} : AuditRow(d, a)
    BY <1>f DEF Next, Serve, Environment, Arrive, CheckKill, CheckPrincipalKill, Evaluate, Acquire,
           GetDefinition, CurrentUsage, Take, Rollback, ExecutionEnds, HandlerReturnsEarly,
           SubmitAsync, RecordOutcome, Release, AsyncEnds, SetKilled, SetPrincipalKilled,
           SetDefinition, ClearDefinition, SetCap, Tick, Refuse, vars
<1>1. audit' = audit \/ \E row \in RowType : audit' = Append(audit, row)
  <2>1. \A d \in Caps, a \in {"execute", "protection"} : [cap |-> d, action |-> a, at |-> now] \in RowType
    BY DEF TypeOK, RowType
  <2> QED
    BY <1>0, <2>1 DEF AuditRow
<1>2. \A c \in Caps : brk'[c].failureCount >= brk[c].failureCount /\ Tripped(c) => Tripped(c)'
  <2> TAKE c \in Caps
  <2>1. /\ Cardinality(FailuresOf(audit', c)) >= Cardinality(FailuresOf(audit, c))
        /\ Cardinality(FailuresOf(audit, c)) \in Nat /\ Cardinality(FailuresOf(audit', c)) \in Nat
    BY <1>1, <1>g, FailuresGrow, FailuresFinite
  <2>2. brk[c].failureCount \in Nat /\ brk'[c].failureCount \in Nat
    BY <1>d, <1>e
  <2> QED
    BY <1>a, <2>1, <2>2 DEF Tripped
<1>3. ASSUME NEW r \in Requests, Evaluate(r)
      PROVE  \A c \in Caps : brk'[c].state # "Closed" => Tripped(c)'
  <2> DEFINE d == capOf[r]
  <2>1. PICK v \in Verdicts(d, t0[r]) : brk' = [brk EXCEPT ![d] = AfterVerdict(brk[d], v, t0[r])]
    BY <1>3 DEF Evaluate
  <2>2. d \in Caps /\ t0[r] \in Nat /\ brk \in [Caps -> BreakerType]
    BY DEF TypeOK, BreakerType
  <2>3. /\ brk'[d] = AfterVerdict(brk[d], v, t0[r])
        /\ \A c \in Caps \ {d} : brk'[c] = brk[c]
    BY <2>1, <2>2
  <2>4. /\ brk'[d].failureCount = brk[d].failureCount
        /\ brk'[d].state # "Closed" => brk[d].state # "Closed" \/ v = "Open"
    BY <1>d, <2>2, <2>3, VerdictFacts
  <2>5. v = "Open" => Tripped(d)
    <3>1. CASE brk[d].state \in {"Open", "HalfOpen"}
      BY <1>b, <2>2, <3>1
    <3>2. CASE brk[d].state \notin {"Open", "HalfOpen"}
      <4>1. v \in {ClosedVerdict(brk[d], RecentFailures(d)), "Unknown"}
        BY <3>2 DEF Verdicts
      <4> QED
        BY <2>2, <4>1, VerdictEarned
    <3> QED
      BY <3>1, <3>2
  <2>6. \A c \in Caps : brk'[c].failureCount = brk[c].failureCount /\ brk[c].failureCount \in Nat
    BY <1>d, <1>e, <2>3, <2>4
  <2>7. \A c \in Caps : brk'[c].state # "Closed" => Tripped(c)
    BY <1>b, <2>3, <2>4, <2>5
  <2> QED
    BY <1>2, <2>6, <2>7
<1>4. ASSUME NEW r \in Requests, RecordOutcome(r)
      PROVE  \A c \in Caps : brk'[c].state # "Closed" => Tripped(c)'
  <2> DEFINE d == capOf[r]
  <2>1. d \in Caps /\ failed[r] \in BOOLEAN /\ brk \in [Caps -> BreakerType]
    BY DEF TypeOK, BreakerType
  <2>2. /\ brk'[d] = AfterOutcome(brk[d], failed[r])
        /\ \A c \in Caps \ {d} : brk'[c] = brk[c]
    BY <1>4, <2>1 DEF RecordOutcome
  <2>3. \A c \in Caps : /\ brk'[c].failureCount >= brk[c].failureCount
                        /\ brk'[c].state # "Closed" => brk[c].state # "Closed"
    <3>1. /\ brk'[d].failureCount >= brk[d].failureCount
          /\ brk'[d].state # "Closed" => brk[d].state # "Closed"
      BY <1>d, <2>1, <2>2, OutcomeFacts
    <3>2. \A c \in Caps : brk[c].failureCount \in Nat
      BY <1>d, <1>e
    <3> QED
      BY <2>2, <3>1, <3>2
  <2> QED
    BY <1>b, <1>2, <2>3
<1>5. CASE UNCHANGED brk
  <2>1. \A c \in Caps : brk'[c].failureCount >= brk[c].failureCount
    BY <1>5, <1>d, <1>e
  <2> QED
    BY <1>b, <1>c, <1>2, <1>5, <2>1
<1>6. (\E r \in Requests : Evaluate(r) \/ RecordOutcome(r)) \/ UNCHANGED brk
    BY DEF Next, Serve, Environment, Arrive, CheckKill, CheckPrincipalKill, Acquire,
           GetDefinition, CurrentUsage, Take, Rollback, ExecutionEnds, HandlerReturnsEarly,
           SubmitAsync, Release, AsyncEnds, SetKilled, SetPrincipalKilled,
           SetDefinition, ClearDefinition, SetCap, Tick, vars
<1> QED
    BY <1>c, <1>3, <1>4, <1>5, <1>6

\* For any number of requests, capabilities, operators and any audit limit, a
\* breaker is open only on FailureThreshold failed executions of its own
\* capability; the gate's own refusals do not feed it (main.go
\* auditFailureReader, breaker.go Evaluate and RecordOutcome).
THEOREM BreakerEarned == Spec => []OpensOnlyOnExecutionFailures
<1>1. Init => OpensOnlyOnExecutionFailures
    BY DEF Init, OpensOnlyOnExecutionFailures, NewBreaker
<1> QED
    BY <1>1, TrippedStep, GateTypeCorrect, PTL DEF Spec

-----------------------------------------------------------------------------
(* The kill and quota stores and their operator mutations.                 *)

\* No request is in flight before the stores are loaded.
ServedAfterBootstrap == \A o \in Ops : InFlight(o) => state # "Uninitialized"

\* Requests that oppose each other while both are in flight know it.
CleanInv ==
  \A o, x \in Ops : InFlight(o) /\ InFlight(x) /\ clean[o] => ~Opposes(job[x], job[o])

\* A set of keys is as a job wants it.
Done(set, j) == (j.want => j.key \in set) /\ (~j.want => j.key \notin set)

\* An unopposed request finds its write on disk, and then its projection in
\* memory, as it left them.
WrittenInv ==
  \A o \in Ops : clean[o] =>
    /\ stage[o] \in {"project", "meta", "outcome"} => Done(disk[job[o].store], job[o])
    /\ stage[o] \in {"meta", "outcome"} => Done(mem[job[o].store], job[o])

\* The store's memory is the projection of what was loaded.
Live(s) == IF s = "kill" THEN state = "Ready" ELSE loaded

\* What was acknowledged is on disk and, in a store that was loaded, in memory,
\* and no request in flight is about to undo it.
SettledInv ==
  \A s \in Stores, k \in Keys :
    /\ settled[s][k] = "set" => /\ k \in disk[s]
                                /\ Live(s) => k \in mem[s]
                                /\ \A o \in Ops : InFlight(o) /\ job[o].store = s /\ job[o].key = k
                                                    => job[o].want
    /\ settled[s][k] = "clear" => /\ k \notin disk[s]
                                  /\ Live(s) => k \notin mem[s]
                                  /\ \A o \in Ops : InFlight(o) /\ job[o].store = s /\ job[o].key = k
                                                      => ~job[o].want

\* A request that is about to write has its intent in the audit trail.
IntentInv ==
  \A o \in Ops : stage[o] = "persist" => <<job[o].store, job[o].key, job[o].want>> \in trail

IInv == /\ MTypeOK /\ ServedAfterBootstrap /\ CleanInv /\ WrittenInv /\ SettledInv
        /\ IntentInv /\ NothingWithoutIntent

-----------------------------------------------------------------------------

\* Each of the four handlers begins a request of the service it calls.
LEMMA HandlersBegin ==
  ASSUME NEW o \in Ops, NEW k \in Keys,
         HandleKill(o, k) \/ HandleRelease(o, k) \/ HandleQuotaSet(o, k) \/ HandleQuotaClear(o, k)
  PROVE  \E j \in Jobs : Begin(o, j)
<1>1. \A s \in Stores, w \in BOOLEAN : [store |-> s, key |-> k, want |-> w] \in Jobs
    BY DEF Jobs
<1> QED
    BY <1>1, Zenon DEF Stores, HandleKill, HandleRelease, HandleQuotaSet, HandleQuotaClear

\* Every step keeps the types.
LEMMA TypeStep ==
  MTypeOK /\ [MNext]_mvars => MTypeOK'
<1> SUFFICES ASSUME MTypeOK, [MNext]_mvars PROVE MTypeOK'
    OBVIOUS
<1> USE DEF MTypeOK, Jobs, Stores
<1>1. CASE Bootstrap
    BY <1>1 DEF Bootstrap, Loaded, opVars
<1>2. CASE Crash
  <2>1. mem' \in [Stores -> SUBSET Keys] /\ stage' \in [Ops -> {"idle"}]
    BY <1>2 DEF Crash
  <2>2. crashes' \in Nat /\ state' = "Uninitialized" /\ loaded' = FALSE /\ opMeta' = {}
    BY <1>2 DEF Crash
  <2> QED
    BY <1>2, <2>1, <2>2 DEF Crash
<1>3. ASSUME NEW o \in Ops, NEW j \in Jobs, Begin(o, j) PROVE MTypeOK'
    BY <1>3 DEF Begin, Enter
<1>4. ASSUME NEW o \in Ops, WriteIntent(o) PROVE MTypeOK'
    BY <1>4 DEF WriteIntent, Enter, With
<1>5. ASSUME NEW o \in Ops, Persist(o) PROVE MTypeOK'
    BY <1>5 DEF Persist, Enter, With
<1>6. ASSUME NEW o \in Ops, Project(o) PROVE MTypeOK'
    BY <1>6 DEF Project, Enter, With
<1>7. ASSUME NEW o \in Ops, RecordMeta(o) PROVE MTypeOK'
    BY <1>7 DEF RecordMeta, Enter, With
<1>8. ASSUME NEW o \in Ops, WriteOutcome(o) PROVE MTypeOK'
    BY <1>8 DEF WriteOutcome, Enter, With
<1>9. CASE UNCHANGED mvars
    BY <1>9 DEF mvars, opVars
<1> QED
    BY HandlersBegin, <1>1, <1>2, <1>3, <1>4, <1>5, <1>6, <1>7, <1>8, <1>9 DEF MNext

\* No request starts before the stores are loaded.
LEMMA ServedStep ==
  MTypeOK /\ ServedAfterBootstrap /\ [MNext]_mvars => ServedAfterBootstrap'
<1> SUFFICES ASSUME MTypeOK, ServedAfterBootstrap, [MNext]_mvars PROVE ServedAfterBootstrap'
    OBVIOUS
<1> USE DEF MTypeOK, ServedAfterBootstrap, InFlight
<1>1. CASE Bootstrap
    BY <1>1 DEF Bootstrap, Loaded, opVars
<1>2. CASE Crash
    BY <1>2 DEF Crash
<1>3. ASSUME NEW o \in Ops, NEW j \in Jobs, Begin(o, j) PROVE ServedAfterBootstrap'
    BY <1>3 DEF Begin, Enter
<1>4. ASSUME NEW o \in Ops, WriteIntent(o) PROVE ServedAfterBootstrap'
    BY <1>4 DEF WriteIntent, Enter, With
<1>5. ASSUME NEW o \in Ops, Persist(o) PROVE ServedAfterBootstrap'
    BY <1>5 DEF Persist, Enter, With
<1>6. ASSUME NEW o \in Ops, Project(o) PROVE ServedAfterBootstrap'
    BY <1>6 DEF Project, Enter, With
<1>7. ASSUME NEW o \in Ops, RecordMeta(o) PROVE ServedAfterBootstrap'
    BY <1>7 DEF RecordMeta, Enter, With
<1>8. ASSUME NEW o \in Ops, WriteOutcome(o) PROVE ServedAfterBootstrap'
    BY <1>8 DEF WriteOutcome, Enter, With
<1>9. CASE UNCHANGED mvars
    BY <1>9 DEF mvars, opVars
<1> QED
    BY HandlersBegin, <1>1, <1>2, <1>3, <1>4, <1>5, <1>6, <1>7, <1>8, <1>9 DEF MNext

\* Overlapping opposite requests are noticed by both.
LEMMA CleanStep ==
  MTypeOK /\ CleanInv /\ [MNext]_mvars => CleanInv'
<1> SUFFICES ASSUME MTypeOK, CleanInv, [MNext]_mvars PROVE CleanInv'
    OBVIOUS
<1> USE DEF MTypeOK, CleanInv, InFlight, Opposes, Jobs
<1>1. CASE Bootstrap
    BY <1>1 DEF Bootstrap, Loaded, opVars
<1>2. CASE Crash
    BY <1>2 DEF Crash
<1>3. ASSUME NEW o \in Ops, NEW j \in Jobs, Begin(o, j) PROVE CleanInv'
    BY <1>3, ZenonT(40) DEF Begin, Enter
<1>4. ASSUME NEW o \in Ops, WriteIntent(o) PROVE CleanInv'
  <2>1. UNCHANGED <<job, clean>> /\ \A x \in Ops : InFlight(x)' => InFlight(x)
    BY <1>4 DEF WriteIntent, Enter
  <2> HIDE DEF InFlight, Opposes
  <2> QED
    BY <2>1 DEF Opposes
<1>5. ASSUME NEW o \in Ops, Persist(o) PROVE CleanInv'
  <2>1. UNCHANGED <<job, clean>> /\ \A x \in Ops : InFlight(x)' => InFlight(x)
    BY <1>5 DEF Persist, Enter
  <2> HIDE DEF InFlight, Opposes
  <2> QED
    BY <2>1 DEF Opposes
<1>6. ASSUME NEW o \in Ops, Project(o) PROVE CleanInv'
    BY <1>6 DEF Project, Enter, With
<1>7. ASSUME NEW o \in Ops, RecordMeta(o) PROVE CleanInv'
    BY <1>7 DEF RecordMeta, Enter, With
<1>8. ASSUME NEW o \in Ops, WriteOutcome(o) PROVE CleanInv'
    BY <1>8 DEF WriteOutcome, Enter, With
<1>9. CASE UNCHANGED mvars
    BY <1>9 DEF mvars, opVars
<1> QED
    BY HandlersBegin, <1>1, <1>2, <1>3, <1>4, <1>5, <1>6, <1>7, <1>8, <1>9 DEF MNext

\* Nobody overwrites the write of an unopposed request.
LEMMA WrittenStep ==
  MTypeOK /\ ServedAfterBootstrap /\ CleanInv /\ WrittenInv /\ [MNext]_mvars => WrittenInv'
<1> SUFFICES ASSUME MTypeOK, ServedAfterBootstrap, CleanInv, WrittenInv, [MNext]_mvars PROVE WrittenInv'
    OBVIOUS
<1> USE DEF MTypeOK, ServedAfterBootstrap, CleanInv, WrittenInv, InFlight, Opposes, Done, Jobs, Stores
<1>1. CASE Bootstrap
    BY <1>1 DEF Bootstrap, Loaded, opVars
<1>2. CASE Crash
    BY <1>2 DEF Crash
<1>3. ASSUME NEW o \in Ops, NEW j \in Jobs, Begin(o, j) PROVE WrittenInv'
    BY <1>3 DEF Begin, Enter
<1>4. ASSUME NEW o \in Ops, WriteIntent(o) PROVE WrittenInv'
    BY <1>4 DEF WriteIntent, Enter, With
<1>5. ASSUME NEW o \in Ops, Persist(o) PROVE WrittenInv'
    BY <1>5 DEF Persist, Enter, With
<1>6. ASSUME NEW o \in Ops, Project(o) PROVE WrittenInv'
    BY <1>6 DEF Project, Enter, With
<1>7. ASSUME NEW o \in Ops, RecordMeta(o) PROVE WrittenInv'
    BY <1>7 DEF RecordMeta, Enter, With
<1>8. ASSUME NEW o \in Ops, WriteOutcome(o) PROVE WrittenInv'
    BY <1>8 DEF WriteOutcome, Enter, With
<1>9. CASE UNCHANGED mvars
    BY <1>9 DEF mvars, opVars
<1> QED
    BY HandlersBegin, <1>1, <1>2, <1>3, <1>4, <1>5, <1>6, <1>7, <1>8, <1>9 DEF MNext

\* What was acknowledged stays.
LEMMA SettledStep ==
  MTypeOK /\ ServedAfterBootstrap /\ CleanInv /\ WrittenInv /\ SettledInv /\ [MNext]_mvars => SettledInv'
<1> SUFFICES ASSUME MTypeOK, ServedAfterBootstrap, CleanInv, WrittenInv, SettledInv, [MNext]_mvars PROVE SettledInv'
    OBVIOUS
<1> USE DEF MTypeOK, ServedAfterBootstrap, CleanInv, WrittenInv, SettledInv, Live, InFlight, Opposes, Done, Jobs, Stores
<1>1. CASE Bootstrap
    BY <1>1 DEF Bootstrap, Loaded, opVars
<1>2. CASE Crash
    BY <1>2 DEF Crash
<1>3. ASSUME NEW o \in Ops, NEW j \in Jobs, Begin(o, j) PROVE SettledInv'
    BY <1>3 DEF Begin, Enter
<1>4. ASSUME NEW o \in Ops, WriteIntent(o) PROVE SettledInv'
    BY <1>4 DEF WriteIntent, Enter, With
<1>5. ASSUME NEW o \in Ops, Persist(o) PROVE SettledInv'
    BY <1>5 DEF Persist, Enter, With
<1>6. ASSUME NEW o \in Ops, Project(o) PROVE SettledInv'
    BY <1>6 DEF Project, Enter, With
<1>7. ASSUME NEW o \in Ops, RecordMeta(o) PROVE SettledInv'
    BY <1>7 DEF RecordMeta, Enter, With
<1>8. ASSUME NEW o \in Ops, WriteOutcome(o) PROVE SettledInv'
    BY <1>8, SMTT(40) DEF WriteOutcome, Enter, With
<1>9. CASE UNCHANGED mvars
    BY <1>9 DEF mvars, opVars
<1> QED
    BY HandlersBegin, <1>1, <1>2, <1>3, <1>4, <1>5, <1>6, <1>7, <1>8, <1>9 DEF MNext

\* An intent precedes every write.
LEMMA IntentStep ==
  MTypeOK /\ IntentInv /\ NothingWithoutIntent /\ [MNext]_mvars => (IntentInv /\ NothingWithoutIntent)'
<1> SUFFICES ASSUME MTypeOK, IntentInv, NothingWithoutIntent, [MNext]_mvars PROVE (IntentInv /\ NothingWithoutIntent)'
    OBVIOUS
<1> USE DEF MTypeOK, IntentInv, NothingWithoutIntent, Jobs, Stores
<1>1. CASE Bootstrap
    BY <1>1 DEF Bootstrap, Loaded, opVars
<1>2. CASE Crash
    BY <1>2 DEF Crash
<1>3. ASSUME NEW o \in Ops, NEW j \in Jobs, Begin(o, j) PROVE (IntentInv /\ NothingWithoutIntent)'
    BY <1>3 DEF Begin, Enter
<1>4. ASSUME NEW o \in Ops, WriteIntent(o) PROVE (IntentInv /\ NothingWithoutIntent)'
    BY <1>4 DEF WriteIntent, Enter, With
<1>5. ASSUME NEW o \in Ops, Persist(o) PROVE (IntentInv /\ NothingWithoutIntent)'
  <2>1. IntentInv'
    BY <1>5 DEF Persist, Enter
  <2>2. \A s \in Stores : \A k \in disk'[s] :
          k \in disk[s] \/ (job[o].store = s /\ job[o].key = k /\ job[o].want)
    BY <1>5 DEF Persist, With
  <2>3. <<job[o].store, job[o].key, job[o].want>> \in trail /\ trail' = trail
    BY <1>5 DEF Persist
  <2>4. job[o].want => job[o].want = TRUE
    OBVIOUS
  <2> QED
    BY <2>1, <2>2, <2>3, <2>4
<1>6. ASSUME NEW o \in Ops, Project(o) PROVE (IntentInv /\ NothingWithoutIntent)'
    BY <1>6 DEF Project, Enter, With
<1>7. ASSUME NEW o \in Ops, RecordMeta(o) PROVE (IntentInv /\ NothingWithoutIntent)'
    BY <1>7 DEF RecordMeta, Enter, With
<1>8. ASSUME NEW o \in Ops, WriteOutcome(o) PROVE (IntentInv /\ NothingWithoutIntent)'
    BY <1>8 DEF WriteOutcome, Enter, With
<1>9. CASE UNCHANGED mvars
    BY <1>9 DEF mvars, opVars
<1> QED
    BY HandlersBegin, <1>1, <1>2, <1>3, <1>4, <1>5, <1>6, <1>7, <1>8, <1>9 DEF MNext

\* The inductive invariant holds in every reachable state.
THEOREM Invariance == MSpec => []IInv
<1>1. MInit => IInv
  <2> SUFFICES ASSUME MInit PROVE IInv
    OBVIOUS
  <2>1. (CHOOSE j \in Jobs : TRUE) \in Jobs
    <3>1. PICK k \in Keys : TRUE
      BY MutationConstants
    <3>2. [store |-> "kill", key |-> k, want |-> TRUE] \in Jobs
      BY DEF Jobs, Stores
    <3> QED
      BY <3>2
  <2>2. job \in [Ops -> Jobs]
    BY <2>1 DEF MInit
  <2>3. MTypeOK
    BY <2>2 DEF MInit, MTypeOK, Stores
  <2> QED
    BY <2>3
       DEF MInit, IInv, ServedAfterBootstrap, CleanInv, WrittenInv, SettledInv, IntentInv,
           NothingWithoutIntent, InFlight, Stores
<1>2. IInv /\ [MNext]_mvars => IInv'
    BY TypeStep, ServedStep, CleanStep, WrittenStep, SettledStep, IntentStep DEF IInv
<1> QED
    BY <1>1, <1>2, PTL DEF MSpec

-----------------------------------------------------------------------------

\* Every reachable state of the two stores is type correct.
THEOREM TypeCorrect == MSpec => []MTypeOK
<1>1. IInv => MTypeOK
    BY DEF IInv
<1> QED
    BY Invariance, <1>1, PTL

\* An acknowledged kill that nothing opposed holds at every admission check,
\* through crashes and failed loads (killstore.go: write through, fail closed).
THEOREM KillHolds == MSpec => []AckedKillHolds
<1>1. IInv => AckedKillHolds
    BY DEF IInv, SettledInv, Live, AckedKillHolds, IsKilled, Stores
<1> QED
    BY Invariance, <1>1, PTL

\* An acknowledged quota change that nothing opposed is what the gate reads
\* from a store that was loaded (quota.go).
THEOREM QuotaHolds == MSpec => []AckedQuotaHolds
<1>1. IInv => AckedQuotaHolds
    BY DEF IInv, SettledInv, Live, AckedQuotaHolds, Stores
<1> QED
    BY Invariance, <1>1, PTL

\* Both stores honour every acknowledged, unopposed mutation (killstore.go,
\* quota.go: write through to disk, then projection to memory).
THEOREM MutationsHold == MSpec => []AckedMutationsHold
<1>1. IInv => AckedKillHolds /\ AckedQuotaHolds
    BY DEF IInv, SettledInv, Live, AckedKillHolds, AckedQuotaHolds, IsKilled, Stores
<1> QED
    BY Invariance, <1>1, PTL DEF AckedMutationsHold

\* Whatever fails or crashes, nothing reaches the disk before its audit intent
\* (killmutation.go, quotamutation.go).
THEOREM IntentFirst == MSpec => []NothingWithoutIntent
<1>1. IInv => NothingWithoutIntent
    BY DEF IInv
<1> QED
    BY Invariance, <1>1, PTL
=============================================================================
