----------------------------- MODULE CoreProofs -----------------------------
(***************************************************************************)
(* Proofs about Execution for any number of executions, cancel requests,   *)
(* steps and crashes, with and without a gate and store errors: they rest  *)
(* on an invariant that ties the record of an execution to the place of    *)
(* the goroutine that owns it (RunInv), to the cancel requests (CancelInv) *)
(* and its context to who cancelled it (ContextInv).                       *)
(*                                                                         *)
(* And about RemoteExecution: the pool owns every connection exactly once, *)
(* and the capability cache replays only what a probe of the target found. *)
(***************************************************************************)
EXTENDS Execution, RemoteExecution, FiniteSetTheorems, SequenceTheorems, TLAPS

\* Stages of the goroutine that owns an execution.
Starting == {"spawned", "startRead", "startCas"}
Running == {"register", "loop", "step", "after", "finishRead", "finishCas"}
Settling == {"settleRead", "settleCas"}
Finished == {"audit", "publish", "unregister", "end"}

\* What the record of e may say at each stage of its goroutine.
RunInv ==
  \A e \in Execs :
    /\ pc[e] = "idle" => status[e] = "none"
    /\ pc[e] \in Starting => status[e] = "PLANNING"
    /\ pc[e] = "startCas" => seen[e] = version[e]
    /\ pc[e] \in Running => status[e] \in {"RUNNING", "CANCEL_REQUESTED"} \/ e \in refused
    /\ pc[e] = "step" => step[e] < Steps
    /\ pc[e] \in {"finishRead", "finishCas"} => result[e] \in Terminal
    /\ pc[e] = "finishCas" /\ status[e] = "RUNNING" => seen[e] = version[e]
    /\ pc[e] \in Settling => status[e] = "CANCEL_REQUESTED" \/ e \in refused
    /\ pc[e] = "settleCas" /\ e \notin refused => seen[e] = version[e]
    /\ pc[e] \in Finished => status[e] \in Terminal \/ e \in refused
    /\ status[e] \in Terminal => pc[e] \in Finished \cup {"lost"}
    /\ status[e] \in {"SUCCESS", "FAILED"} => result[e] = status[e]

\* A request that marked a record holds it in the two cancel states.
CancelInv ==
  \A k \in Cancellers :
    /\ cpc[k] \in {"idle", "read", "mark"} => ~marked[k]
    /\ marked[k] => status[target[k]] \in {"CANCEL_REQUESTED", "CANCELLED"}

\* Without a gate only a cancel request ends the context of a run that goes on.
ContextInv ==
  \A e \in Execs :
    /\ e \in done => Gated(e) \/ e \in asked \/ pc[e] \in {"end", "lost"}
    /\ result[e] = "CANCELLED" => Gated(e) \/ e \in asked

IInv == TypeOK /\ RunInv /\ CancelInv /\ ContextInv

-----------------------------------------------------------------------------
\* Every step keeps the types (all handlers of Execution).
LEMMA TypeStep == TypeOK /\ RunInv /\ [Next]_vars => TypeOK'
<1> SUFFICES ASSUME TypeOK, RunInv, [Next]_vars PROVE TypeOK'
    OBVIOUS
<1> USE DEF TypeOK, RunInv, Terminal, Statuses, RunPcs, Kinds, Async
<1>1. ASSUME NEW e \in Execs, Submit(e) PROVE TypeOK'
    BY <1>1 DEF Submit, Create, Goto, ctxVars, cancelVars, recVars, runVars
<1>2. ASSUME NEW e \in Execs, RunSync(e) PROVE TypeOK'
    BY <1>2 DEF RunSync, Create, StoreFails, Goto, ctxVars, cancelVars, recVars, runVars
<1>3. ASSUME NEW e \in Execs, RegisterAsync(e) PROVE TypeOK'
    BY <1>3 DEF RegisterAsync, Goto, ctxVars, cancelVars, recVars, runVars
<1>4. ASSUME NEW e \in Execs, StartRead(e) PROVE TypeOK'
    BY <1>4 DEF StartRead, ReadRow, Goto, ctxVars, cancelVars, recVars, runVars
<1>5. ASSUME NEW e \in Execs, StartCas(e) PROVE TypeOK'
    BY <1>5 DEF StartCas, Matches, Move, StoreFails, Goto, ctxVars, cancelVars, recVars, runVars
<1>6. ASSUME NEW e \in Execs, RegisterSync(e) PROVE TypeOK'
    BY <1>6 DEF RegisterSync, Goto, ctxVars, cancelVars, recVars, runVars
<1>7. ASSUME NEW e \in Execs, LoopHead(e) PROVE TypeOK'
    BY <1>7 DEF LoopHead, Decide, Goto, ctxVars, cancelVars, recVars, runVars
<1>8. ASSUME NEW e \in Execs, ExecuteStep(e) PROVE TypeOK'
    BY <1>8, ExecutionConstants DEF ExecuteStep, Goto, ctxVars, cancelVars, recVars, runVars
<1>9. ASSUME NEW e \in Execs, AfterStep(e) PROVE TypeOK'
    BY <1>9 DEF AfterStep, Decide, Goto, ctxVars, cancelVars, recVars, runVars
<1>10. ASSUME NEW e \in Execs, FinishRead(e) PROVE TypeOK'
    BY <1>10 DEF FinishRead, ReadRow, Goto, ctxVars, cancelVars, recVars, runVars
<1>11. ASSUME NEW e \in Execs, FinishCas(e) PROVE TypeOK'
    BY <1>11 DEF FinishCas, Matches, Move, StoreFails, Goto, ctxVars, cancelVars, recVars, runVars
<1>12. ASSUME NEW e \in Execs, SettleRead(e) PROVE TypeOK'
    BY <1>12 DEF SettleRead, ReadRow, Goto, ctxVars, cancelVars, recVars, runVars
<1>13. ASSUME NEW e \in Execs, SettleCas(e) PROVE TypeOK'
    BY <1>13 DEF SettleCas, Matches, Move, StoreFails, Goto, ctxVars, cancelVars, recVars, runVars
<1>14. ASSUME NEW e \in Execs, EmitAudit(e) PROVE TypeOK'
    BY <1>14 DEF EmitAudit, Goto, ctxVars, cancelVars, recVars, runVars
<1>15. ASSUME NEW e \in Execs, PublishFinished(e) PROVE TypeOK'
    BY <1>15 DEF PublishFinished, Goto, ctxVars, cancelVars, recVars, runVars
<1>16. ASSUME NEW e \in Execs, Unregister(e) PROVE TypeOK'
    BY <1>16 DEF Unregister, Goto, ctxVars, cancelVars, recVars, runVars
<1>17. ASSUME NEW e \in Execs, HandlerReturns(e) PROVE TypeOK'
    BY <1>17 DEF HandlerReturns, ctxVars, cancelVars, recVars, runVars
<1>18. ASSUME NEW e \in Execs, DeadlinePasses(e) PROVE TypeOK'
    BY <1>18 DEF DeadlinePasses, ctxVars, cancelVars, recVars, runVars
<1>19. ASSUME NEW k \in Cancellers, CancelRead(k) PROVE TypeOK'
    BY <1>19 DEF CancelRead, CGoto, ctxVars, cancelVars, recVars, runVars
<1>20. ASSUME NEW k \in Cancellers, CancelMark(k) PROVE TypeOK'
  <2>1. target[k] \in Execs
    OBVIOUS
  <2>2. marked' \in [Cancellers -> BOOLEAN] /\ cpc' \in [Cancellers -> {"idle", "read", "mark", "signal", "end"}]
    BY <1>20 DEF CancelMark, CGoto
  <2>3. status' \in [Execs -> Statuses] /\ version' \in [Execs -> Nat] /\ refused' \subseteq Execs
    BY <1>20, <2>1 DEF CancelMark, Matches, Move, recVars
  <2> QED
    BY <1>20, <2>2, <2>3 DEF CancelMark, ctxVars, runVars
<1>21. ASSUME NEW k \in Cancellers, CancelSignal(k) PROVE TypeOK'
    BY <1>21 DEF CancelSignal, CGoto, ctxVars, cancelVars, recVars, runVars
<1>22. ASSUME NEW k \in Cancellers, NEW e \in Execs, CancelGet(k, e) PROVE TypeOK'
    BY <1>22 DEF CancelGet, CGoto, ctxVars, cancelVars, recVars, runVars
<1>23. CASE Crash
    BY <1>23 DEF Crash, ctxVars, cancelVars, recVars, runVars
<1>24. CASE UNCHANGED vars
    BY <1>24 DEF vars, ctxVars, cancelVars, recVars, runVars
<1> QED
    BY <1>1, <1>2, <1>3, <1>4, <1>5, <1>6, <1>7, <1>8, <1>9, <1>10, <1>11, <1>12, <1>13, <1>14, <1>15, <1>16, <1>17, <1>18, <1>19, <1>20, <1>21, <1>22, <1>23, <1>24
       DEF Next, Run, Cancel

\* Every step keeps record and goroutine in agreement.
LEMMA RunStep == TypeOK /\ RunInv /\ [Next]_vars => RunInv'
<1> SUFFICES ASSUME TypeOK, RunInv, [Next]_vars PROVE RunInv'
    OBVIOUS
<1> USE DEF TypeOK, RunInv, Starting, Running, Settling, Finished, Terminal, Statuses, RunPcs, Kinds, Async
<1>1. ASSUME NEW e \in Execs, Submit(e) PROVE RunInv'
    BY <1>1 DEF Submit, Create, Goto, ctxVars, cancelVars, recVars, runVars
<1>2. ASSUME NEW e \in Execs, RunSync(e) PROVE RunInv'
    BY <1>2 DEF RunSync, Create, StoreFails, Goto, ctxVars, cancelVars, recVars, runVars
<1>3. ASSUME NEW e \in Execs, RegisterAsync(e) PROVE RunInv'
    BY <1>3 DEF RegisterAsync, Goto, ctxVars, cancelVars, recVars, runVars
<1>4. ASSUME NEW e \in Execs, StartRead(e) PROVE RunInv'
    BY <1>4 DEF StartRead, ReadRow, Goto, ctxVars, cancelVars, recVars, runVars
<1>5. ASSUME NEW e \in Execs, StartCas(e) PROVE RunInv'
    BY <1>5 DEF StartCas, Matches, Move, StoreFails, Goto, ctxVars, cancelVars, recVars, runVars
<1>6. ASSUME NEW e \in Execs, RegisterSync(e) PROVE RunInv'
    BY <1>6 DEF RegisterSync, Goto, ctxVars, cancelVars, recVars, runVars
<1>7. ASSUME NEW e \in Execs, LoopHead(e) PROVE RunInv'
    BY <1>7 DEF LoopHead, Decide, Goto, ctxVars, cancelVars, recVars, runVars
<1>8. ASSUME NEW e \in Execs, ExecuteStep(e) PROVE RunInv'
    BY <1>8 DEF ExecuteStep, Goto, ctxVars, cancelVars, recVars, runVars
<1>9. ASSUME NEW e \in Execs, AfterStep(e) PROVE RunInv'
    BY <1>9 DEF AfterStep, Decide, Goto, ctxVars, cancelVars, recVars, runVars
<1>10. ASSUME NEW e \in Execs, FinishRead(e) PROVE RunInv'
    BY <1>10 DEF FinishRead, ReadRow, Goto, ctxVars, cancelVars, recVars, runVars
<1>11. ASSUME NEW e \in Execs, FinishCas(e) PROVE RunInv'
    BY <1>11 DEF FinishCas, Matches, Move, StoreFails, Goto, ctxVars, cancelVars, recVars, runVars
<1>12. ASSUME NEW e \in Execs, SettleRead(e) PROVE RunInv'
    BY <1>12 DEF SettleRead, ReadRow, Goto, ctxVars, cancelVars, recVars, runVars
<1>13. ASSUME NEW e \in Execs, SettleCas(e) PROVE RunInv'
    BY <1>13 DEF SettleCas, Matches, Move, StoreFails, Goto, ctxVars, cancelVars, recVars, runVars
<1>14. ASSUME NEW e \in Execs, EmitAudit(e) PROVE RunInv'
    BY <1>14 DEF EmitAudit, Goto, ctxVars, cancelVars, recVars, runVars
<1>15. ASSUME NEW e \in Execs, PublishFinished(e) PROVE RunInv'
    BY <1>15 DEF PublishFinished, Goto, ctxVars, cancelVars, recVars, runVars
<1>16. ASSUME NEW e \in Execs, Unregister(e) PROVE RunInv'
    BY <1>16 DEF Unregister, Goto, ctxVars, cancelVars, recVars, runVars
<1>17. ASSUME NEW e \in Execs, HandlerReturns(e) PROVE RunInv'
    BY <1>17 DEF HandlerReturns, ctxVars, cancelVars, recVars, runVars
<1>18. ASSUME NEW e \in Execs, DeadlinePasses(e) PROVE RunInv'
    BY <1>18 DEF DeadlinePasses, ctxVars, cancelVars, recVars, runVars
<1>19. ASSUME NEW k \in Cancellers, CancelRead(k) PROVE RunInv'
    BY <1>19 DEF CancelRead, CGoto, ctxVars, cancelVars, recVars, runVars
<1>20. ASSUME NEW k \in Cancellers, CancelMark(k) PROVE RunInv'
    BY <1>20 DEF CancelMark, CGoto, Matches, Move, ctxVars, cancelVars, recVars, runVars
<1>21. ASSUME NEW k \in Cancellers, CancelSignal(k) PROVE RunInv'
    BY <1>21 DEF CancelSignal, CGoto, ctxVars, cancelVars, recVars, runVars
<1>22. ASSUME NEW k \in Cancellers, NEW e \in Execs, CancelGet(k, e) PROVE RunInv'
    BY <1>22 DEF CancelGet, CGoto, ctxVars, cancelVars, recVars, runVars
<1>23. CASE Crash
    BY <1>23 DEF Crash, ctxVars, cancelVars, recVars, runVars
<1>24. CASE UNCHANGED vars
    BY <1>24 DEF vars, ctxVars, cancelVars, recVars, runVars
<1> QED
    BY <1>1, <1>2, <1>3, <1>4, <1>5, <1>6, <1>7, <1>8, <1>9, <1>10, <1>11, <1>12, <1>13, <1>14, <1>15, <1>16, <1>17, <1>18, <1>19, <1>20, <1>21, <1>22, <1>23, <1>24
       DEF Next, Run, Cancel

\* Every step keeps a marked record in the cancel states.
LEMMA CancelStep == TypeOK /\ RunInv /\ CancelInv /\ [Next]_vars => CancelInv'
<1> SUFFICES ASSUME TypeOK, RunInv, CancelInv, [Next]_vars PROVE CancelInv'
    OBVIOUS
<1> USE DEF TypeOK, RunInv, CancelInv, Starting, Running, Settling, Finished, Terminal, Statuses
<1>1. ASSUME NEW e \in Execs, Submit(e) PROVE CancelInv'
    BY <1>1 DEF Submit, Create, Goto, ctxVars, cancelVars, recVars, runVars
<1>2. ASSUME NEW e \in Execs, RunSync(e) PROVE CancelInv'
    BY <1>2 DEF RunSync, Create, StoreFails, Goto, ctxVars, cancelVars, recVars, runVars
<1>3. ASSUME NEW e \in Execs, RegisterAsync(e) PROVE CancelInv'
    BY <1>3 DEF RegisterAsync, Goto, ctxVars, cancelVars, recVars, runVars
<1>4. ASSUME NEW e \in Execs, StartRead(e) PROVE CancelInv'
    BY <1>4 DEF StartRead, ReadRow, Goto, ctxVars, cancelVars, recVars, runVars
<1>5. ASSUME NEW e \in Execs, StartCas(e) PROVE CancelInv'
    BY <1>5 DEF StartCas, Matches, Move, StoreFails, Goto, ctxVars, cancelVars, recVars, runVars
<1>6. ASSUME NEW e \in Execs, RegisterSync(e) PROVE CancelInv'
    BY <1>6 DEF RegisterSync, Goto, ctxVars, cancelVars, recVars, runVars
<1>7. ASSUME NEW e \in Execs, LoopHead(e) PROVE CancelInv'
    BY <1>7 DEF LoopHead, Decide, Goto, ctxVars, cancelVars, recVars, runVars
<1>8. ASSUME NEW e \in Execs, ExecuteStep(e) PROVE CancelInv'
    BY <1>8 DEF ExecuteStep, Goto, ctxVars, cancelVars, recVars, runVars
<1>9. ASSUME NEW e \in Execs, AfterStep(e) PROVE CancelInv'
    BY <1>9 DEF AfterStep, Decide, Goto, ctxVars, cancelVars, recVars, runVars
<1>10. ASSUME NEW e \in Execs, FinishRead(e) PROVE CancelInv'
    BY <1>10 DEF FinishRead, ReadRow, Goto, ctxVars, cancelVars, recVars, runVars
<1>11. ASSUME NEW e \in Execs, FinishCas(e) PROVE CancelInv'
    BY <1>11 DEF FinishCas, Matches, Move, StoreFails, Goto, ctxVars, cancelVars, recVars, runVars
<1>12. ASSUME NEW e \in Execs, SettleRead(e) PROVE CancelInv'
    BY <1>12 DEF SettleRead, ReadRow, Goto, ctxVars, cancelVars, recVars, runVars
<1>13. ASSUME NEW e \in Execs, SettleCas(e) PROVE CancelInv'
    BY <1>13 DEF SettleCas, Matches, Move, StoreFails, Goto, ctxVars, cancelVars, recVars, runVars
<1>14. ASSUME NEW e \in Execs, EmitAudit(e) PROVE CancelInv'
    BY <1>14 DEF EmitAudit, Goto, ctxVars, cancelVars, recVars, runVars
<1>15. ASSUME NEW e \in Execs, PublishFinished(e) PROVE CancelInv'
    BY <1>15 DEF PublishFinished, Goto, ctxVars, cancelVars, recVars, runVars
<1>16. ASSUME NEW e \in Execs, Unregister(e) PROVE CancelInv'
    BY <1>16 DEF Unregister, Goto, ctxVars, cancelVars, recVars, runVars
<1>17. ASSUME NEW e \in Execs, HandlerReturns(e) PROVE CancelInv'
    BY <1>17 DEF HandlerReturns, ctxVars, cancelVars, recVars, runVars
<1>18. ASSUME NEW e \in Execs, DeadlinePasses(e) PROVE CancelInv'
    BY <1>18 DEF DeadlinePasses, ctxVars, cancelVars, recVars, runVars
<1>19. ASSUME NEW k \in Cancellers, CancelRead(k) PROVE CancelInv'
    BY <1>19 DEF CancelRead, CGoto, ctxVars, cancelVars, recVars, runVars
<1>20. ASSUME NEW k \in Cancellers, CancelMark(k) PROVE CancelInv'
    BY <1>20 DEF CancelMark, CGoto, Matches, Move, ctxVars, cancelVars, recVars, runVars
<1>21. ASSUME NEW k \in Cancellers, CancelSignal(k) PROVE CancelInv'
    BY <1>21 DEF CancelSignal, CGoto, ctxVars, cancelVars, recVars, runVars
<1>22. ASSUME NEW k \in Cancellers, NEW e \in Execs, CancelGet(k, e) PROVE CancelInv'
    BY <1>22 DEF CancelGet, CGoto, ctxVars, cancelVars, recVars, runVars
<1>23. CASE Crash
    BY <1>23 DEF Crash, ctxVars, cancelVars, recVars, runVars
<1>24. CASE UNCHANGED vars
    BY <1>24 DEF vars, ctxVars, cancelVars, recVars, runVars
<1> QED
    BY <1>1, <1>2, <1>3, <1>4, <1>5, <1>6, <1>7, <1>8, <1>9, <1>10, <1>11, <1>12, <1>13, <1>14, <1>15, <1>16, <1>17, <1>18, <1>19, <1>20, <1>21, <1>22, <1>23, <1>24
       DEF Next, Run, Cancel

\* Every step keeps contexts alive unless a request ended them.
LEMMA ContextStep == TypeOK /\ ContextInv /\ [Next]_vars => ContextInv'
<1> SUFFICES ASSUME TypeOK, ContextInv, [Next]_vars PROVE ContextInv'
    OBVIOUS
<1> USE DEF TypeOK, ContextInv, Terminal, Gated, Async
<1>1. ASSUME NEW e \in Execs, Submit(e) PROVE ContextInv'
    BY <1>1 DEF Submit, Create, Goto, ctxVars, cancelVars, recVars, runVars
<1>2. ASSUME NEW e \in Execs, RunSync(e) PROVE ContextInv'
    BY <1>2 DEF RunSync, Create, StoreFails, Goto, ctxVars, cancelVars, recVars, runVars
<1>3. ASSUME NEW e \in Execs, RegisterAsync(e) PROVE ContextInv'
    BY <1>3 DEF RegisterAsync, Goto, ctxVars, cancelVars, recVars, runVars
<1>4. ASSUME NEW e \in Execs, StartRead(e) PROVE ContextInv'
    BY <1>4 DEF StartRead, ReadRow, Goto, ctxVars, cancelVars, recVars, runVars
<1>5. ASSUME NEW e \in Execs, StartCas(e) PROVE ContextInv'
    BY <1>5 DEF StartCas, Matches, Move, StoreFails, Goto, ctxVars, cancelVars, recVars, runVars
<1>6. ASSUME NEW e \in Execs, RegisterSync(e) PROVE ContextInv'
    BY <1>6 DEF RegisterSync, Goto, ctxVars, cancelVars, recVars, runVars
<1>7. ASSUME NEW e \in Execs, LoopHead(e) PROVE ContextInv'
    BY <1>7 DEF LoopHead, Decide, Goto, ctxVars, cancelVars, recVars, runVars
<1>8. ASSUME NEW e \in Execs, ExecuteStep(e) PROVE ContextInv'
    BY <1>8 DEF ExecuteStep, Goto, ctxVars, cancelVars, recVars, runVars
<1>9. ASSUME NEW e \in Execs, AfterStep(e) PROVE ContextInv'
    BY <1>9 DEF AfterStep, Decide, Goto, ctxVars, cancelVars, recVars, runVars
<1>10. ASSUME NEW e \in Execs, FinishRead(e) PROVE ContextInv'
    BY <1>10 DEF FinishRead, ReadRow, Goto, ctxVars, cancelVars, recVars, runVars
<1>11. ASSUME NEW e \in Execs, FinishCas(e) PROVE ContextInv'
    BY <1>11 DEF FinishCas, Matches, Move, StoreFails, Goto, ctxVars, cancelVars, recVars, runVars
<1>12. ASSUME NEW e \in Execs, SettleRead(e) PROVE ContextInv'
    BY <1>12 DEF SettleRead, ReadRow, Goto, ctxVars, cancelVars, recVars, runVars
<1>13. ASSUME NEW e \in Execs, SettleCas(e) PROVE ContextInv'
    BY <1>13 DEF SettleCas, Matches, Move, StoreFails, Goto, ctxVars, cancelVars, recVars, runVars
<1>14. ASSUME NEW e \in Execs, EmitAudit(e) PROVE ContextInv'
    BY <1>14 DEF EmitAudit, Goto, ctxVars, cancelVars, recVars, runVars
<1>15. ASSUME NEW e \in Execs, PublishFinished(e) PROVE ContextInv'
    BY <1>15 DEF PublishFinished, Goto, ctxVars, cancelVars, recVars, runVars
<1>16. ASSUME NEW e \in Execs, Unregister(e) PROVE ContextInv'
    BY <1>16 DEF Unregister, Goto, ctxVars, cancelVars, recVars, runVars
<1>17. ASSUME NEW e \in Execs, HandlerReturns(e) PROVE ContextInv'
    BY <1>17 DEF HandlerReturns, ctxVars, cancelVars, recVars, runVars
<1>18. ASSUME NEW e \in Execs, DeadlinePasses(e) PROVE ContextInv'
    BY <1>18 DEF DeadlinePasses, ctxVars, cancelVars, recVars, runVars
<1>19. ASSUME NEW k \in Cancellers, CancelRead(k) PROVE ContextInv'
    BY <1>19 DEF CancelRead, CGoto, ctxVars, cancelVars, recVars, runVars
<1>20. ASSUME NEW k \in Cancellers, CancelMark(k) PROVE ContextInv'
    BY <1>20 DEF CancelMark, CGoto, Matches, Move, ctxVars, cancelVars, recVars, runVars
<1>21. ASSUME NEW k \in Cancellers, CancelSignal(k) PROVE ContextInv'
    BY <1>21 DEF CancelSignal, CGoto, ctxVars, cancelVars, recVars, runVars
<1>22. ASSUME NEW k \in Cancellers, NEW e \in Execs, CancelGet(k, e) PROVE ContextInv'
    BY <1>22 DEF CancelGet, CGoto, ctxVars, cancelVars, recVars, runVars
<1>23. CASE Crash
    BY <1>23 DEF Crash, ctxVars, cancelVars, recVars, runVars
<1>24. CASE UNCHANGED vars
    BY <1>24 DEF vars, ctxVars, cancelVars, recVars, runVars
<1> QED
    BY <1>1, <1>2, <1>3, <1>4, <1>5, <1>6, <1>7, <1>8, <1>9, <1>10, <1>11, <1>12, <1>13, <1>14, <1>15, <1>16, <1>17, <1>18, <1>19, <1>20, <1>21, <1>22, <1>23, <1>24
       DEF Next, Run, Cancel

\* The inductive invariant holds in every reachable state of Execution.
THEOREM Invariance == Spec => []IInv
<1>1. Init => IInv
    BY ExecutionConstants
       DEF Init, IInv, TypeOK, RunInv, CancelInv, ContextInv, Starting, Running, Settling,
           Finished, Terminal, Statuses, RunPcs, Kinds
<1>2. IInv /\ [Next]_vars => IInv'
    BY TypeStep, RunStep, CancelStep, ContextStep DEF IInv
<1> QED
    BY <1>1, <1>2, PTL DEF Spec

-----------------------------------------------------------------------------

\* Every reachable state of the execution runtime is type correct.
THEOREM TypeCorrect == Spec => []TypeOK
<1>1. IInv => TypeOK
    BY DEF IInv
<1> QED
    BY Invariance, <1>1, PTL

\* However finishRecordStatus and Cancel interleave, and through crashes, a run
\* that is past finishRecordStatus has a terminal record unless the store
\* refused one of its writes.
THEOREM FinishedTerminal == Spec => []FinishedRunIsTerminal
<1>1. IInv => FinishedRunIsTerminal
    BY DEF IInv, RunInv, FinishedRunIsTerminal, Finished
<1> QED
    BY Invariance, <1>1, PTL

\* SUCCESS and FAILED records agree with the run and were never marked by a
\* cancel request (executor.go finishRecordStatus, runtime.go Cancel).
THEOREM Agreement == Spec => []RecordAgreesWithRun
<1>1. IInv => RecordAgreesWithRun
    BY DEF IInv, TypeOK, RunInv, CancelInv, RecordAgreesWithRun
<1> QED
    BY Invariance, <1>1, PTL

\* A finished run leaves a record that is terminal and says what it did
\* (executor.go finishRecordStatus).
THEOREM RecordsHonest == Spec => []RecordHonest
<1>1. FinishedRunIsTerminal /\ RecordAgreesWithRun => RecordHonest
    BY DEF RecordHonest
<1> QED
    BY FinishedTerminal, Agreement, <1>1, PTL

\* Without a gate a run stops early only on a cancel request (server.go:
\* context.WithoutCancel).
THEOREM OnlyWhenAsked == Spec => []StopsOnlyWhenAsked
<1>1. IInv => StopsOnlyWhenAsked
    BY DEF IInv, ContextInv, StopsOnlyWhenAsked
<1> QED
    BY Invariance, <1>1, PTL

\* No step of any handler or goroutine changes a terminal record (the CAS of
\* Transition, and Create being the first write).
THEOREM TerminalStays == Spec => TerminalIsFinal
<1> DEFINE Final == \A e \in Execs : status[e] \in Terminal => status'[e] = status[e]
<1>1. ASSUME IInv, Next PROVE Final
  <2> SUFFICES ASSUME NEW x \in Execs, status[x] \in Terminal PROVE status'[x] = status[x]
    OBVIOUS
  <2> USE DEF Terminal, IInv, TypeOK
  <2>1. pc[x] # "idle"
    BY <1>1 DEF RunInv
  <2>2. ASSUME NEW e \in Execs, Submit(e) \/ RunSync(e) PROVE status'[x] = status[x]
    BY <1>1, <2>1, <2>2 DEF Submit, RunSync, Create, StoreFails
  <2>3. ASSUME NEW e \in Execs, StartCas(e) \/ FinishCas(e) \/ SettleCas(e)
        PROVE  status'[x] = status[x]
    BY <1>1, <2>3 DEF StartCas, FinishCas, SettleCas, Matches, Move, StoreFails, recVars
  <2>4. ASSUME NEW k \in Cancellers, CancelMark(k) PROVE status'[x] = status[x]
    BY <1>1, <2>4 DEF CancelMark, Matches, Move, recVars
  <2>5. CASE UNCHANGED status
    BY <2>5
  <2>6. \/ \E e \in Execs : \/ Submit(e) \/ RunSync(e) \/ StartCas(e)
                            \/ FinishCas(e) \/ SettleCas(e)
        \/ \E k \in Cancellers : CancelMark(k)
        \/ UNCHANGED status
    BY <1>1 DEF Next, Run, Cancel, RegisterAsync, StartRead, RegisterSync, LoopHead, ExecuteStep,
                AfterStep, FinishRead, SettleRead, EmitAudit, PublishFinished, Unregister,
                HandlerReturns, DeadlinePasses, CancelGet, CancelRead, CancelSignal, Crash,
                ReadRow, recVars
  <2> QED
    BY <2>2, <2>3, <2>4, <2>5, <2>6
<1>2. IInv /\ [Next]_vars => [Final]_vars
    BY <1>1
<1> QED
    BY Invariance, <1>2, PTL DEF Spec, TerminalIsFinal

-----------------------------------------------------------------------------
(* Remote execution.                                                       *)

Snaps == {None} \cup SUBSET Capabilities
Rows == [addr : Addresses \cup {None}, hint : Snaps]
IdleLists == Seq(Conns)
Targets == Seq(Addresses)
RunSteps == {"idle", "pop", "alive", "dial", "use", "hints", "publish", "persist", "plan"}

\* The types of the registry, the pool and the requests; a request being
\* served has a target, and one that reaches persist has a snapshot.
RTypeOK ==
  /\ row \in Rows
  /\ stored \in [SUBSET Capabilities -> {"absent", "good", "bad"}]
  /\ conn \in [Conns -> {"unused", "open", "closed"}]
  /\ peer \in [Conns -> Addresses \cup {None}]
  /\ idle \in [Addresses -> IdleLists]
  /\ doing \in [Requests -> RunSteps]
  /\ named \in [Requests -> BOOLEAN]
  /\ todo \in [Requests -> Targets]
  /\ phase \in [Requests -> {"probe", "run"}]
  /\ held \in [Requests -> {0} \cup Conns]
  /\ snap \in [Requests -> Snaps]
  /\ copy \in [Requests -> Rows]
  /\ \A r \in Requests : doing[r] # "idle" => todo[r] # <<>>
  /\ \A r \in Requests : doing[r] \in {"alive", "use"} <=> held[r] \in Conns
  /\ \A r \in Requests : doing[r] \in {"publish", "persist"} => snap[r] \in SUBSET Capabilities
  /\ row.addr = None => row = NoRow
  /\ \A r \in Requests : doing[r] = "publish" => copy[r].addr # None

\* What the pool and the batch loop do to their lists.
LEMMA ListFacts ==
  /\ 0 \notin Conns
  /\ <<>> \in IdleLists /\ <<>> \in Targets
  /\ \A s \in IdleLists, c \in Conns : Append(s, c) \in IdleLists
  /\ \A s \in IdleLists : s # <<>> => SubSeq(s, 1, Len(s) - 1) \in IdleLists /\ s[Len(s)] \in Conns
  /\ \A t \in Targets : t # <<>> => Head(t) \in Addresses /\ Tail(t) \in Targets
  /\ \A t \in Targets : t # <<>> /\ Len(t) # 1 => Tail(t) # <<>>
  /\ \A a \in Addresses : <<a>> \in Targets /\ <<a>> # <<>>
  /\ \A a, b \in Addresses : <<a, b>> \in Targets /\ <<a, b>> # <<>>
<1>1. 0 \notin Conns
  BY DEF Conns
<1>2. \A s \in IdleLists, c \in Conns : Append(s, c) \in IdleLists
  BY DEF IdleLists
<1>3. \A s \in IdleLists : s # <<>> => SubSeq(s, 1, Len(s) - 1) \in IdleLists /\ s[Len(s)] \in Conns
  BY DEF IdleLists
<1>4. \A t \in Targets : t # <<>> => Head(t) \in Addresses /\ Tail(t) \in Targets
  BY DEF Targets
<1>5. ASSUME NEW t \in Targets, t # <<>>, Len(t) # 1 PROVE Tail(t) # <<>>
  <2>1. Len(Tail(t)) = Len(t) - 1 /\ Len(t) \in Nat
    BY <1>5, HeadTailProperties, LenProperties DEF Targets
  <2>2. Len(<<>>) = 0
    OBVIOUS
  <2> QED BY <1>5, <2>1, <2>2
<1>6. \A a, b \in Addresses : <<a>> \in Targets /\ <<a>> # <<>> /\ <<a, b>> \in Targets /\ <<a, b>> # <<>>
  BY DEF Targets
<1>7. <<>> \in IdleLists /\ <<>> \in Targets
  BY DEF IdleLists, Targets
<1> QED BY <1>1, <1>2, <1>3, <1>4, <1>5, <1>6, <1>7

LEMMA RemoteTypeStep == RTypeOK /\ [RNext]_rvars => RTypeOK'
<1> SUFFICES ASSUME RTypeOK, [RNext]_rvars PROVE RTypeOK'
  OBVIOUS
<1> USE DEF RTypeOK, RunSteps, At, Goes, Holds, Knows
<1>0. NoRow \in Rows /\ NoRow.addr = None /\ None \in Snaps /\ 0 \notin Conns
  BY ListFacts DEF NoRow, Rows, Snaps
<1>1. ASSUME NEW r \in Requests, doing[r] # "idle"
      PROVE  /\ Target(r) \in Addresses
             /\ Tail(todo[r]) \in Targets
             /\ Len(todo[r]) # 1 => Tail(todo[r]) # <<>>
  BY <1>1, ListFacts DEF Target
<1>2. ASSUME NEW r \in Requests, NEW n \in BOOLEAN, NEW t \in Targets, t # <<>>, Starts(r, n, t)
      PROVE  RTypeOK'
  BY <1>0, <1>2, ListFacts DEF Starts, Begins, pool, hist
<1>3. ASSUME NEW c \in Conns, NEW a \in Addresses, Put(c, a)
      PROVE  /\ conn' \in [Conns -> {"unused", "open", "closed"}]
             /\ idle' \in [Addresses -> IdleLists]
  <2>1. conn' \in [Conns -> {"unused", "open", "closed"}]
    BY <1>3 DEF Put, Discard
  <2>2. PICK s \in IdleLists : s = Append(idle[a], c)
    BY ListFacts
  <2>3. idle' = idle \/ idle' = [idle EXCEPT ![a] = s]
    BY <1>3, <2>2 DEF Put
  <2> QED BY <2>1, <2>3
<1>a. ASSUME NEW r \in Requests, doing[r] # "idle", Answers(r)
      PROVE  /\ doing' \in [Requests -> RunSteps] /\ named' \in [Requests -> BOOLEAN]
             /\ todo' \in [Requests -> Targets] /\ phase' \in [Requests -> {"probe", "run"}]
             /\ held' \in [Requests -> {0} \cup Conns] /\ snap' \in [Requests -> Snaps]
             /\ copy' \in [Requests -> Rows]
             /\ \A q \in Requests : doing'[q] # "idle" => todo'[q] # <<>>
             /\ \A q \in Requests : doing'[q] \in {"alive", "use"} <=> held'[q] \in Conns
             /\ \A q \in Requests : doing'[q] \in {"publish", "persist"} => snap'[q] \in SUBSET Capabilities
             /\ \A q \in Requests : doing'[q] = "publish" => copy'[q].addr # None
  <2>1. PICK n \in BOOLEAN, t \in Targets, p \in {"idle", "pop"} :
          Begins(r, n, t, p) /\ (p # "idle" => t # <<>>)
    BY <1>1, <1>a, ListFacts, ZenonT(40) DEF Answers
  <2> QED BY <2>1, <1>0, ListFacts DEF Begins
<1>4. CASE \E r \in Requests : Serve(r)
  <2> PICK r \in Requests : Serve(r) BY <1>4
  <2>1. CASE RunNamed(r)
    <3>1. row.addr \in Addresses
      BY <2>1 DEF RunNamed, Rows
    <3> QED BY <2>1, <3>1, <1>2, ListFacts DEF RunNamed
  <2>2. CASE RunBatch(r)
    BY <2>2, <1>2, ListFacts DEF RunBatch
  <2>3. CASE GetPops(r)
    <3>1. CASE idle[Target(r)] = <<>>
      BY <2>3, <3>1, <1>0 DEF GetPops, hist
    <3>2. CASE idle[Target(r)] # <<>>
      <4>1. PICK s \in IdleLists, c \in Conns : 
              s = SubSeq(idle[Target(r)], 1, Len(idle[Target(r)]) - 1) /\ c = idle[Target(r)][Len(idle[Target(r)])]
        BY <2>3, <3>2, <1>1, ListFacts DEF GetPops
      <4>2. idle' = [idle EXCEPT ![Target(r)] = s] /\ Holds(r, c) /\ Goes(r, "alive")
        BY <2>3, <3>2, <4>1 DEF GetPops, Pop
      <4> QED BY <2>3, <4>2, <1>1 DEF GetPops, hist
    <3> QED BY <3>1, <3>2
  <2>4. CASE Keepalive(r)
    BY <2>4, <1>0 DEF Keepalive, Discard, hist
  <2>5. CASE Dial(r)
    BY <2>5, <1>0, <1>1 DEF Dial, hist
  <2>6. CASE DialFails(r)
    <3>1. CASE phase[r] = "probe"
      BY <2>6, <3>1 DEF DialFails, AfterProbe, pool, hist
    <3>2. CASE phase[r] # "probe"
      BY <2>6, <3>2, <1>a DEF DialFails, pool, hist
    <3> QED BY <3>1, <3>2
  <2>7. CASE Probe(r)
    BY <2>7, <1>0, <1>1, <1>3 DEF Probe, AfterProbe, Snaps
  <2>8. CASE RunOverSSH(r)
    BY <2>8, <1>1, <1>3, <1>a DEF RunOverSSH, hist
  <2>9. CASE PublishReads(r)
    <3>1. snap[r] \in SUBSET Capabilities
      BY <2>9 DEF PublishReads, Snaps
    <3> QED BY <2>9, <3>1 DEF PublishReads, pool, hist
  <2>10. CASE PublishSaves(r)
    <3>1. row' \in Rows /\ row'.addr = copy[r].addr
      BY <2>10 DEF PublishSaves, Rows
    <3> QED BY <2>10, <3>1 DEF PublishSaves, pool, hist
  <2>11. CASE Fallback(r)
    <3>1. row.hint # None => row.hint \in SUBSET Capabilities /\ row.hint \in Snaps
      BY DEF Rows, Snaps
    <3> QED BY <2>11, <3>1 DEF Fallback, pool, Resolves
  <2>12. CASE Persist(r)
    <3>1. stored' \in [SUBSET Capabilities -> {"absent", "good", "bad"}]
      BY <2>12 DEF Persist, PutSnapshot
    <3> QED BY <2>12, <3>1 DEF Persist, pool, hist
  <2>13. CASE StepBegins(r)
    BY <2>13 DEF StepBegins, pool, hist
  <2>14. CASE PlanAnswers(r)
    BY <2>14, <1>a DEF PlanAnswers, pool, hist
  <2> QED BY <2>1, <2>2, <2>3, <2>4, <2>5, <2>6, <2>7, <2>8, <2>9, <2>10, <2>11, <2>12, <2>13,
             <2>14 DEF Serve
<1>5. CASE \E c \in Conns : TransportDies(c)
  BY <1>5 DEF TransportDies, pool, locals, hist
<1>6. CASE \E s \in SUBSET Capabilities : Damage(s)
  BY <1>6 DEF Damage, pool, locals, hist
<1>7. CASE \E a \in Addresses : CreateHost(a)
  BY <1>7, RemoteConstants DEF CreateHost, pool, locals, Rows, Snaps
<1>8. CASE DeleteHost
  BY <1>8, <1>0 DEF DeleteHost, pool, locals
<1>9. CASE UNCHANGED rvars
  BY <1>9 DEF rvars
<1> QED BY <1>4, <1>5, <1>6, <1>7, <1>8, <1>9 DEF RNext

\* Type correctness of RemoteExecution: every handler leaves the registry, the
\* pool and the requests well formed.
THEOREM RemoteTypeCorrect == RSpec => []RTypeOK
<1>1. RInit => RTypeOK
  BY RemoteConstants, ListFacts DEF RInit, RTypeOK, Snaps, Rows, NoRow, RunSteps
<1> QED BY <1>1, RemoteTypeStep, PTL DEF RSpec

-----------------------------------------------------------------------------
(* The pool                                                                *)

\* One owner for every open connection: a request or one place of the list of
\* the machine it was dialled to.
SoleHolder == \A r, q \in Requests : held[r] \in Conns /\ held[r] = held[q] => r = q
HeldOpen == \A r \in Requests : held[r] \in Conns => conn[held[r]] = "open" /\ peer[held[r]] = Target(r)
UsedKnown == \A r \in Requests : doing[r] = "use" => held[r] \in known
IdleOpen == \A a \in Addresses : \A i \in 1..Len(idle[a]) :
              conn[idle[a][i]] = "open" /\ peer[idle[a][i]] = a
IdleUnheld == \A a \in Addresses : \A i \in 1..Len(idle[a]) : \A r \in Requests : held[r] # idle[a][i]
IdleOnce == \A a \in Addresses : \A i, j \in 1..Len(idle[a]) : idle[a][i] = idle[a][j] => i = j
OpenOwned == \A c \in Conns : conn[c] = "open" =>
               \/ \E r \in Requests : held[r] = c
               \/ \E a \in Addresses : \E i \in 1..Len(idle[a]) : idle[a][i] = c

PoolInv == SoleHolder /\ HeldOpen /\ UsedKnown /\ IdleOpen /\ IdleUnheld /\ IdleOnce /\ OpenOwned

\* A step that leaves the pool and what the requests hold as they are.
LEMMA PoolQuiet ==
  ASSUME RTypeOK, PoolInv, UNCHANGED <<conn, peer, idle, known, held>>,
         \A r \in Requests : held[r] \in Conns => Target(r)' = Target(r),
         \A r \in Requests : doing'[r] = "use" => doing[r] = "use"
  PROVE  PoolInv'
<1>1. SoleHolder' /\ HeldOpen' /\ UsedKnown'
  BY DEF PoolInv, SoleHolder, HeldOpen, UsedKnown, RTypeOK
<1>2. IdleOpen' /\ IdleUnheld' /\ IdleOnce'
  BY DEF PoolInv, IdleOpen, IdleUnheld, IdleOnce
<1>3. OpenOwned'
  BY DEF PoolInv, OpenOwned
<1> QED BY <1>1, <1>2, <1>3 DEF PoolInv

\* The places of a list after the last connection is taken, or one is put back.
LEMMA ListPlaces ==
  ASSUME NEW s \in IdleLists
  PROVE  /\ Len(s) \in Nat
         /\ \A i \in 1..Len(s) : s[i] \in Conns
         /\ s # <<>> => /\ Len(s) \in 1..Len(s)
                        /\ Len(SubSeq(s, 1, Len(s) - 1)) = Len(s) - 1
                        /\ \A i \in 1..(Len(s) - 1) : SubSeq(s, 1, Len(s) - 1)[i] = s[i]
         /\ \A c \in Conns : /\ Len(Append(s, c)) = Len(s) + 1
                             /\ \A i \in 1..Len(s) : Append(s, c)[i] = s[i]
                             /\ Append(s, c)[Len(s) + 1] = c
<1>1. Len(s) \in Nat /\ \A i \in 1..Len(s) : s[i] \in Conns
  BY DEF IdleLists
<1>2. s # <<>> => Len(s) \in 1..Len(s)
  BY DEF IdleLists
<1>3. s # <<>> => /\ Len(SubSeq(s, 1, Len(s) - 1)) = Len(s) - 1
                  /\ \A i \in 1..(Len(s) - 1) : SubSeq(s, 1, Len(s) - 1)[i] = s[i]
  <2> SUFFICES ASSUME s # <<>>
               PROVE  /\ Len(SubSeq(s, 1, Len(s) - 1)) = Len(s) - 1
                      /\ \A i \in 1..(Len(s) - 1) : SubSeq(s, 1, Len(s) - 1)[i] = s[i]
    OBVIOUS
  <2> DEFINE n == Len(s) - 1
  <2>1. n \in Nat /\ \A i \in 1..n : s[i] \in Conns
    BY <1>1, <1>2
  <2> HIDE DEF n
  <2>2. /\ Len(SubSeq(s, 1, n)) = IF 1 <= n THEN n - 1 + 1 ELSE 0
        /\ \A i \in 1..(n - 1 + 1) : SubSeq(s, 1, n)[i] = s[1 + i - 1]
    BY <2>1, SubSeqProperties
  <2>3. /\ Len(SubSeq(s, 1, n)) = n
        /\ \A i \in 1..n : SubSeq(s, 1, n)[i] = s[i]
    BY <2>1, <2>2
  <2> QED BY <2>3 DEF n
<1>4. \A c \in Conns : /\ Len(Append(s, c)) = Len(s) + 1
                       /\ \A i \in 1..Len(s) : Append(s, c)[i] = s[i]
                       /\ Append(s, c)[Len(s) + 1] = c
  BY DEF IdleLists
<1> QED BY <1>1, <1>2, <1>3, <1>4

\* Get takes the last connection of the list: it changes owner.
LEMMA PoolPop ==
  ASSUME RTypeOK, PoolInv, NEW r \in Requests, held[r] = 0, NEW a \in Addresses, a = Target(r), idle[a] # <<>>,
         idle' = Pop(a), Holds(r, idle[a][Len(idle[a])]), Goes(r, "alive"),
         UNCHANGED <<conn, peer, known, todo>>
  PROVE  PoolInv'
<1> DEFINE s == idle[a]
           c == s[Len(s)]
           t == SubSeq(s, 1, Len(s) - 1)
<1>1. idle[a] \in IdleLists
  BY DEF RTypeOK
<1>2. /\ Len(s) \in Nat /\ Len(s) \in 1..Len(s) /\ Len(t) = Len(s) - 1
      /\ \A i \in 1..(Len(s) - 1) : t[i] = s[i]
      /\ c \in Conns
  BY <1>1, ListPlaces
<1>3. /\ idle' = [idle EXCEPT ![a] = t] /\ held' = [held EXCEPT ![r] = c]
      /\ doing' = [doing EXCEPT ![r] = "alive"]
  BY DEF Pop, Holds, Goes
<1>4. \A b \in Addresses : b # a => idle'[b] = idle[b]
  BY <1>3 DEF RTypeOK
<1>5. idle'[a] = t
  BY <1>3 DEF RTypeOK
<1>6. held'[r] = c /\ \A q \in Requests : q # r => held'[q] = held[q]
  BY <1>3 DEF RTypeOK
<1>7. conn[c] = "open" /\ peer[c] = a /\ \A q \in Requests : held[q] # c
  BY <1>2 DEF PoolInv, IdleOpen, IdleUnheld
<1> HIDE DEF s, c, t
<1>8. SoleHolder' /\ HeldOpen'
  BY <1>6, <1>7 DEF PoolInv, SoleHolder, HeldOpen, Target
<1>9. UsedKnown'
  BY <1>3, <1>6 DEF PoolInv, UsedKnown, RTypeOK
<1>10. \A i \in 1..Len(t) : i \in 1..Len(s) /\ t[i] = s[i] /\ t[i] # c
  <2> SUFFICES ASSUME NEW i \in 1..Len(t) PROVE i \in 1..Len(s) /\ t[i] = s[i] /\ t[i] # c
    OBVIOUS
  <2>1. i \in 1..Len(s) /\ i # Len(s) /\ t[i] = s[i]
    BY <1>2
  <2> QED BY <2>1, <1>2 DEF PoolInv, IdleOnce, s, c
<1>11. IdleOpen' /\ IdleUnheld'
  <2> SUFFICES ASSUME NEW b \in Addresses, NEW i \in 1..Len(idle'[b])
               PROVE  /\ conn[idle'[b][i]] = "open" /\ peer[idle'[b][i]] = b
                      /\ \A q \in Requests : held'[q] # idle'[b][i]
    BY DEF IdleOpen, IdleUnheld
  <2>1. CASE b = a
    BY <2>1, <1>5, <1>6, <1>10 DEF PoolInv, IdleOpen, IdleUnheld, s
  <2>2. CASE b # a
    BY <2>2, <1>4, <1>6, <1>7 DEF PoolInv, IdleOpen, IdleUnheld, s
  <2> QED BY <2>1, <2>2
<1>12. IdleOnce'
  BY <1>4, <1>5, <1>10 DEF PoolInv, IdleOnce, s
<1>13. OpenOwned'
  <2> SUFFICES ASSUME NEW d \in Conns, conn[d] = "open"
               PROVE  \/ \E q \in Requests : held'[q] = d
                      \/ \E b \in Addresses : \E i \in 1..Len(idle'[b]) : idle'[b][i] = d
    BY DEF OpenOwned
  <2>1. CASE \E q \in Requests : held[q] = d
    BY <2>1, <1>6, ListFacts
  <2>2. CASE \E b \in Addresses : \E i \in 1..Len(idle[b]) : idle[b][i] = d
    <3>0. PICK b \in Addresses : \E i \in 1..Len(idle[b]) : idle[b][i] = d
      BY <2>2
    <3> PICK i \in 1..Len(idle[b]) : idle[b][i] = d
      BY <3>0
    <3>1. CASE b # a
      BY <3>1, <1>4
    <3>2. CASE b = a /\ i = Len(s)
      BY <3>2, <1>6 DEF s, c
    <3>3. CASE b = a /\ i # Len(s)
      <4>1. i \in 1..Len(t) /\ t[i] = d
        BY <3>3, <1>2 DEF s
      <4> QED BY <4>1, <1>5
    <3> QED BY <3>1, <3>2, <3>3
  <2> QED BY <2>1, <2>2 DEF PoolInv, OpenOwned
<1> QED BY <1>8, <1>9, <1>11, <1>12, <1>13 DEF PoolInv

\* What a request other than the one that acts keeps of its connection.
Bystanders(r) ==
  \A q \in Requests : q # r => /\ held'[q] = held[q] /\ Target(q)' = Target(q)
                               /\ doing'[q] = "use" => doing[q] = "use"

\* A connection is closed by the request that held it (Get and Put).
LEMMA PoolClose ==
  ASSUME RTypeOK, PoolInv, NEW r \in Requests, held[r] \in Conns, conn' = Discard(held[r]),
         held'[r] = 0, doing'[r] # "use", Bystanders(r), UNCHANGED <<idle, peer>>, known \ {held[r]} \subseteq known'
  PROVE  PoolInv'
<1> DEFINE c == held[r]
<1>1. conn'[c] = "closed" /\ \A d \in Conns : d # c => conn'[d] = conn[d]
  BY DEF Discard, RTypeOK
<1>2. \A q \in Requests : q # r => held[q] # c /\ held'[q] = held[q]
  BY DEF PoolInv, SoleHolder, Bystanders
<1>3. \A a \in Addresses : \A i \in 1..Len(idle[a]) : idle[a][i] \in Conns /\ idle[a][i] # c
  BY ListPlaces DEF PoolInv, IdleUnheld, RTypeOK
<1>4. 0 \notin Conns
  BY ListFacts
<1> HIDE DEF c
<1>5. SoleHolder' /\ HeldOpen'
  BY <1>1, <1>2, <1>4 DEF PoolInv, SoleHolder, HeldOpen, Bystanders
<1>6. UsedKnown'
  BY <1>2 DEF PoolInv, UsedKnown, Bystanders, c
<1>7. IdleOpen' /\ IdleOnce'
  BY <1>1, <1>3 DEF PoolInv, IdleOpen, IdleOnce
<1>8. IdleUnheld'
  BY <1>2, <1>3, <1>4 DEF PoolInv, IdleUnheld
<1>9. OpenOwned'
  BY <1>1, <1>2 DEF PoolInv, OpenOwned, c
<1> QED BY <1>5, <1>6, <1>7, <1>8, <1>9 DEF PoolInv

\* Put returns a connection to the list of its machine.
LEMMA PoolReturn ==
  ASSUME RTypeOK, PoolInv, NEW r \in Requests, held[r] \in Conns, NEW a \in Addresses, a = Target(r),
         idle' = [idle EXCEPT ![a] = Append(@, held[r])],
         held'[r] = 0, doing'[r] # "use", Bystanders(r), UNCHANGED <<conn, peer>>, known' = known \ {held[r]}
  PROVE  PoolInv'
<1> DEFINE c == held[r]
           s == idle[a]
           t == Append(s, c)
<1>1. idle[a] \in IdleLists
  BY DEF RTypeOK
<1>2. /\ Len(s) \in Nat /\ Len(t) = Len(s) + 1 /\ t[Len(s) + 1] = c
      /\ \A i \in 1..Len(s) : t[i] = s[i]
  BY <1>1, ListPlaces
<1>3. idle'[a] = t /\ \A b \in Addresses : b # a => idle'[b] = idle[b]
  BY DEF RTypeOK
<1>4. \A q \in Requests : q # r => held[q] # c /\ held'[q] = held[q]
  BY DEF PoolInv, SoleHolder, Bystanders
<1>5. conn[c] = "open" /\ peer[c] = a /\ c # 0
  BY ListFacts DEF PoolInv, HeldOpen
<1>6. \A b \in Addresses : \A i \in 1..Len(idle[b]) : idle[b][i] \in Conns /\ idle[b][i] # c /\ idle[b][i] # 0
  <2>1. \A b \in Addresses : idle[b] \in IdleLists
    BY DEF RTypeOK
  <2>2. \A b \in Addresses : \A i \in 1..Len(idle[b]) : idle[b][i] \in Conns
    BY <2>1, ListPlaces
  <2>3. \A b \in Addresses : \A i \in 1..Len(idle[b]) : idle[b][i] # c
    BY DEF PoolInv, IdleUnheld
  <2> QED BY <2>2, <2>3, ListFacts
<1> HIDE DEF c, s, t
<1>z. 0 \notin Conns
  BY ListFacts
<1>7. SoleHolder' /\ HeldOpen'
  BY <1>4, <1>z DEF PoolInv, SoleHolder, HeldOpen, Bystanders
<1>8. UsedKnown'
  BY <1>4 DEF PoolInv, UsedKnown, Bystanders, c
<1>9. \A i \in 1..Len(t) : \/ i \in 1..Len(s) /\ t[i] = s[i]
                           \/ i = Len(s) + 1 /\ t[i] = c
  BY <1>2
<1>10. IdleOpen' /\ IdleUnheld'
  <2> SUFFICES ASSUME NEW b \in Addresses, NEW i \in 1..Len(idle'[b])
               PROVE  /\ conn[idle'[b][i]] = "open" /\ peer[idle'[b][i]] = b
                      /\ \A q \in Requests : held'[q] # idle'[b][i]
    BY DEF IdleOpen, IdleUnheld
  <2>1. CASE b # a \/ (i \in 1..Len(idle[b]) /\ idle'[b][i] = idle[b][i])
    BY <2>1, <1>3, <1>4, <1>6 DEF PoolInv, IdleOpen, IdleUnheld
  <2>2. CASE b = a /\ idle'[b][i] = c
    BY <2>2, <1>4, <1>5
  <2> QED BY <2>1, <2>2, <1>3, <1>9 DEF s
<1>11. IdleOnce'
  <2> SUFFICES ASSUME NEW b \in Addresses, NEW i \in 1..Len(idle'[b]), NEW j \in 1..Len(idle'[b]),
                      idle'[b][i] = idle'[b][j]
               PROVE  i = j
    BY DEF IdleOnce
  <2>1. CASE b # a
    BY <2>1, <1>3 DEF PoolInv, IdleOnce
  <2>2. CASE b = a
    BY <2>2, <1>3, <1>6, <1>9 DEF PoolInv, IdleOnce, s
  <2> QED BY <2>1, <2>2
<1>12. OpenOwned'
  <2> SUFFICES ASSUME NEW d \in Conns, conn[d] = "open"
               PROVE  \/ \E q \in Requests : held'[q] = d
                      \/ \E b \in Addresses : \E i \in 1..Len(idle'[b]) : idle'[b][i] = d
    BY DEF OpenOwned
  <2>1. CASE d = c
    <3>1. Len(s) + 1 \in 1..Len(idle'[a]) /\ idle'[a][Len(s) + 1] = d
      BY <2>1, <1>2, <1>3
    <3> QED BY <3>1
  <2>2. CASE d # c /\ \E q \in Requests : held[q] = d
    BY <2>2, <1>4 DEF c
  <2>3. CASE \E b \in Addresses : \E i \in 1..Len(idle[b]) : idle[b][i] = d
    <3>0. PICK b \in Addresses : \E i \in 1..Len(idle[b]) : idle[b][i] = d
      BY <2>3
    <3> PICK i \in 1..Len(idle[b]) : idle[b][i] = d
      BY <3>0
    <3>1. i \in 1..Len(idle'[b]) /\ idle'[b][i] = d
      BY <1>2, <1>3 DEF s
    <3> QED BY <3>1
  <2> QED BY <2>1, <2>2, <2>3 DEF PoolInv, OpenOwned
<1> QED BY <1>7, <1>8, <1>10, <1>11, <1>12 DEF PoolInv

\* A request dials: the new connection is its own.
LEMMA PoolDial ==
  ASSUME RTypeOK, PoolInv, NEW r \in Requests, held[r] = 0, NEW c \in Conns, conn[c] = "unused",
         conn' = [conn EXCEPT ![c] = "open"], peer' = [peer EXCEPT ![c] = Target(r)],
         held' = [held EXCEPT ![r] = c], doing' = [doing EXCEPT ![r] = "use"], known' = known \cup {c},
         UNCHANGED <<idle, todo>>
  PROVE  PoolInv'
<1>1. /\ conn'[c] = "open" /\ peer'[c] = Target(r)
      /\ \A d \in Conns : d # c => conn'[d] = conn[d] /\ peer'[d] = peer[d]
  BY DEF RTypeOK
<1>2. /\ held'[r] = c
      /\ \A q \in Requests : q # r => held'[q] = held[q] /\ (doing'[q] = "use" => doing[q] = "use")
  BY DEF RTypeOK
<1>3. \A q \in Requests : held[q] # c
  BY DEF PoolInv, HeldOpen
<1>4. \A a \in Addresses : \A i \in 1..Len(idle[a]) : idle[a][i] \in Conns /\ idle[a][i] # c
  BY ListPlaces DEF PoolInv, IdleOpen, RTypeOK
<1>5. SoleHolder' /\ HeldOpen'
  BY <1>1, <1>2, <1>3 DEF PoolInv, SoleHolder, HeldOpen, Target
<1>6. UsedKnown'
  BY <1>2 DEF PoolInv, UsedKnown
<1>7. IdleOpen' /\ IdleOnce' /\ IdleUnheld'
  BY <1>1, <1>2, <1>4 DEF PoolInv, IdleOpen, IdleOnce, IdleUnheld
<1>8. OpenOwned'
  <2>1. 0 \notin Conns
    BY ListFacts
  <2> QED BY <1>1, <1>2, <2>1 DEF PoolInv, OpenOwned
<1> QED BY <1>5, <1>6, <1>7, <1>8 DEF PoolInv

LEMMA PoolStep == RTypeOK /\ PoolInv /\ [RNext]_rvars => PoolInv'
<1> SUFFICES ASSUME RTypeOK, PoolInv, [RNext]_rvars PROVE PoolInv'
  OBVIOUS
<1>0. 0 \notin Conns
  BY ListFacts
<1>1. ASSUME NEW r \in Requests, doing[r] # "idle" PROVE Target(r) \in Addresses
  BY <1>1, ListFacts DEF RTypeOK, Target
<1>2. ASSUME NEW r \in Requests, doing[r] \notin {"alive", "use"} PROVE held[r] = 0
  BY <1>2 DEF RTypeOK
<1>3. ASSUME NEW r \in Requests, doing[r] \in {"alive", "use"} PROVE held[r] \in Conns
  BY <1>3 DEF RTypeOK
<1>4. ASSUME NEW r \in Requests, NEW n, NEW t, NEW p \in {"idle", "pop"}, Begins(r, n, t, p)
      PROVE  Bystanders(r) /\ held'[r] = 0 /\ doing'[r] # "use"
  BY <1>4 DEF Begins, Bystanders, Goes, Holds, Target, RTypeOK
<1>5. ASSUME NEW r \in Requests, held[r] = 0, Bystanders(r), held'[r] = 0, doing'[r] # "use",
             held' \in [Requests -> {0} \cup Conns], UNCHANGED pool
      PROVE  PoolInv'
  <2>1. held' = held
    BY <1>5 DEF RTypeOK, Bystanders
  <2> QED BY <1>0, <1>5, <2>1, PoolQuiet DEF Bystanders, pool
<1>6. RTypeOK'
  BY RemoteTypeStep
<1>7. held' \in [Requests -> {0} \cup Conns]
  BY <1>6 DEF RTypeOK
<1>8. ASSUME NEW r \in Requests, doing[r] = "use", Put(held[r], Target(r)),
             Bystanders(r), held'[r] = 0, doing'[r] # "use", UNCHANGED peer
      PROVE  PoolInv'
  <2>1. held[r] \in Conns /\ Target(r) \in Addresses
    BY <1>1, <1>3, <1>8
  <2>2. known' = known \ {held[r]}
    BY <1>8 DEF Put
  <2>3. CASE conn' = Discard(held[r]) /\ UNCHANGED idle
    BY <1>8, <2>1, <2>2, <2>3, PoolClose
  <2>4. CASE idle' = [idle EXCEPT ![Target(r)] = Append(@, held[r])] /\ UNCHANGED conn
    BY <1>8, <2>1, <2>2, <2>4, PoolReturn
  <2> QED BY <1>8, <2>3, <2>4 DEF Put
<1>9. ASSUME NEW r \in Requests, doing[r] # "idle", Answers(r)
      PROVE  Bystanders(r) /\ held'[r] = 0 /\ doing'[r] # "use"
  BY <1>4, <1>9 DEF Answers
<1>10. ASSUME NEW r \in Requests, NEW p \in RunSteps \ {"use"}, Goes(r, p), UNCHANGED <<held, todo>>
       PROVE  Bystanders(r) /\ doing'[r] # "use"
  BY <1>10 DEF Goes, Bystanders, Target, RTypeOK
<1>11. ASSUME NEW r \in Requests, NEW p \in RunSteps \ {"use"}, Goes(r, p), Holds(r, 0), UNCHANGED todo
       PROVE  Bystanders(r) /\ held'[r] = 0 /\ doing'[r] # "use"
  BY <1>11 DEF Goes, Holds, Bystanders, Target, RTypeOK
<1>12. CASE \E r \in Requests : Serve(r)
  <2> PICK r \in Requests : Serve(r) BY <1>12
  <2>1. CASE RunNamed(r)
    BY <2>1, <1>2, <1>4, <1>5, <1>7 DEF RunNamed, Starts, At
  <2>2. CASE RunBatch(r)
    BY <2>2, <1>2, <1>4, <1>5, <1>7 DEF RunBatch, Starts, At
  <2>3. CASE GetPops(r)
    <3>1. CASE idle[Target(r)] = <<>>
      BY <2>3, <3>1, <1>2, <1>5, <1>7, <1>10 DEF GetPops, At, pool, RunSteps
    <3>2. CASE idle[Target(r)] # <<>>
      BY <2>3, <3>2, <1>1, <1>2, PoolPop DEF GetPops, At
    <3> QED BY <3>1, <3>2
  <2>4. CASE Keepalive(r)
    <3>1. CASE known' = known \cup {held[r]} /\ Goes(r, "use") /\ UNCHANGED <<conn, held>>
      <4>1. SoleHolder' /\ HeldOpen'
        BY <2>4, <3>1 DEF Keepalive, PoolInv, SoleHolder, HeldOpen, Target
      <4>2. UsedKnown'
        BY <2>4, <3>1 DEF Keepalive, PoolInv, UsedKnown, Goes, RTypeOK
      <4>3. IdleOpen' /\ IdleUnheld' /\ IdleOnce' /\ OpenOwned'
        BY <2>4, <3>1 DEF Keepalive, PoolInv, IdleOpen, IdleUnheld, IdleOnce, OpenOwned
      <4> QED BY <4>1, <4>2, <4>3 DEF PoolInv
    <3>2. CASE conn' = Discard(held[r]) /\ Goes(r, "dial") /\ Holds(r, 0) /\ UNCHANGED known
      <4>1. Bystanders(r) /\ held'[r] = 0 /\ doing'[r] # "use"
        BY <2>4, <3>2, <1>11 DEF Keepalive, RunSteps
      <4>2. held[r] \in Conns
        BY <2>4, <1>3 DEF Keepalive, At
      <4> QED BY <2>4, <3>2, <4>1, <4>2, PoolClose DEF Keepalive
    <3> QED BY <2>4, <3>1, <3>2 DEF Keepalive
  <2>5. CASE Dial(r)
    <3>1. PICK c \in Conns :
            /\ conn[c] = "unused" /\ conn' = [conn EXCEPT ![c] = "open"]
            /\ peer' = [peer EXCEPT ![c] = Target(r)] /\ known' = known \cup {c}
            /\ Goes(r, "use") /\ Holds(r, c)
      BY <2>5 DEF Dial
    <3>2. held[r] = 0
      BY <2>5, <1>2 DEF Dial, At
    <3> QED BY <2>5, <3>1, <3>2, PoolDial DEF Dial, Goes, Holds
  <2>6. CASE DialFails(r)
    <3>1. held[r] = 0 /\ doing[r] # "idle" /\ UNCHANGED pool
      BY <2>6, <1>2 DEF DialFails, At
    <3>2. CASE phase[r] = "probe"
      <4>1. Bystanders(r) /\ doing'[r] # "use" /\ held'[r] = 0
        BY <2>6, <3>1, <3>2, <1>10 DEF DialFails, AfterProbe, RunSteps
      <4> QED BY <3>1, <4>1, <1>5, <1>7
    <3>3. CASE phase[r] # "probe"
      BY <2>6, <3>1, <3>3, <1>5, <1>7, <1>9 DEF DialFails
    <3> QED BY <3>2, <3>3
  <2>7. CASE Probe(r)
    <3>1. Bystanders(r) /\ held'[r] = 0 /\ doing'[r] # "use"
      BY <2>7, <1>11 DEF Probe, AfterProbe, RunSteps
    <3> QED BY <2>7, <3>1, <1>8 DEF Probe, At
  <2>8. CASE RunOverSSH(r)
    BY <2>8, <1>8, <1>9 DEF RunOverSSH, At
  <2>9. CASE PublishReads(r)
    BY <2>9, <1>2, <1>5, <1>7, <1>10 DEF PublishReads, At, RunSteps
  <2>10. CASE PublishSaves(r)
    BY <2>10, <1>2, <1>5, <1>7, <1>10 DEF PublishSaves, At, RunSteps
  <2>11. CASE Fallback(r)
    BY <2>11, <1>2, <1>5, <1>7, <1>10 DEF Fallback, At, RunSteps
  <2>12. CASE Persist(r)
    BY <2>12, <1>2, <1>5, <1>7, <1>10 DEF Persist, At, RunSteps
  <2>13. CASE StepBegins(r)
    BY <2>13, <1>2, <1>5, <1>7, <1>10 DEF StepBegins, At, RunSteps
  <2>14. CASE PlanAnswers(r)
    BY <2>14, <1>2, <1>5, <1>7, <1>9 DEF PlanAnswers, At
  <2> QED BY <2>1, <2>2, <2>3, <2>4, <2>5, <2>6, <2>7, <2>8, <2>9, <2>10, <2>11, <2>12, <2>13,
             <2>14 DEF Serve
<1>13. ASSUME UNCHANGED <<pool, locals>> PROVE PoolInv'
  BY <1>13, PoolQuiet DEF pool, locals, Target
<1>14. CASE \E c \in Conns : TransportDies(c)
  BY <1>13, <1>14 DEF TransportDies
<1>15. CASE \E s \in SUBSET Capabilities : Damage(s)
  BY <1>13, <1>15 DEF Damage
<1>16. CASE (\E a \in Addresses : CreateHost(a)) \/ DeleteHost
  BY <1>13, <1>16 DEF CreateHost, DeleteHost
<1>17. CASE UNCHANGED rvars
  BY <1>13, <1>17 DEF rvars, pool, locals
<1> QED BY <1>12, <1>14, <1>15, <1>16, <1>17 DEF RNext

\* A list of distinct connections is no longer than there are connections.
LEMMA ListBounded ==
  ASSUME RTypeOK, PoolInv, NEW a \in Addresses
  PROVE  Len(idle[a]) <= MaxConns
<1> DEFINE s == idle[a]
           n == Len(s)
<1>1. idle[a] \in IdleLists
  BY DEF RTypeOK
<1>2. n \in Nat /\ s \in [1..n -> Conns]
  BY <1>1, LenProperties DEF IdleLists
<1>3. \A m \in Nat : IsFiniteSet(1..m) /\ Cardinality(1..m) = m
  BY FS_Interval
<1>4. IsFiniteSet(Conns) /\ Cardinality(Conns) = MaxConns
  BY <1>3, RemoteConstants DEF Conns
<1>5. \A i, j \in 1..n : s[i] = s[j] => i = j
  BY DEF PoolInv, IdleOnce
<1> HIDE DEF n, s
<1>6. ~(n > MaxConns)
  BY <1>2, <1>3, <1>4, <1>5, FS_PigeonHole
<1> QED BY <1>2, <1>6, RemoteConstants DEF n, s

LEMMA PoolAccounts == RTypeOK /\ PoolInv => ConnectionsAccounted
<1> SUFFICES ASSUME RTypeOK, PoolInv, NEW c \in Conns
             PROVE  /\ Cardinality(Holders(c)) + Cardinality(Places(c)) = IF conn[c] = "open" THEN 1 ELSE 0
                    /\ \A a \in Addresses, i \in 1..MaxConns :
                         i <= Len(idle[a]) /\ idle[a][i] = c => peer[c] = a
                    /\ \A r \in Holders(c) : At(r, "use") => c \in known /\ peer[c] = Target(r)
  BY DEF ConnectionsAccounted
<1>1. \A a \in Addresses : Len(idle[a]) \in Nat /\ Len(idle[a]) <= MaxConns
  BY ListBounded, ListPlaces DEF RTypeOK
<1>2. Places(c) = {p \in Addresses \X (1..MaxConns) : p[2] \in 1..Len(idle[p[1]]) /\ idle[p[1]][p[2]] = c}
  BY <1>1, RemoteConstants DEF Places
<1>3. CASE \E r \in Requests : held[r] = c
  <2> PICK r \in Requests : held[r] = c BY <1>3
  <2>1. Holders(c) = {r}
    BY DEF Holders, PoolInv, SoleHolder
  <2>2. Places(c) = {}
    BY <1>2 DEF PoolInv, IdleUnheld
  <2>3. conn[c] = "open"
    BY DEF PoolInv, HeldOpen
  <2>4. Cardinality(Holders(c)) = 1 /\ Cardinality(Places(c)) = 0
    BY <2>1, <2>2, FS_Singleton, FS_EmptySet
  <2> QED BY <2>3, <2>4, <2>1, <2>2, <1>1 DEF PoolInv, HeldOpen, UsedKnown, IdleOpen, At, Holders
<1>4. CASE ~\E r \in Requests : held[r] = c
  <2>1. Holders(c) = {}
    BY <1>4 DEF Holders
  <2>2. CASE conn[c] # "open"
    <3>1. Places(c) = {}
      BY <2>2, <1>2 DEF PoolInv, IdleOpen
    <3> QED BY <2>1, <2>2, <3>1, <1>1, FS_EmptySet DEF PoolInv, IdleOpen
  <2>3. CASE conn[c] = "open"
    <3>1. PICK a \in Addresses : \E i \in 1..Len(idle[a]) : idle[a][i] = c
      BY <1>4, <2>3 DEF PoolInv, OpenOwned
    <3>2. PICK i \in 1..Len(idle[a]) : idle[a][i] = c
      BY <3>1
    <3>3. <<a, i>> \in Places(c)
      BY <1>1, <1>2, <3>2, RemoteConstants
    <3>4. ASSUME NEW p \in Places(c) PROVE p = <<a, i>>
      <4>1. p \in Addresses \X (1..MaxConns) /\ p[2] \in 1..Len(idle[p[1]]) /\ idle[p[1]][p[2]] = c
        BY <1>2
      <4>2. p[1] = a
        BY <4>1, <3>2 DEF PoolInv, IdleOpen
      <4>3. p[2] = i
        BY <4>1, <4>2, <3>2 DEF PoolInv, IdleOnce
      <4> QED BY <4>1, <4>2, <4>3
    <3>5. Places(c) = {<<a, i>>}
      BY <3>3, <3>4
    <3>6. Cardinality(Places(c)) = 1 /\ Cardinality(Holders(c)) = 0
      BY <2>1, <3>5, FS_Singleton, FS_EmptySet
    <3> QED BY <2>1, <2>3, <3>6, <1>1 DEF PoolInv, IdleOpen
  <2> QED BY <2>2, <2>3
<1> QED BY <1>3, <1>4

\* However requests, keepalives, transport deaths and edits interleave, every
\* open connection has exactly one owner and a closed one none (ssh.go Get,
\* Put), for any number of requests, machines and connections.
THEOREM RemoteConnectionsAccounted == RSpec => []ConnectionsAccounted
<1>1. RInit => PoolInv
  <2>1. 0 \notin Conns
    BY ListFacts
  <2>2. RInit => \A a \in Addresses : Len(idle[a]) = 0
    BY DEF RInit
  <2>3. RInit => IdleOpen /\ IdleUnheld /\ IdleOnce
    BY <2>2 DEF IdleOpen, IdleUnheld, IdleOnce
  <2>4. RInit => SoleHolder /\ HeldOpen /\ UsedKnown /\ OpenOwned
    BY <2>1 DEF RInit, SoleHolder, HeldOpen, UsedKnown, OpenOwned
  <2> QED BY <2>3, <2>4 DEF PoolInv
<1> QED BY <1>1, RemoteTypeCorrect, PoolStep, PoolAccounts, PTL DEF RSpec

-----------------------------------------------------------------------------
(* The capability cache                                                    *)

\* Only a request for the name publishes or replays a hint.
HintsNamed == \A r \in Requests : doing[r] \in {"hints", "publish"} => named[r]

\* While no edit has crossed a named request, the row is the registration, its
\* hint was found on its machine, and every named request works for that machine
\* with a snapshot found there.
RowObserved ==
  ~crossed => /\ row.addr = wanted
              /\ row.hint # None => <<row.addr, row.hint>> \in observed
NamedFaithful ==
  ~crossed => \A r \in Requests : named[r] =>
                /\ todo[r] = <<row.addr>>
                /\ snap[r] # None => <<row.addr, snap[r]>> \in observed
                /\ doing[r] = "publish" => copy[r].addr = row.addr
ReplaysObserved ==
  ~crossed => \A p \in replayed : <<p[1], p[2]>> \in observed /\ p[3] = "good"

CacheInv == HintsNamed /\ RowObserved /\ NamedFaithful /\ ReplaysObserved

LEMMA CacheStep == RTypeOK /\ CacheInv /\ [RNext]_rvars => CacheInv'
<1> SUFFICES ASSUME RTypeOK, CacheInv, [RNext]_rvars PROVE CacheInv'
  OBVIOUS
<1> USE DEF CacheInv, HintsNamed, RowObserved, NamedFaithful, ReplaysObserved, At, Goes, Holds, Knows
<1>0. \A a : Head(<<a>>) = a /\ Len(<<a>>) = 1
  OBVIOUS
<1>1. ASSUME NEW r \in Requests, ~crossed, named[r] PROVE Target(r) = row.addr /\ Len(todo[r]) = 1
  BY <1>0, <1>1 DEF Target
<1>2. ASSUME NEW r \in Requests, Answers(r), UNCHANGED <<row, hist>>
      PROVE  CacheInv'
  <2>1. CASE Len(todo[r]) = 1
    BY <1>2, <2>1 DEF Answers, Begins, hist, RTypeOK
  <2>2. CASE Len(todo[r]) # 1
    <3>1. ~crossed => ~named[r]
      BY <1>1, <2>2
    <3> QED BY <1>2, <2>2, <3>1 DEF Answers, Begins, hist, RTypeOK
  <2> QED BY <2>1, <2>2
<1>3. CASE \E r \in Requests : Serve(r)
  <2> PICK r \in Requests : Serve(r) BY <1>3
  <2>1. CASE RunNamed(r)
    BY <2>1 DEF RunNamed, Starts, Begins, hist, RTypeOK
  <2>2. CASE RunBatch(r)
    BY <2>2 DEF RunBatch, Starts, Begins, hist, RTypeOK
  <2>3. CASE GetPops(r)
    BY <2>3 DEF GetPops, hist, RTypeOK
  <2>4. CASE Keepalive(r)
    BY <2>4 DEF Keepalive, hist, RTypeOK
  <2>5. CASE Dial(r)
    BY <2>5 DEF Dial, hist, RTypeOK
  <2>6. CASE DialFails(r)
    <3>1. CASE phase[r] = "probe"
      BY <2>6, <3>1 DEF DialFails, AfterProbe, hist, RTypeOK
    <3>2. CASE phase[r] # "probe"
      BY <2>6, <3>2, <1>2 DEF DialFails
    <3> QED BY <3>1, <3>2
  <2>7. CASE Probe(r)
    <3> PICK found \in SUBSET Capabilities : Knows(r, found) /\ observed' = observed \cup {<<Target(r), found>>}
      BY <2>7 DEF Probe
    <3>1. HintsNamed' /\ RowObserved' /\ ReplaysObserved'
      BY <2>7 DEF Probe, AfterProbe, RTypeOK
    <3>2. /\ snap' = [snap EXCEPT ![r] = found] /\ doing' = [doing EXCEPT ![r] = AfterProbe(r)]
          /\ UNCHANGED <<row, named, todo, copy, crossed>>
      BY <2>7 DEF Probe
    <3>3. AfterProbe(r) # "publish"
      BY DEF AfterProbe
    <3>4. NamedFaithful'
      <4> SUFFICES ASSUME ~crossed, NEW q \in Requests, named[q]
                   PROVE  /\ todo[q] = <<row.addr>>
                          /\ snap'[q] # None => <<row.addr, snap'[q]>> \in observed'
                          /\ doing'[q] = "publish" => copy[q].addr = row.addr
        BY <3>2
      <4>1. CASE q = r
        BY <4>1, <3>2, <3>3, <1>1, ZenonT(40) DEF RTypeOK
      <4>2. CASE q # r
        BY <4>2, <3>2 DEF RTypeOK
      <4> QED BY <4>1, <4>2
    <3> QED BY <3>1, <3>4
  <2>8. CASE RunOverSSH(r)
    BY <2>8, <1>2 DEF RunOverSSH
  <2>9. CASE PublishReads(r)
    BY <2>9 DEF PublishReads, hist, RTypeOK
  <2>10. CASE PublishSaves(r)
    <3>1. named[r] /\ (~crossed => row'.addr = row.addr) /\ row'.hint = snap[r]
      BY <2>10 DEF PublishSaves
    <3> QED BY <2>10, <3>1 DEF PublishSaves, hist, RTypeOK
  <2>11. CASE Fallback(r)
    <3>1. CASE Resolves(row.hint)
      <4>1. replayed' = replayed \cup {<<Target(r), row.hint, "good">>} /\ named[r]
        BY <2>11, <3>1 DEF Fallback, Resolves
      <4>2. /\ doing' = [doing EXCEPT ![r] = "persist"] /\ snap' = [snap EXCEPT ![r] = row.hint]
            /\ UNCHANGED <<row, named, todo, copy, wanted, observed, crossed>> /\ row.hint # None
        BY <2>11, <3>1 DEF Fallback, Resolves
      <4>3. HintsNamed' /\ RowObserved'
        BY <4>2 DEF RTypeOK
      <4>4. NamedFaithful'
        <5> SUFFICES ASSUME ~crossed, NEW q \in Requests, named[q]
                     PROVE  /\ todo[q] = <<row.addr>>
                            /\ snap'[q] # None => <<row.addr, snap'[q]>> \in observed
                            /\ doing'[q] = "publish" => copy[q].addr = row.addr
          BY <4>2
        <5>1. CASE q = r
          BY <5>1, <4>2 DEF RTypeOK
        <5>2. CASE q # r
          BY <5>2, <4>2 DEF RTypeOK
        <5> QED BY <5>1, <5>2
      <4>5. ~crossed => <<Target(r), row.hint>> \in observed
        BY <4>1, <4>2, <1>1
      <4>6. ReplaysObserved'
        <5> SUFFICES ASSUME ~crossed, NEW p \in replayed'
                     PROVE  <<p[1], p[2]>> \in observed /\ p[3] = "good"
          BY <4>2
        <5>1. CASE p \in replayed
          BY <5>1
        <5>2. CASE p = <<Target(r), row.hint, "good">>
          <6>1. p[1] = Target(r) /\ p[2] = row.hint /\ p[3] = "good"
            BY <5>2
          <6> QED BY <6>1, <4>5
        <5> QED BY <5>1, <5>2, <4>1
      <4> QED BY <4>3, <4>4, <4>6
    <3>2. CASE ~Resolves(row.hint)
      BY <2>11, <3>2 DEF Fallback, RTypeOK
    <3> QED BY <3>1, <3>2
  <2>12. CASE Persist(r)
    BY <2>12 DEF Persist, hist, RTypeOK
  <2>13. CASE StepBegins(r)
    BY <2>13 DEF StepBegins, hist, RTypeOK
  <2>14. CASE PlanAnswers(r)
    BY <2>14, <1>2 DEF PlanAnswers
  <2> QED BY <2>1, <2>2, <2>3, <2>4, <2>5, <2>6, <2>7, <2>8, <2>9, <2>10, <2>11, <2>12, <2>13,
             <2>14 DEF Serve
<1>4. CASE \E c \in Conns : TransportDies(c)
  BY <1>4 DEF TransportDies, locals, hist
<1>5. CASE \E s \in SUBSET Capabilities : Damage(s)
  BY <1>5 DEF Damage, locals, hist
<1>6. CASE \E a \in Addresses : CreateHost(a)
  <2> PICK a \in Addresses : CreateHost(a) BY <1>6
  <2>1. ~crossed' => ~crossed /\ \A r \in Requests : ~named[r]
    BY DEF CreateHost, Crosses
  <2>2. row'.addr = a /\ row'.hint = None /\ wanted' = a
    BY DEF CreateHost
  <2>3. UNCHANGED <<doing, named, todo, snap, copy, observed, replayed>>
    BY DEF CreateHost, locals
  <2> QED BY <2>1, <2>2, <2>3
<1>7. CASE DeleteHost
  BY <1>7 DEF DeleteHost, Crosses, locals, NoRow
<1>8. CASE UNCHANGED rvars
  BY <1>8 DEF rvars
<1> QED BY <1>3, <1>4, <1>5, <1>6, <1>7, <1>8 DEF RNext

\* The capability cache vouches only for the machine a request targets: as long
\* as no edit of the registry crossed a named request, what it replays was found
\* by a probe of that machine and is intact, and publishing a hint never undoes
\* a registration (server.go capabilityCacheFallback, publishCapabilityHint).
THEOREM RemoteCacheFaithful == RSpec => []CacheFaithful
<1>1. RInit => CacheInv
  BY DEF RInit, CacheInv, HintsNamed, RowObserved, NamedFaithful, ReplaysObserved, NoRow
<1>2. CacheInv => CacheFaithful
  BY DEF CacheInv, RowObserved, ReplaysObserved, CacheFaithful
<1> QED BY <1>1, <1>2, RemoteTypeCorrect, CacheStep, PTL DEF RSpec
=============================================================================
