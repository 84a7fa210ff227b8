------------------------------ MODULE Execution ------------------------------
(***************************************************************************)
(* The execution lifecycle of internal/core: synchronous runs              *)
(* (Runtime.Run), submitted runs (ExecutionService.Submit and its          *)
(* goroutine), the stepping kernel (Executor.runBody), cancellation        *)
(* (Runtime.Cancel, the cancel registry, handleCancelExecution) and the    *)
(* execution store both race on.                                           *)
(*                                                                         *)
(* A Transition is modelled as the SQLite store does it: read the row,     *)
(* then update it where status and version still match.  The in-memory     *)
(* store does the same in one critical section, that is with no step       *)
(* between the two.                                                        *)
(***************************************************************************)
EXTENDS Naturals, FiniteSets

CONSTANTS
  Execs,       \* execution ids
  Cancellers,  \* goroutines that serve cancel requests
  Steps,       \* steps in every plan
  StoreErrors, \* the store's backend may refuse a write
  MaxCrashes   \* bound on crashes of the process, each followed by a restart

ASSUME ExecutionConstants ==
  /\ Steps \in Nat
  /\ StoreErrors \in BOOLEAN
  /\ MaxCrashes \in Nat

VARIABLES
  status,      \* ExecutionRecord.Status; "none" before Create
  version,     \* ExecutionRecord.Version
  refused,     \* history: executions one of whose run's writes the store refused
  kind,        \* how it was started: synchronous or submitted, through a gate or not
  pc,          \* where the goroutine that runs the plan is
  seen,        \* the version its Transition in progress has read
  step,        \* steps executed
  stepOk,      \* outcome of the step just executed
  result,      \* ExecutionResult, once decided
  handler,     \* the HTTP handler that started the run has not returned
  registered,  \* cancelRegistry.cancels
  done,        \* executions whose run context is cancelled
  asked,       \* history: executions whose context a cancel request signalled
  cpc, target, cseen, marked,  \* the cancel requests
  crashes

runVars == <<kind, pc, seen, step, stepOk, result>>
recVars == <<status, version, refused>>
ctxVars == <<registered, done, asked, handler>>
cancelVars == <<cpc, target, cseen, marked>>
vars == <<runVars, recVars, ctxVars, cancelVars, crashes>>

Terminal == {"CANCELLED", "SUCCESS", "FAILED"}
Statuses == Terminal \cup {"none", "PLANNING", "RUNNING", "CANCEL_REQUESTED"}
RunPcs == {"idle", "spawned", "startRead", "startCas", "register", "loop", "step", "after",
           "finishRead", "finishCas", "settleRead", "settleCas", "audit", "publish",
           "unregister", "end", "lost"}

Kinds == {"sync", "async", "gatedSync", "gatedAsync"}
Async(e) == kind[e] \in {"async", "gatedAsync"}
Gated(e) == kind[e] \in {"gatedSync", "gatedAsync"}

Init ==
  /\ status = [e \in Execs |-> "none"]
  /\ version = [e \in Execs |-> 0]
  /\ refused = {}
  /\ kind \in [Execs -> Kinds]
  /\ \A e, f \in Execs : Gated(e) = Gated(f)   \* the server has a gate or not
  /\ pc = [e \in Execs |-> "idle"]
  /\ seen = [e \in Execs |-> 0]
  /\ step = [e \in Execs |-> 0]
  /\ stepOk = [e \in Execs |-> TRUE]
  /\ result = [e \in Execs |-> "none"]
  /\ handler = {}
  /\ registered = {}
  /\ done = {}
  /\ asked = {}
  /\ cpc = [k \in Cancellers |-> "idle"]
  /\ target \in [Cancellers -> Execs]
  /\ cseen = [k \in Cancellers |-> 0]
  /\ marked = [k \in Cancellers |-> FALSE]
  /\ crashes = 0

-----------------------------------------------------------------------------
(* The store.                                                              *)

Goto(e, l) == pc' = [pc EXCEPT ![e] = l]

\* The UPDATE of Transition: it applies where status and version still match.
LastWriteWins(e, from, v) == TRUE
Matches(e, from, v) == status[e] = from /\ version[e] = v
Move(e, to) ==
  /\ status' = [status EXCEPT ![e] = to]
  /\ version' = [version EXCEPT ![e] = @ + 1]
  /\ UNCHANGED refused

Create(e, s) ==
  /\ status' = [status EXCEPT ![e] = s]
  /\ version' = [version EXCEPT ![e] = 1]
  /\ UNCHANGED refused

\* The backend fails: nothing is written and the caller gets an error, which
\* no caller tells from a conflict.
StoreFails(e) ==
  /\ StoreErrors
  /\ refused' = refused \cup {e}
  /\ UNCHANGED <<status, version>>

\* The read of a Transition by the goroutine that runs e.
ReadRow(e, from, to) ==
  /\ pc[e] = from
  /\ seen' = [seen EXCEPT ![e] = version[e]]
  /\ Goto(e, to)
  /\ UNCHANGED <<kind, step, stepOk, result, recVars, ctxVars, cancelVars, crashes>>

-----------------------------------------------------------------------------
(* Starting a run.                                                         *)

\* ExecutionService.Submit: PLANNING record, CREATED event, goroutine.
Submit(e) ==
  /\ pc[e] = "idle" /\ Async(e)
  /\ Create(e, "PLANNING")
  /\ handler' = handler \cup {e}
  /\ Goto(e, "spawned")
  /\ UNCHANGED <<kind, seen, step, stepOk, result, registered, done, asked, cancelVars, crashes>>

\* runAsync registers its cancel func before the record can be RUNNING.
RegisterAsync(e) ==
  /\ pc[e] = "spawned"
  /\ registered' = registered \cup {e}
  /\ Goto(e, "startRead")
  /\ UNCHANGED <<kind, seen, step, stepOk, result, recVars, done, asked, handler, cancelVars, crashes>>

StartRead(e) == ReadRow(e, "startRead", "startCas")

\* PLANNING to RUNNING, or the goroutine gives up.
StartCas(e) ==
  /\ pc[e] = "startCas"
  /\ \/ Matches(e, "PLANNING", seen[e]) /\ Move(e, "RUNNING") /\ Goto(e, "loop")
     \/ ~Matches(e, "PLANNING", seen[e]) /\ UNCHANGED recVars /\ Goto(e, "unregister")
     \/ StoreFails(e) /\ Goto(e, "unregister")
  /\ UNCHANGED <<kind, seen, step, stepOk, result, ctxVars, cancelVars, crashes>>

\* Executor.run: the record is created RUNNING, then the cancel func registered.
\* A record that could not be created does not stop the run.
RunSync(e) ==
  /\ pc[e] = "idle" /\ ~Async(e)
  /\ Create(e, "RUNNING") \/ StoreFails(e)
  /\ handler' = handler \cup {e}
  /\ Goto(e, "register")
  /\ UNCHANGED <<kind, seen, step, stepOk, result, registered, done, asked, cancelVars, crashes>>

RegisterSync(e) ==
  /\ pc[e] = "register"
  /\ registered' = registered \cup {e}
  /\ Goto(e, "loop")
  /\ UNCHANGED <<kind, seen, step, stepOk, result, recVars, done, asked, handler, cancelVars, crashes>>

-----------------------------------------------------------------------------
(* Executor.runBody.                                                       *)

Decide(e, r) == result' = [result EXCEPT ![e] = r] /\ Goto(e, "finishRead")

\* The head of the loop: no step left, cancelled before the step, or execute.
LoopHead(e) ==
  /\ pc[e] = "loop"
  /\ \/ step[e] = Steps /\ Decide(e, "SUCCESS")
     \/ step[e] < Steps /\ e \in done /\ Decide(e, "CANCELLED")
     \/ step[e] < Steps /\ e \notin done /\ Goto(e, "step") /\ UNCHANGED result
  /\ UNCHANGED <<kind, seen, step, stepOk, recVars, ctxVars, cancelVars, crashes>>

\* step.Execute and UpdateStep.
ExecuteStep(e) ==
  /\ pc[e] = "step"
  /\ step' = [step EXCEPT ![e] = @ + 1]
  /\ \E ok \in BOOLEAN : stepOk' = [stepOk EXCEPT ![e] = ok]
  /\ Goto(e, "after")
  /\ UNCHANGED <<kind, seen, result, recVars, ctxVars, cancelVars, crashes>>

\* A cancellation seen after the step wins over the step's failure.
AfterStep(e) ==
  /\ pc[e] = "after"
  /\ \/ e \in done /\ Decide(e, "CANCELLED")
     \/ e \notin done /\ ~stepOk[e] /\ Decide(e, "FAILED")
     \/ e \notin done /\ stepOk[e] /\ Goto(e, "loop") /\ UNCHANGED result
  /\ UNCHANGED <<kind, seen, step, stepOk, recVars, ctxVars, cancelVars, crashes>>

FinishRead(e) == ReadRow(e, "finishRead", "finishCas")

FinishWithoutSettling(e) ==
  /\ pc[e] = "finishCas"
  /\ Goto(e, "audit")
  /\ IF Matches(e, "RUNNING", seen[e]) THEN Move(e, result[e]) ELSE UNCHANGED recVars
  /\ UNCHANGED <<kind, seen, step, stepOk, result, ctxVars, cancelVars, crashes>>

\* finishRecordStatus: RUNNING to the result, else settle a cancel request.
FinishCas(e) ==
  /\ pc[e] = "finishCas"
  /\ \/ Matches(e, "RUNNING", seen[e]) /\ Move(e, result[e]) /\ Goto(e, "audit")
     \/ ~Matches(e, "RUNNING", seen[e]) /\ UNCHANGED recVars /\ Goto(e, "settleRead")
     \/ StoreFails(e) /\ Goto(e, "settleRead")
  /\ UNCHANGED <<kind, seen, step, stepOk, result, ctxVars, cancelVars, crashes>>

SettleRead(e) == ReadRow(e, "settleRead", "settleCas")

SettleCas(e) ==
  /\ pc[e] = "settleCas"
  /\ \/ Matches(e, "CANCEL_REQUESTED", seen[e]) /\ Move(e, "CANCELLED")
     \/ ~Matches(e, "CANCEL_REQUESTED", seen[e]) /\ UNCHANGED recVars
     \/ StoreFails(e)
  /\ Goto(e, "audit")
  /\ UNCHANGED <<kind, seen, step, stepOk, result, ctxVars, cancelVars, crashes>>

\* emitAudit; only a submitted run publishes a FINISHED event.
EmitAudit(e) ==
  /\ pc[e] = "audit"
  /\ Goto(e, IF Async(e) THEN "publish" ELSE "unregister")
  /\ UNCHANGED <<kind, seen, step, stepOk, result, recVars, ctxVars, cancelVars, crashes>>

\* The event goes to the subscribers of the bus; it changes no state here.
PublishFinished(e) ==
  /\ pc[e] = "publish"
  /\ Goto(e, "unregister")
  /\ UNCHANGED <<kind, seen, step, stepOk, result, recVars, ctxVars, cancelVars, crashes>>

\* The deferred Unregister; Executor.run then cancels its own context.
Unregister(e) ==
  /\ pc[e] = "unregister"
  /\ registered' = registered \ {e}
  /\ done' = IF ~Async(e) THEN done \cup {e} ELSE done
  /\ Goto(e, "end")
  /\ UNCHANGED <<kind, seen, step, stepOk, result, recVars, asked, handler, cancelVars, crashes>>

-----------------------------------------------------------------------------
(* The handler's context.                                                  *)

HandlerReturnsAttached(e) ==
  /\ e \in handler
  /\ Async(e) \/ pc[e] = "end"
  /\ handler' = handler \ {e}
  /\ done' = done \cup {e}
  /\ UNCHANGED <<runVars, recVars, registered, asked, cancelVars, crashes>>

\* The handler of e returns.  With a gate the run context derives from the
\* request's and the handler cancels it on return; without one it is detached.
HandlerReturns(e) ==
  /\ e \in handler
  /\ Async(e) \/ pc[e] = "end"
  /\ handler' = handler \ {e}
  /\ done' = IF Gated(e) THEN done \cup {e} ELSE done
  /\ UNCHANGED <<runVars, recVars, registered, asked, cancelVars, crashes>>

\* With a gate the deadline passes or the client disconnects.
DeadlinePasses(e) ==
  /\ Gated(e)
  /\ e \in handler
  /\ done' = done \cup {e}
  /\ UNCHANGED <<runVars, recVars, registered, asked, handler, cancelVars, crashes>>

-----------------------------------------------------------------------------
(* handleCancelExecution and Runtime.Cancel.                               *)

CGoto(k, l) == cpc' = [cpc EXCEPT ![k] = l]

\* The handler reads the record and refuses unless it is RUNNING.
CancelGet(k, e) ==
  /\ cpc[k] = "idle"
  /\ status[e] # "none"
  /\ target' = [target EXCEPT ![k] = e]
  /\ CGoto(k, IF status[e] = "RUNNING" THEN "read" ELSE "end")
  /\ UNCHANGED <<runVars, recVars, ctxVars, cseen, marked, crashes>>

CancelRead(k) ==
  /\ cpc[k] = "read"
  /\ cseen' = [cseen EXCEPT ![k] = version[target[k]]]
  /\ CGoto(k, "mark")
  /\ UNCHANGED <<runVars, recVars, ctxVars, target, marked, crashes>>

\* RUNNING to CANCEL_REQUESTED; a conflict or an error is ignored.
CancelMark(k) ==
  /\ cpc[k] = "mark"
  /\ \/ /\ Matches(target[k], "RUNNING", cseen[k])
        /\ Move(target[k], "CANCEL_REQUESTED")
        /\ marked' = [marked EXCEPT ![k] = TRUE]
     \/ /\ ~Matches(target[k], "RUNNING", cseen[k]) \/ StoreErrors
        /\ UNCHANGED <<recVars, marked>>
  /\ CGoto(k, "signal")
  /\ UNCHANGED <<runVars, ctxVars, target, cseen, crashes>>

\* cancelRegistry.Cancel: 202 if the id is registered, 409 if it is not.
CancelSignal(k) ==
  /\ cpc[k] = "signal"
  /\ IF target[k] \in registered
       THEN /\ done' = done \cup {target[k]}
            /\ asked' = asked \cup {target[k]}
       ELSE UNCHANGED <<done, asked>>
  /\ CGoto(k, "end")
  /\ UNCHANGED <<runVars, recVars, registered, handler, target, cseen, marked, crashes>>

-----------------------------------------------------------------------------

\* The process crashes and restarts: the store keeps its records, every
\* goroutine, context and registration is gone, and nothing picks a record up.
Crash ==
  /\ crashes < MaxCrashes
  /\ crashes' = crashes + 1
  /\ pc' = [e \in Execs |-> IF pc[e] \in {"idle", "end"} THEN pc[e] ELSE "lost"]
  /\ cpc' = [k \in Cancellers |-> IF cpc[k] = "idle" THEN "idle" ELSE "end"]
  /\ registered' = {}
  /\ handler' = {}
  /\ UNCHANGED <<kind, seen, step, stepOk, result, recVars, done, asked,
                 target, cseen, marked>>

Run(e) ==
  \/ RegisterAsync(e) \/ StartRead(e) \/ StartCas(e) \/ RegisterSync(e)
  \/ LoopHead(e) \/ ExecuteStep(e) \/ AfterStep(e)
  \/ FinishRead(e) \/ FinishCas(e) \/ SettleRead(e) \/ SettleCas(e)
  \/ EmitAudit(e) \/ PublishFinished(e) \/ Unregister(e)

Cancel(k) == CancelRead(k) \/ CancelMark(k) \/ CancelSignal(k)

Next ==
  \/ \E e \in Execs : \/ Submit(e) \/ RunSync(e) \/ Run(e)
                      \/ HandlerReturns(e) \/ DeadlinePasses(e)
  \/ \E k \in Cancellers : Cancel(k) \/ \E e \in Execs : CancelGet(k, e)
  \/ Crash

Spec == Init /\ [][Next]_vars

\* Goroutines that have started keep running; steps return.
FairSpec ==
  /\ Spec
  /\ \A e \in Execs : WF_vars(Run(e))
  /\ \A k \in Cancellers : WF_vars(Cancel(k))

-----------------------------------------------------------------------------
(* Properties.                                                             *)

\* Every variable holds a value of its type.
TypeOK ==
  /\ status \in [Execs -> Statuses]
  /\ version \in [Execs -> Nat]
  /\ refused \subseteq Execs
  /\ kind \in [Execs -> Kinds]
  /\ pc \in [Execs -> RunPcs]
  /\ seen \in [Execs -> Nat]
  /\ step \in [Execs -> 0..Steps]
  /\ stepOk \in [Execs -> BOOLEAN]
  /\ result \in [Execs -> Terminal \cup {"none"}]
  /\ handler \subseteq Execs
  /\ registered \subseteq Execs
  /\ done \subseteq Execs
  /\ asked \subseteq Execs
  /\ cpc \in [Cancellers -> {"idle", "read", "mark", "signal", "end"}]
  /\ target \in [Cancellers -> Execs]
  /\ cseen \in [Cancellers -> Nat]
  /\ marked \in [Cancellers -> BOOLEAN]
  /\ crashes \in Nat

\* A record in a terminal state never changes again, however finishing and
\* cancelling race (store.go Transition: "concurrent Cancel / Finish cannot
\* silently overwrite each other").
TerminalIsFinal ==
  [][\A e \in Execs : status[e] \in Terminal => status'[e] = status[e]]_vars

\* A run whose goroutine is past finishRecordStatus has left a terminal record,
\* unless the store refused one of its writes: no interleaving with Cancel
\* leaves it RUNNING or CANCEL_REQUESTED.
FinishedRunIsTerminal ==
  \A e \in Execs \ refused :
    pc[e] \in {"audit", "publish", "unregister", "end"} => status[e] \in Terminal

\* A record says SUCCESS or FAILED only if the run ended that way, and then no
\* cancel request has marked it (executor.go finishRecordStatus).
RecordAgreesWithRun ==
  \A e \in Execs : status[e] \in {"SUCCESS", "FAILED"} =>
    /\ result[e] = status[e]
    /\ \A k \in Cancellers : ~(marked[k] /\ target[k] = e)

\* Both of these: what is left of a finished run is terminal and true.
RecordHonest == FinishedRunIsTerminal /\ RecordAgreesWithRun

\* Without a gate only a cancel request makes a run stop early: nothing else
\* ends its context (server.go: the detached parentCtx).
StopsOnlyWhenAsked ==
  \A e \in Execs : result[e] = "CANCELLED" => Gated(e) \/ e \in asked

\* The process stopped under the run, or the store refused one of its writes.
Broken(e) == pc[e] = "lost" \/ e \in refused

\* A requested cancellation reaches CANCELLED (executor.go: "so it never
\* lingers in a requested-but-not-terminal state"), unless the run is broken.
CancelRequestSettles ==
  \A e \in Execs : status[e] = "CANCEL_REQUESTED" ~> status[e] = "CANCELLED" \/ Broken(e)

\* Every submitted or started run ends in a terminal record and leaves the
\* cancel registry (service.go runAsync, executor.go runBody), unless it is
\* broken.
EveryRunEnds ==
  \A e \in Execs :
    status[e] # "none" ~> (status[e] \in Terminal /\ e \notin registered) \/ Broken(e)

\* Runs end and requested cancellations settle (executor.go, service.go).
EverythingSettles == CancelRequestSettles /\ EveryRunEnds
=============================================================================
