-------------------------- MODULE OperatorMutation --------------------------
(***************************************************************************)
(* The two definition stores an operator may edit while the gate reads     *)
(* them, KillStore and QuotaStore, their persistence, and the mutation     *)
(* services that edit them: durable audit intent, write-through to disk,   *)
(* projection to memory, durable audit outcome.  Each of these is a step   *)
(* of its own (the stores lock only the projection), any of them may fail, *)
(* and the process may crash between any two.                              *)
(***************************************************************************)
EXTENDS Naturals, FiniteSets

CONSTANTS
  Ops,         \* handler goroutines of operator requests
  Keys,        \* capability identifiers
  MaxCrashes   \* bound on process crashes

ASSUME MutationConstants == MaxCrashes \in Nat /\ Keys # {}

Stores == {"kill", "quota"}

VARIABLES
  state,     \* KillStore.state
  loaded,    \* QuotaStore.Bootstrap succeeded
  disk,      \* kill_state and the quota table: the keys that are set
  mem,       \* KillStore.killed and QuotaStore.defs: the keys that are set
  opMeta,    \* KillStore.opMeta
  trail,     \* durable audit intents: <<store, key, want>>
  stage,     \* where each operator request is
  job,       \* the request: store, key and whether to set or to clear
  clean,     \* history: no opposite request overlapped this one
  settled,   \* history: the last acknowledged, unopposed request per key
  crashes

opVars == <<stage, job, clean>>
mvars == <<state, loaded, disk, mem, opMeta, trail, opVars, settled, crashes>>

Jobs == [store : Stores, key : Keys, want : BOOLEAN]
InFlight(o) == stage[o] # "idle"
Opposes(a, b) == a.store = b.store /\ a.key = b.key /\ a.want # b.want

With(set, k, want) == IF want THEN set \cup {k} ELSE set \ {k}

MInit ==
  /\ state = "Uninitialized"
  /\ loaded = FALSE
  /\ disk = [s \in Stores |-> {}]
  /\ mem = [s \in Stores |-> {}]
  /\ opMeta = {}
  /\ trail = {}
  /\ stage = [o \in Ops |-> "idle"]
  /\ job \in [Ops -> {CHOOSE j \in Jobs : TRUE}]
  /\ clean = [o \in Ops |-> TRUE]
  /\ settled = [s \in Stores |-> [k \in Keys |-> "unknown"]]
  /\ crashes = 0

Enter(o, l) == stage' = [stage EXCEPT ![o] = l]

-----------------------------------------------------------------------------
(* Start and crash.                                                        *)

\* The rows the store reads; nothing when the read fails.
Loaded(s, ok) == IF ok THEN disk[s] ELSE {}

BootstrapFailOpen ==
  /\ state = "Uninitialized"
  /\ \E killsOk, quotaOk \in BOOLEAN :
       /\ state' = "Ready"
       /\ loaded' = quotaOk
       /\ mem' = [kill |-> Loaded("kill", killsOk), quota |-> Loaded("quota", quotaOk)]
  /\ UNCHANGED <<disk, opMeta, trail, opVars, settled, crashes>>

\* Both stores are loaded before the server listens.  A kill store that cannot
\* be loaded is Failed; a quota store that cannot is empty.
Bootstrap ==
  /\ state = "Uninitialized"
  /\ \E killsOk, quotaOk \in BOOLEAN :
       /\ state' = IF killsOk THEN "Ready" ELSE "Failed"
       /\ loaded' = quotaOk
       /\ mem' = [kill |-> Loaded("kill", killsOk), quota |-> Loaded("quota", quotaOk)]
  /\ UNCHANGED <<disk, opMeta, trail, opVars, settled, crashes>>

Crash ==
  /\ crashes < MaxCrashes
  /\ crashes' = crashes + 1
  /\ state' = "Uninitialized"
  /\ loaded' = FALSE
  /\ mem' = [s \in Stores |-> {}]
  /\ opMeta' = {}
  /\ stage' = [o \in Ops |-> "idle"]
  /\ UNCHANGED <<disk, trail, job, clean, settled>>

\* KillStore.IsKilled: everything is killed unless the store is Ready.
IsKilled(k) == state # "Ready" \/ k \in mem["kill"]

-----------------------------------------------------------------------------
(* The handlers of the operator console and the services they call,        *)
(* OperatorMutation.Kill/Release and OperatorQuotaMutation.Set/Clear.  A   *)
(* request that is refused before its service is called (no session, no    *)
(* admin role, another origin, an empty capability) changes nothing.       *)

Begin(o, j) ==
  LET others == {x \in Ops \ {o} : InFlight(x) /\ Opposes(job[x], j)}
  IN  /\ state # "Uninitialized"
      /\ stage[o] = "idle"
      /\ Enter(o, "intent")
      /\ job' = [job EXCEPT ![o] = j]
      /\ clean' = [x \in Ops |-> IF x = o THEN others = {} ELSE clean[x] /\ x \notin others]
      /\ settled' = [settled EXCEPT ![j.store][j.key] =
                       IF @ = (IF j.want THEN "set" ELSE "clear") THEN @ ELSE "unknown"]
      /\ UNCHANGED <<state, loaded, disk, mem, opMeta, trail, crashes>>

HandleKill(o, k)       == Begin(o, [store |-> "kill", key |-> k, want |-> TRUE])
HandleRelease(o, k)    == Begin(o, [store |-> "kill", key |-> k, want |-> FALSE])
HandleQuotaSet(o, k)   == Begin(o, [store |-> "quota", key |-> k, want |-> TRUE])
HandleQuotaClear(o, k) == Begin(o, [store |-> "quota", key |-> k, want |-> FALSE])

WriteIntentBestEffort(o) ==
  /\ stage[o] = "intent"
  /\ \/ trail' = trail \cup {<<job[o].store, job[o].key, job[o].want>>}
     \/ UNCHANGED trail
  /\ Enter(o, "persist")
  /\ UNCHANGED <<state, loaded, disk, mem, opMeta, job, clean, settled, crashes>>

\* Without a durable intent nothing else happens.
WriteIntent(o) ==
  /\ stage[o] = "intent"
  /\ \/ /\ trail' = trail \cup {<<job[o].store, job[o].key, job[o].want>>}
        /\ Enter(o, "persist")
     \/ Enter(o, "idle") /\ UNCHANGED trail
  /\ UNCHANGED <<state, loaded, disk, mem, opMeta, job, clean, settled, crashes>>

\* The write to persistence, outside the store's lock.
Persist(o) ==
  /\ stage[o] = "persist"
  /\ \/ /\ disk' = [disk EXCEPT ![job[o].store] = With(@, job[o].key, job[o].want)]
        /\ Enter(o, "project")
     \/ Enter(o, "idle") /\ UNCHANGED disk
  /\ UNCHANGED <<state, loaded, mem, opMeta, trail, job, clean, settled, crashes>>

\* The projection to memory, under the store's lock.
Project(o) ==
  /\ stage[o] = "project"
  /\ mem' = [mem EXCEPT ![job[o].store] = With(@, job[o].key, job[o].want)]
  /\ Enter(o, IF job[o].store = "kill" THEN "meta" ELSE "outcome")
  /\ UNCHANGED <<state, loaded, disk, opMeta, trail, job, clean, settled, crashes>>

\* The second critical section of RecordOperatorKill and ClearOperatorKill.
RecordMeta(o) ==
  /\ stage[o] = "meta"
  /\ opMeta' = With(opMeta, job[o].key, job[o].want)
  /\ Enter(o, "outcome")
  /\ UNCHANGED <<state, loaded, disk, mem, trail, job, clean, settled, crashes>>

\* The outcome row may fail; the answer is then degraded, the mutation stands.
WriteOutcome(o) ==
  /\ stage[o] = "outcome"
  /\ Enter(o, "idle")
  /\ settled' = [settled EXCEPT ![job[o].store][job[o].key] =
                   IF clean[o] THEN IF job[o].want THEN "set" ELSE "clear" ELSE @]
  /\ UNCHANGED <<state, loaded, disk, mem, opMeta, trail, job, clean, crashes>>

MNext ==
  \/ Bootstrap \/ Crash
  \/ \E o \in Ops :
       \/ \E k \in Keys : HandleKill(o, k) \/ HandleRelease(o, k)
                           \/ HandleQuotaSet(o, k) \/ HandleQuotaClear(o, k)
       \/ WriteIntent(o) \/ Persist(o) \/ Project(o) \/ RecordMeta(o) \/ WriteOutcome(o)

MSpec == MInit /\ [][MNext]_mvars

-----------------------------------------------------------------------------
(* Properties.                                                             *)

\* Every variable holds a value of its type.
MTypeOK ==
  /\ state \in {"Uninitialized", "Ready", "Failed"}
  /\ loaded \in BOOLEAN
  /\ disk \in [Stores -> SUBSET Keys]
  /\ mem \in [Stores -> SUBSET Keys]
  /\ opMeta \subseteq Keys
  /\ trail \subseteq (Stores \X Keys \X BOOLEAN)
  /\ stage \in [Ops -> {"idle", "intent", "persist", "project", "meta", "outcome"}]
  /\ job \in [Ops -> Jobs]
  /\ clean \in [Ops -> BOOLEAN]
  /\ settled \in [Stores -> [Keys -> {"unknown", "set", "clear"}]]
  /\ crashes \in Nat

\* A kill that was acknowledged and that no release has opposed since holds at
\* every admission check, through crashes, restarts and stores that cannot be
\* loaded (killstore.go Bootstrap, IsKilled, SetKilled).
AckedKillHolds == \A k \in Keys : settled["kill"][k] = "set" => IsKilled(k)

\* An acknowledged quota change that nothing opposed since is what the gate
\* reads, unless the definitions could not be loaded (quota.go SetDefinition,
\* ClearDefinition, Bootstrap).
AckedQuotaHolds ==
  \A k \in Keys : loaded =>
    /\ settled["quota"][k] = "set" => k \in mem["quota"]
    /\ settled["quota"][k] = "clear" => k \notin mem["quota"]

\* Both stores honour what they acknowledged: the gate reads every kill and
\* every quota that was answered with success and not opposed since.
AckedMutationsHold == AckedKillHolds /\ AckedQuotaHolds

\* Nothing is on disk without a durable audit intent for it, whatever failed
\* or crashed (killmutation.go, quotamutation.go: intent, mutation, outcome).
NothingWithoutIntent ==
  \A s \in Stores : \A k \in disk[s] : <<s, k, TRUE>> \in trail

=============================================================================
