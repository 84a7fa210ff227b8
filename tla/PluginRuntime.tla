---------------------------- MODULE PluginRuntime ----------------------------
(***************************************************************************)
(* The plugin runtime (internal/plugin/runtime): the Manager with its      *)
(* in-memory descriptor, the operation registry of the core, the plugin    *)
(* and operation rows of the storage, the synchroniser that projects a     *)
(* plugin's operations into both, and the watcher that reloads a plugin    *)
(* whose source changed.  One plugin; a definition is the set of its       *)
(* operations.  Only the descriptor map is under the manager's mutex:      *)
(* every storage call is a step of its own, and a lifecycle call, a reload *)
(* and a crash may come between any two.                                   *)
(***************************************************************************)
EXTENDS Integers, FiniteSets

CONSTANTS
  Ops,          \* operation names
  Defs,         \* definitions the source may hold: sets of operations
  MaxChanges,   \* bound: changes of the source
  MaxCalls,     \* bound: lifecycle calls
  MaxErrors,    \* bound: refused definitions and failed storage calls
  MaxCrashes    \* bound: crashes

ASSUME PluginConstants == Defs \subseteq SUBSET Ops /\ {} \notin Defs /\ Defs # {}

VARIABLES
  row,      \* plugin_registry: [known, enabled]
  opRow,    \* operations table: operation -> "absent", "on", "off"
  up,       \* the process runs
  desc,     \* Manager.descs and Manager.modules
  reg,      \* core.Registry: operation -> definition that registered it
  step,     \* caller -> where it is in its manager call, or "idle"
  todo,     \* caller -> operations its loop has not reached
  prev,     \* Bootstrap: the row as it was read
  old,      \* Reload: the descriptor it started from
  new,      \* Reload: the definition it discovered
  source,   \* what the loader would discover
  seen,     \* Watcher.seen: the content last looked at
  timer,    \* Watcher.timers: a reload is due
  wish,     \* history: the last lifecycle call that succeeded
  events,   \* history: what happened that the properties except
  bounds    \* [changes, calls, faults, crashes]

pvars == <<row, opRow, up, desc, reg, step, todo, prev, old, new, source, seen, timer, wish, events, bounds>>
stored == <<row, opRow>>
locals == <<step, todo, prev, old, new>>

Drivers == {"boot", "operator", "watcher"}
NoRow == [known |-> FALSE, enabled |-> FALSE]
NoDesc == [state |-> "unknown", def |-> {}]
NoDef == {}
Nothing == {}

PInit ==
  /\ row = NoRow
  /\ opRow = [o \in Ops |-> "absent"]
  /\ up = FALSE /\ desc = NoDesc /\ reg = [o \in Ops |-> NoDef]
  /\ step = [c \in Drivers |-> "idle"]
  /\ todo = [c \in Drivers |-> {}]
  /\ prev = NoRow /\ old = NoDesc /\ new = NoDef
  /\ source \in Defs /\ seen = Nothing /\ timer = FALSE
  /\ wish = "none" /\ events = {}
  /\ bounds = [changes |-> 0, calls |-> 0, faults |-> 0, crashes |-> 0]

At(c, s) == step[c] = s
Free(c) == At(c, "idle")
Goes(c, s) == step' = [step EXCEPT ![c] = s]
Loops(c, ops) == todo' = [todo EXCEPT ![c] = ops]
Handled(c, o) == Loops(c, todo[c] \ {o}) /\ UNCHANGED <<step, prev, old, new>>
Returns(c) ==
  /\ Goes(c, "idle") /\ Loops(c, {})
  /\ prev' = IF c = "boot" THEN NoRow ELSE prev
  /\ old' = IF c = "watcher" THEN NoDesc ELSE old
  /\ new' = IF c = "watcher" THEN NoDef ELSE new
Booting == ~ Free("boot")
Fault == bounds.faults < MaxErrors /\ bounds' = [bounds EXCEPT !.faults = @ + 1]

\* lifecycle.go
ValidTransitions ==
  [unknown |-> {}, loaded |-> {"registered"}, registered |-> {"enabled", "unloaded"},
   enabled |-> {"disabled"}, disabled |-> {"enabled", "unloaded"}]
CanTransition(to) == to \in ValidTransitions[desc.state]

\* setState: a descriptor that is gone stays gone.
SetState(s) == desc' = IF desc = NoDesc THEN desc ELSE [state |-> s, def |-> desc.def]

-----------------------------------------------------------------------------
(* Bootstrap                                                               *)

\* The persisted state is read before loading overwrites it.
BootRead ==
  /\ ~up /\ up' = TRUE
  /\ Goes("boot", "load") /\ prev' = row
  /\ UNCHANGED <<todo, old, new, stored, desc, reg, source, seen, timer, wish, events, bounds>>

\* DiscoverAndLoad
BootLoad ==
  /\ At("boot", "load")
  /\ desc' = [state |-> "loaded", def |-> source]
  /\ Goes("boot", "persist")
  /\ UNCHANGED <<todo, prev, old, new, stored, up, reg, source, seen, timer, wish, events, bounds>>

\* Not discovered or a capability is missing: skipped.  The compatibility gate
\* rejects it: the rejection is recorded in the plugin's row.
BootRefused ==
  /\ At("boot", "load") /\ Fault
  /\ \/ UNCHANGED row
     \/ row' = [known |-> TRUE, enabled |-> FALSE]
  /\ Returns("boot")
  /\ events' = events \union {"fault"}
  /\ UNCHANGED <<opRow, up, desc, reg, source, seen, timer, wish>>

BootPersist ==
  /\ At("boot", "persist")
  /\ row' = [known |-> TRUE, enabled |-> FALSE]
  /\ reg' = [o \in Ops |-> IF o \in desc.def THEN desc.def ELSE reg[o]]
  /\ Goes("boot", "register") /\ Loops("boot", desc.def)
  /\ UNCHANGED <<prev, old, new, opRow, up, desc, source, seen, timer, wish, events, bounds>>

\* Register: SyncPlugin saves every operation as enabled.
BootSync ==
  /\ At("boot", "register")
  /\ \E o \in todo["boot"] :
       /\ opRow' = [opRow EXCEPT ![o] = "on"]
       /\ Handled("boot", o)
  /\ UNCHANGED <<row, up, desc, reg, source, seen, timer, wish, events, bounds>>

NewEnabled == TRUE   \* BootstrapPolicy.AutoEnableNewPlugin, as cmd/opscore sets it
ForgetsState(was) == NewEnabled
ShouldEnable(was) == IF was.known THEN was.enabled ELSE NewEnabled

BootRegistered ==
  /\ At("boot", "register") /\ todo["boot"] = {}
  /\ SetState("registered")
  /\ IF ShouldEnable(prev)
     THEN Goes("boot", "enable") /\ Loops("boot", desc.def) /\ UNCHANGED <<prev, old, new>>
     ELSE Returns("boot")
  /\ UNCHANGED <<stored, up, reg, source, seen, timer, wish, events, bounds>>

-----------------------------------------------------------------------------
(* Enable, Disable, Unload                                                 *)

Calls(to, s) ==
  /\ up /\ ~ Booting /\ Free("operator")
  /\ bounds.calls < MaxCalls
  /\ bounds' = [bounds EXCEPT !.calls = @ + 1]
  /\ CanTransition(to)
  /\ Goes("operator", s) /\ Loops("operator", desc.def)
  /\ events' = events \union (IF Free("watcher") THEN {} ELSE {"raced"})
  /\ UNCHANGED <<prev, old, new, stored, up, reg, source, seen, timer, wish>>

Enable == Calls("enabled", "enable") /\ UNCHANGED desc
Disable == Calls("disabled", "disable") /\ UNCHANGED desc
Unload == Calls("unloaded", "unload") /\ desc' = NoDesc

EnableOp(c) ==
  /\ At(c, "enable")
  /\ \E o \in todo[c] :
       IF opRow[o] = "absent" THEN Returns(c) /\ UNCHANGED opRow
       ELSE opRow' = [opRow EXCEPT ![o] = "on"] /\ Handled(c, o)
  /\ UNCHANGED <<row, up, desc, reg, source, seen, timer, wish, events, bounds>>

EnableDone(c) ==
  /\ At(c, "enable") /\ todo[c] = {}
  /\ row' = [known |-> row.known, enabled |-> TRUE]
  /\ SetState("enabled")
  /\ wish' = IF c = "operator" THEN "enabled" ELSE wish
  /\ Returns(c)
  /\ UNCHANGED <<opRow, up, reg, source, seen, timer, events, bounds>>

\* Disable and Unload drop the error of a storage call and go on.
Swallowed == Fault /\ events' = events \union {"fault"}
SwitchOff(o) ==
  \/ /\ opRow' = [opRow EXCEPT ![o] = IF @ = "absent" THEN @ ELSE "off"]
     /\ UNCHANGED <<events, bounds>>
  \/ Swallowed /\ UNCHANGED opRow

DisableOp ==
  /\ At("operator", "disable")
  /\ \E o \in todo["operator"] : SwitchOff(o) /\ Handled("operator", o)
  /\ UNCHANGED <<row, up, desc, reg, source, seen, timer, wish>>

DisableDone ==
  /\ At("operator", "disable") /\ todo["operator"] = {}
  /\ \/ row' = [known |-> row.known, enabled |-> FALSE] /\ UNCHANGED <<events, bounds>>
     \/ Swallowed /\ UNCHANGED row
  /\ SetState("disabled")
  /\ wish' = "disabled"
  /\ Returns("operator")
  /\ UNCHANGED <<opRow, up, reg, source, seen, timer>>

UnloadOp ==
  /\ At("operator", "unload")
  /\ \E o \in todo["operator"] :
       /\ reg' = [reg EXCEPT ![o] = NoDef]
       /\ SwitchOff(o)
       /\ Handled("operator", o)
  /\ UNCHANGED <<row, up, desc, source, seen, timer, wish>>

UnloadDone ==
  /\ At("operator", "unload") /\ todo["operator"] = {}
  /\ wish' = "unloaded"
  /\ Returns("operator")
  /\ UNCHANGED <<stored, up, desc, reg, source, seen, timer, events, bounds>>

-----------------------------------------------------------------------------
(* Watcher                                                                 *)

Change ==
  /\ bounds.changes < MaxChanges
  /\ bounds' = [bounds EXCEPT !.changes = @ + 1]
  /\ source' \in Defs \ {source}
  /\ events' = events \union (IF up /\ seen = Nothing THEN {"unseeded"} ELSE {})
                      \union (IF source' = seen THEN {"reverted"} ELSE {})
  /\ UNCHANGED <<stored, up, desc, reg, locals, seen, timer, wish>>

TriggerWhenFree == desc # NoDesc /\ seen # Nothing /\ seen # source /\ Free("watcher")
Trigger == desc # NoDesc /\ seen # Nothing /\ seen # source

\* poll: the first look at a loaded plugin only records its content.
Poll ==
  /\ up /\ ~ Booting
  /\ seen' = IF desc = NoDesc THEN Nothing ELSE source
  /\ timer' = (timer \/ Trigger)
  /\ <<seen, timer>>' # <<seen, timer>>
  /\ UNCHANGED <<stored, up, desc, reg, locals, source, wish, events, bounds>>

\* runReload: a plugin that is gone is left alone, a reload that is already on
\* swallows the trigger.
Fire ==
  /\ up /\ timer /\ timer' = FALSE
  /\ IF desc # NoDesc /\ Free("watcher")
     THEN /\ Goes("watcher", "discover") /\ old' = desc
          /\ events' = events \union (IF Free("operator") THEN {} ELSE {"raced"})
     ELSE /\ UNCHANGED <<step, old>>
          /\ events' = events \union (IF desc # NoDesc THEN {"swallowed"} ELSE {})
  /\ UNCHANGED <<stored, up, desc, reg, todo, prev, new, source, seen, wish, bounds>>

-----------------------------------------------------------------------------
(* Reload                                                                  *)

ReloadDiscover ==
  /\ At("watcher", "discover")
  /\ new' = source
  /\ Goes("watcher", "sync") /\ Loops("watcher", source)
  /\ UNCHANGED <<prev, old, stored, up, desc, reg, source, seen, timer, wish, events, bounds>>

\* Phase A: not found, refused by the gate, a capability missing, not loadable.
ReloadRefused ==
  /\ At("watcher", "discover") /\ Fault
  /\ Returns("watcher")
  /\ events' = events \union {"fault"}
  /\ UNCHANGED <<stored, up, desc, reg, source, seen, timer, wish>>

\* SyncPlugin, operation by operation.
ReloadSync ==
  /\ At("watcher", "sync")
  /\ \E o \in todo["watcher"] :
       /\ reg' = [reg EXCEPT ![o] = new]
       /\ opRow' = [opRow EXCEPT ![o] = "on"]
       /\ Handled("watcher", o)
  /\ UNCHANGED <<row, up, desc, source, seen, timer, wish, events, bounds>>

NoRestore == Returns("watcher")
Restore == Goes("watcher", "restore") /\ Loops("watcher", old.def) /\ UNCHANGED <<prev, old, new>>

ReloadSyncFails ==
  /\ At("watcher", "sync") /\ Fault
  /\ \E o \in todo["watcher"] : reg' = [reg EXCEPT ![o] = new]
  /\ Restore
  /\ events' = events \union {"fault"}
  /\ UNCHANGED <<stored, up, desc, source, seen, timer, wish>>

\* The descriptor is replaced whatever became of it since the reload began.
ReloadSwap ==
  /\ At("watcher", "sync") /\ todo["watcher"] = {}
  /\ desc' = [state |-> old.state, def |-> new]
  /\ Goes("watcher", "upsert")
  /\ UNCHANGED <<todo, prev, old, new, stored, up, reg, source, seen, timer, wish, events, bounds>>

Removed(was, is) == was \ is

ReloadUpsert ==
  /\ At("watcher", "upsert")
  /\ row' = [known |-> TRUE, enabled |-> old.state = "enabled"]
  /\ Goes("watcher", "teardown") /\ Loops("watcher", Removed(old.def, new))
  /\ UNCHANGED <<prev, old, new, opRow, up, desc, reg, source, seen, timer, wish, events, bounds>>

ReloadUpsertFails ==
  /\ At("watcher", "upsert") /\ Fault
  /\ desc' = old
  /\ Restore
  /\ events' = events \union {"fault"}
  /\ UNCHANGED <<stored, up, reg, source, seen, timer, wish>>

ReloadRestore ==
  /\ At("watcher", "restore")
  /\ \E o \in todo["watcher"] :
       /\ reg' = [reg EXCEPT ![o] = old.def]
       /\ opRow' = [opRow EXCEPT ![o] = "on"]
       /\ IF todo["watcher"] = {o} THEN Returns("watcher") ELSE Handled("watcher", o)
  /\ UNCHANGED <<row, up, desc, source, seen, timer, wish, events, bounds>>

ReloadTeardown ==
  /\ At("watcher", "teardown")
  /\ \E o \in todo["watcher"] :
       /\ reg' = [reg EXCEPT ![o] = NoDef]
       /\ opRow' = [opRow EXCEPT ![o] = "off"]
       /\ Handled("watcher", o)
  /\ UNCHANGED <<row, up, desc, source, seen, timer, wish, events, bounds>>

ReloadDone ==
  /\ At("watcher", "teardown") /\ todo["watcher"] = {}
  /\ Returns("watcher")
  /\ UNCHANGED <<stored, up, desc, reg, source, seen, timer, wish, events, bounds>>

-----------------------------------------------------------------------------
\* A failed storage call ends Enable (also at boot) with an error, and Register.
CallFails(c) ==
  /\ step[c] \in {"enable", "register", "persist"} /\ Fault
  /\ Returns(c)
  /\ events' = events \union {"fault"}
  /\ UNCHANGED <<stored, up, desc, reg, source, seen, timer, wish>>

Crash ==
  /\ up /\ up' = FALSE
  /\ bounds.crashes < MaxCrashes
  /\ bounds' = [bounds EXCEPT !.crashes = @ + 1]
  /\ desc' = NoDesc /\ reg' = [o \in Ops |-> NoDef]
  /\ step' = [c \in Drivers |-> "idle"] /\ todo' = [c \in Drivers |-> {}]
  /\ prev' = NoRow /\ old' = NoDesc /\ new' = NoDef
  /\ seen' = Nothing /\ timer' = FALSE
  /\ events' = events \union (IF \A c \in Drivers : Free(c) THEN {} ELSE {"cut"})
  /\ UNCHANGED <<stored, source, wish>>

PNext ==
  \/ BootRead \/ BootLoad \/ BootRefused \/ BootPersist \/ BootSync \/ BootRegistered
  \/ Enable \/ Disable \/ Unload
  \/ \E c \in {"boot", "operator"} : EnableOp(c) \/ EnableDone(c) \/ CallFails(c)
  \/ DisableOp \/ DisableDone \/ UnloadOp \/ UnloadDone
  \/ Change \/ Poll \/ Fire
  \/ ReloadDiscover \/ ReloadRefused \/ ReloadSync \/ ReloadSyncFails \/ ReloadSwap
  \/ ReloadUpsert \/ ReloadUpsertFails \/ ReloadRestore \/ ReloadTeardown \/ ReloadDone
  \/ Crash

PSpec == PInit /\ [][PNext]_pvars

-----------------------------------------------------------------------------
(* Properties.                                                             *)

Quiet == up /\ \A c \in Drivers : Free(c)
Registered == desc.state \in {"registered", "enabled", "disabled"}

\* What is registered and usable is the loaded definition.  Once no call is
\* under way exactly its operations are registered, each with that definition,
\* after any sequence of reloads, lifecycle calls and restarts (a failed storage
\* call may leave more behind); and a reload that fails in any phase leaves the
\* previous definition registered and, if the plugin was enabled, usable
\* (Manager.Reload MUST-3).  Lifecycle calls that overlapped a reload excepted.
DefinitionServed ==
  Quiet /\ "raced" \notin events =>
    /\ (Registered \/ desc = NoDesc) /\ "fault" \notin events =>
         reg = [o \in Ops |-> IF o \in desc.def THEN desc.def ELSE NoDef]
    /\ Registered => \A o \in desc.def :
         reg[o] = desc.def /\ (desc.state = "enabled" => opRow[o] = "on")

\* After a restart the plugin is in the state of the last lifecycle call that
\* succeeded, unless a call was cut off by a crash, failed, or overlapped a
\* reload (Bootstrap, "Registry restores STATE").
StateRestored ==
  Quiet /\ Registered /\ events \intersect {"raced", "fault", "cut"} = {} =>
    /\ wish = "enabled" => desc.state = "enabled"
    /\ wish = "disabled" => desc.state \in {"registered", "disabled"}

\* When the watcher is at rest, having seen what the source holds now, that is
\* the loaded definition, unless a trigger was swallowed by a reload under way,
\* the source changed before the first poll or went back, between two polls, to
\* what the first of them saw, or a reload failed (Watcher.poll, runReload).
WatcherCurrent ==
  Quiet /\ ~ timer /\ desc # NoDesc /\ seen = source
        /\ events \intersect {"swallowed", "unseeded", "reverted", "fault", "raced"} = {} =>
    desc.def = source
=============================================================================
