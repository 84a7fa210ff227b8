--------------------------- MODULE RemoteExecution ---------------------------
(***************************************************************************)
(* Running an operation on a managed host: the host registry that resolves *)
(* a name, the pool of SSH connections (core/ssh.go), the capability probe *)
(* that precedes planning, the capability-cache hint kept in the host's    *)
(* labels with the content-addressed snapshot store behind it              *)
(* (server.go coreCtx), and the batch that fans out over several hosts.    *)
(*                                                                         *)
(* One registered name.  A host is its address, a connection its number;   *)
(* a capability snapshot is the set of capabilities found available.       *)
(***************************************************************************)
EXTENDS Integers, Sequences, FiniteSets

CONSTANTS
  Requests,      \* goroutines that serve run and batch requests
  Addresses,     \* machines that can be registered or targeted
  Capabilities,  \* capabilities a probe looks for
  None,          \* no address, no snapshot
  MaxIdle,       \* sshClientPool.maxIdle
  MaxConns,      \* bound: connections dialled
  MaxRuns,       \* bound: requests served
  MaxEdits       \* bound: administrator edits, transport deaths and storage faults

ASSUME RemoteConstants ==
  /\ IsFiniteSet(Capabilities) /\ None \notin Addresses /\ MaxIdle \in Nat \ {0}
  /\ MaxConns \in Nat /\ MaxRuns \in Nat /\ MaxEdits \in Nat

Conns == 1..MaxConns
NoRow == [addr |-> None, hint |-> None]

VARIABLES
  row,       \* MemoryHostStore.hosts of the name: [addr, hint]
  stored,    \* capability_snapshots: hash -> "absent", "good", "bad"
  conn,      \* connection -> "unused", "open", "closed"
  peer,      \* connection -> the address it was dialled to
  live,      \* connections whose transport is up
  idle,      \* sshClientPool.idle: address -> connections, last in first out
  known,     \* sshClientPool.known
  doing,     \* request -> the step it is at
  named,     \* request -> it was made for the registered name
  todo,      \* request -> the addresses it has yet to serve
  phase,     \* request -> "probe" or "run"
  held,      \* request -> the connection it took from the pool, or 0
  snap,      \* request -> the capabilities of its context, or None
  copy,      \* request -> the row publishCapabilityHint read
  runs,      \* requests started
  edits,     \* edits and faults so far
  wanted,    \* history: the address the administrator last registered
  observed,  \* history: what probes found, <<address, snapshot>>
  replayed,  \* history: what the cache served, <<address, snapshot>>
  crossed    \* history: the registry was edited while a named request ran

locals == <<doing, named, todo, phase, held, snap, copy>>
pool == <<conn, peer, idle, known>>
rvars == <<row, stored, conn, peer, live, idle, known, doing, named, todo, phase, held, snap, copy,
          runs, edits, wanted, observed, replayed, crossed>>
hist == <<wanted, observed, replayed, crossed>>

RInit ==
  /\ row = NoRow /\ wanted = None
  /\ stored = [s \in SUBSET Capabilities |-> "absent"]
  /\ conn = [c \in Conns |-> "unused"]
  /\ peer = [c \in Conns |-> None]
  /\ live = {} /\ known = {}
  /\ idle = [a \in Addresses |-> <<>>]
  /\ doing = [r \in Requests |-> "idle"]
  /\ named = [r \in Requests |-> FALSE]
  /\ todo = [r \in Requests |-> <<>>]
  /\ phase = [r \in Requests |-> "probe"]
  /\ held = [r \in Requests |-> 0]
  /\ snap = [r \in Requests |-> None]
  /\ copy = [r \in Requests |-> NoRow]
  /\ runs = 0 /\ edits = 0
  /\ observed = {} /\ replayed = {} /\ crossed = FALSE

At(r, step) == doing[r] = step
Goes(r, step) == doing' = [doing EXCEPT ![r] = step]
Holds(r, c) == held' = [held EXCEPT ![r] = c]
Knows(r, s) == snap' = [snap EXCEPT ![r] = s]
Target(r) == Head(todo[r])
Edit == edits < MaxEdits /\ edits' = edits + 1

-----------------------------------------------------------------------------
(* The requests                                                            *)

\* A fresh context for the first of the addresses.
Begins(r, n, addrs, step) ==
  /\ Goes(r, step) /\ Holds(r, 0) /\ Knows(r, None)
  /\ named' = [named EXCEPT ![r] = n]
  /\ todo' = [todo EXCEPT ![r] = addrs]
  /\ phase' = [phase EXCEPT ![r] = "probe"]
  /\ copy' = [copy EXCEPT ![r] = NoRow]

Starts(r, n, addrs) ==
  /\ At(r, "idle") /\ runs < MaxRuns
  /\ runs' = runs + 1
  /\ Begins(r, n, addrs, "pop")
  /\ UNCHANGED <<row, stored, pool, live, edits, hist>>

\* parseTargetBody of a run: the name is resolved through the registry.
RunNamed(r) == row # NoRow /\ Starts(r, TRUE, <<row.addr>>)

\* handleBatch: the targets of the group are resolved first and carry no name.
RunBatch(r) ==
  \E a, b \in Addresses : a # b /\ Starts(r, FALSE, <<a, b>>)

\* The command ran, or failed; the batch goes on to its next target whatever
\* came of this one, each with a fresh context.
Answers(r) ==
  IF Len(todo[r]) = 1 THEN Begins(r, FALSE, <<>>, "idle")
                      ELSE Begins(r, named[r], Tail(todo[r]), "pop")

-----------------------------------------------------------------------------
(* sshClientPool                                                           *)

PopPeeks(a) == idle

\* The idle list of a once its last connection is taken.
Pop(a) == [idle EXCEPT ![a] = SubSeq(@, 1, Len(@) - 1)]

\* Get, first critical section.
GetPops(r) ==
  /\ At(r, "pop")
  /\ LET a == Target(r) IN
       IF idle[a] = <<>>
         THEN Goes(r, "dial") /\ UNCHANGED <<idle, held>>
         ELSE idle' = Pop(a) /\ Goes(r, "alive") /\ Holds(r, idle[a][Len(idle[a])])
  /\ UNCHANGED <<row, stored, conn, peer, live, known, named, todo, phase, snap, copy, runs, edits, hist>>

\* client.Close()
Discard(c) == [conn EXCEPT ![c] = "closed"]

\* sshClientAlive: a live peer may still be too slow for the probe's timer.
\* Get hands the connection out, or closes it and dials.
Keepalive(r) ==
  /\ At(r, "alive")
  /\ LET c == held[r] IN
       \/ c \in live /\ known' = known \cup {c} /\ Goes(r, "use") /\ UNCHANGED <<conn, held>>
       \/ conn' = Discard(c) /\ Goes(r, "dial") /\ Holds(r, 0) /\ UNCHANGED known
  /\ UNCHANGED <<row, stored, peer, live, idle, named, todo, phase, snap, copy, runs, edits, hist>>

\* dialSSH
Dial(r) ==
  /\ At(r, "dial")
  /\ \E c \in Conns :
       /\ conn[c] = "unused" /\ \A d \in Conns : d < c => conn[d] # "unused"
       /\ conn' = [conn EXCEPT ![c] = "open"]
       /\ peer' = [peer EXCEPT ![c] = Target(r)]
       /\ live' = live \cup {c}
       /\ known' = known \cup {c}
       /\ Goes(r, "use") /\ Holds(r, c)
  /\ UNCHANGED <<row, stored, idle, named, todo, phase, snap, copy, runs, edits, hist>>

\* coreCtx: only a named host has a hint to publish or to replay.
AfterProbe(r) == IF named[r] THEN "hints" ELSE "plan"

\* A probe that cannot dial leaves the context as it is; a command fails.
DialFails(r) ==
  /\ At(r, "dial")
  /\ IF phase[r] = "probe"
       THEN Goes(r, AfterProbe(r)) /\ UNCHANGED <<named, todo, phase, held, snap, copy>>
       ELSE Answers(r)
  /\ UNCHANGED <<row, stored, pool, live, runs, edits, hist>>

\* Put.  Its argument was evaluated by the defer statement, before any session
\* could fail: the dead flag is always false.
Put(c, a) ==
  /\ known' = known \ {c}
  /\ IF c \notin known \/ Len(idle[a]) >= MaxIdle
       THEN conn' = Discard(c) /\ UNCHANGED idle
       ELSE idle' = [idle EXCEPT ![a] = Append(@, c)] /\ UNCHANGED conn

\* probeRemoteCapability: a complete matrix; a capability whose session could
\* not be opened, or that came after the deadline, counts as unavailable.
Probe(r) ==
  /\ At(r, "use") /\ phase[r] = "probe"
  /\ Goes(r, AfterProbe(r)) /\ Holds(r, 0)
  /\ \E found \in SUBSET Capabilities :
       /\ Knows(r, found)
       /\ observed' = observed \cup {<<Target(r), found>>}
  /\ Put(held[r], Target(r))
  /\ UNCHANGED <<row, stored, peer, live, named, todo, phase, copy, runs, edits, wanted, replayed, crossed>>

\* RunOverSSH: the command ends, the context is cancelled, the timer fires, or
\* the transport dies; the connection goes back in every case.
RunOverSSH(r) ==
  /\ At(r, "use") /\ phase[r] = "run"
  /\ Put(held[r], Target(r))
  /\ Answers(r)
  /\ UNCHANGED <<row, stored, peer, live, runs, edits, hist>>

\* The transport under a connection dies.
TransportDies(c) ==
  /\ c \in live /\ Edit
  /\ live' = live \ {c}
  /\ UNCHANGED <<row, stored, pool, locals, runs, hist>>

-----------------------------------------------------------------------------
(* applyCapabilityCacheHints and persistCapabilitySnapshot                 *)

\* publishCapabilityHint: nothing to do for a host that is gone or unchanged.
PublishReads(r) ==
  /\ At(r, "hints") /\ snap[r] # None
  /\ IF row = NoRow \/ row.hint = snap[r]
       THEN Goes(r, "persist") /\ UNCHANGED copy
       ELSE Goes(r, "publish") /\ copy' = [copy EXCEPT ![r] = row]
  /\ UNCHANGED <<row, stored, pool, live, named, todo, phase, held, snap, runs, edits, hist>>

\* Save replaces the row by the copy that was read, with the new label.
PublishSaves(r) ==
  /\ At(r, "publish")
  /\ row' = [addr |-> copy[r].addr, hint |-> snap[r]]
  /\ Goes(r, "persist")
  /\ UNCHANGED <<stored, pool, live, named, todo, phase, held, snap, copy, runs, edits, hist>>

ResolvesAnything(hint) == hint # None

\* GetByHash and the three refusals: schema, payload, content hash.
Resolves(hint) == hint # None /\ stored[hint] = "good"

\* capabilityCacheFallback: the last known set, when it can be vouched for.
Fallback(r) ==
  /\ At(r, "hints") /\ snap[r] = None
  /\ IF Resolves(row.hint)
       THEN /\ Goes(r, "persist") /\ Knows(r, row.hint)
            /\ replayed' = replayed \cup {<<Target(r), row.hint, stored[row.hint]>>}
       ELSE Goes(r, "plan") /\ UNCHANGED <<snap, replayed>>
  /\ UNCHANGED <<row, stored, pool, live, named, todo, phase, held, copy, runs, edits, wanted, observed, crossed>>

\* Snapshots.Put: an existing hash is left untouched.
PutSnapshot(s) == [stored EXCEPT ![s] = IF @ = "absent" THEN "good" ELSE @]

\* persistCapabilitySnapshot: a failure is only logged.
Persist(r) ==
  /\ At(r, "persist")
  /\ \/ stored' = PutSnapshot(snap[r]) /\ UNCHANGED edits
     \/ UNCHANGED stored /\ Edit
  /\ Goes(r, "plan")
  /\ UNCHANGED <<row, pool, live, named, todo, phase, held, snap, copy, runs, hist>>

\* A command step of the plan for a remote target runs over the pool.
StepBegins(r) ==
  /\ At(r, "plan")
  /\ Goes(r, "pop") /\ phase' = [phase EXCEPT ![r] = "run"]
  /\ UNCHANGED <<row, stored, pool, live, named, todo, held, snap, copy, runs, edits, hist>>

\* The request was for the plan alone, or no plan could be made.
PlanAnswers(r) ==
  /\ At(r, "plan")
  /\ Answers(r)
  /\ UNCHANGED <<row, stored, pool, live, runs, edits, hist>>

\* A payload of the store is damaged.
Damage(s) ==
  /\ stored[s] = "good" /\ Edit
  /\ stored' = [stored EXCEPT ![s] = "bad"]
  /\ UNCHANGED <<row, pool, live, locals, runs, hist>>

-----------------------------------------------------------------------------
(* handleCreateHost and handleDeleteHost                                   *)

Crosses == crossed' = (crossed \/ \E r \in Requests : named[r])

\* A registration replaces the row, labels included.
CreateHost(a) ==
  /\ Edit
  /\ row' = [addr |-> a, hint |-> None]
  /\ wanted' = a
  /\ Crosses
  /\ UNCHANGED <<stored, pool, live, locals, runs, observed, replayed>>

DeleteHost ==
  /\ Edit /\ row # NoRow
  /\ row' = NoRow
  /\ wanted' = None
  /\ Crosses
  /\ UNCHANGED <<stored, pool, live, locals, runs, observed, replayed>>

Serve(r) ==
  \/ RunNamed(r) \/ RunBatch(r)
  \/ GetPops(r) \/ Keepalive(r) \/ Dial(r) \/ DialFails(r) \/ Probe(r) \/ RunOverSSH(r)
  \/ PublishReads(r) \/ PublishSaves(r) \/ Fallback(r) \/ Persist(r)
  \/ StepBegins(r) \/ PlanAnswers(r)

RNext ==
  \/ \E r \in Requests : Serve(r)
  \/ \E c \in Conns : TransportDies(c)
  \/ \E s \in SUBSET Capabilities : Damage(s)
  \/ \E a \in Addresses : CreateHost(a)
  \/ DeleteHost

RSpec == RInit /\ [][RNext]_rvars

-----------------------------------------------------------------------------

Holders(c) == {r \in Requests : held[r] = c}
Places(c) == {p \in Addresses \X (1..MaxConns) :
                p[2] <= Len(idle[p[1]]) /\ idle[p[1]][p[2]] = c}

\* Every open connection has exactly one owner, a request or one place in the
\* idle list of the address it was dialled to, a closed one has none, and a
\* connection in use was entered in known: none leaks, none is shared by two
\* requests, none is closed under its user (ssh.go Get, Put).
ConnectionsAccounted ==
  \A c \in Conns :
    /\ Cardinality(Holders(c)) + Cardinality(Places(c)) = IF conn[c] = "open" THEN 1 ELSE 0
    /\ \A a \in Addresses, i \in 1..MaxConns :
         i <= Len(idle[a]) /\ idle[a][i] = c => peer[c] = a
    /\ \A r \in Holders(c) : At(r, "use") => c \in known /\ peer[c] = Target(r)

\* Unless the registry was edited under a running request, a snapshot served
\* from the cache was found by a probe of the machine the request targets and
\* its payload is intact, and publishing hints changed no registration
\* (server.go capabilityCacheFallback, publishCapabilityHint).
CacheFaithful ==
  ~crossed => /\ \A p \in replayed : <<p[1], p[2]>> \in observed /\ p[3] = "good"
              /\ row.addr = wanted

=============================================================================
