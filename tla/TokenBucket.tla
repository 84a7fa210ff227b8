---------------------------- MODULE TokenBucket ----------------------------
(***************************************************************************)
(* One token bucket of protection.TokenBucketSet, for one (capability,     *)
(* principal) key, and the goroutines that call Take on it.  The set's     *)
(* mutex covers only the lookup: take reads and writes the bucket after    *)
(* Unlock, so the loads and stores of concurrent calls interleave, and a   *)
(* load after the first may be served from memory or from the value the    *)
(* goroutine already holds.  The gate's rate guard and the login failure   *)
(* limiter both call Take.                                                 *)
(*                                                                         *)
(* Amounts are integers: one token is Unit, Refill is per tick.            *)
(***************************************************************************)
EXTENDS Integers, FiniteSets

CONSTANTS
  Callers,    \* goroutines that call Take
  Unit,       \* one token
  Capacity,   \* TokenBucketConfig.Capacity, in units
  Refill,     \* TokenBucketConfig.Refill, in units per tick
  MaxTime,    \* bound on the clock
  MaxGrants   \* bound on the tokens granted before callers stop

ASSUME BucketConstants ==
  /\ IsFiniteSet(Callers)
  /\ Unit \in Nat \ {0}
  /\ Capacity \in Nat /\ Capacity >= Unit
  /\ Refill \in Nat \ {0}
  /\ MaxTime \in Nat
  /\ MaxGrants \in Nat

VARIABLES
  now,      \* the clock
  made,     \* the bucket exists
  tokens,   \* tokenBucket.tokens
  last,     \* tokenBucket.last
  pc,       \* where each caller is in Take
  at,       \* the caller's reading of the clock
  elapsed,  \* now.Sub(t.last) as the caller computed it
  saw,      \* the token count the caller loaded last
  born,     \* history: the clock reading the bucket was made with
  granted,  \* history: how often Take returned true
  overlap   \* history: two calls of Take were in progress at once

vars == <<now, made, tokens, last, pc, at, elapsed, saw, born, granted, overlap>>

Init ==
  /\ now = 0
  /\ made = FALSE
  /\ tokens = Capacity
  /\ last = 0
  /\ pc = [c \in Callers |-> "idle"]
  /\ at = [c \in Callers |-> 0]
  /\ elapsed = [c \in Callers |-> 0]
  /\ saw = [c \in Callers |-> 0]
  /\ born = 0
  /\ granted = 0
  /\ overlap = FALSE

Goto(c, l) == pc' = [pc EXCEPT ![c] = l]

\* Take reads the clock before it takes the set's mutex.
ReadClock(c) ==
  /\ pc[c] = "idle"
  /\ granted < MaxGrants
  /\ at' = [at EXCEPT ![c] = now]
  /\ Goto(c, "lookup")
  /\ overlap' = (overlap \/ \E d \in Callers : pc[d] # "idle")
  /\ UNCHANGED <<now, made, tokens, last, elapsed, saw, born, granted>>

\* The lookup under the mutex makes a full bucket when there is none.
Lookup(c) ==
  /\ pc[c] = "lookup"
  /\ Goto(c, "last")
  /\ made' = TRUE
  /\ IF made
       THEN UNCHANGED <<tokens, last, born>>
       ELSE tokens' = Capacity /\ last' = at[c] /\ born' = at[c]
  /\ UNCHANGED <<now, at, elapsed, saw, granted, overlap>>

LoadLast(c) ==
  /\ pc[c] = "last"
  /\ elapsed' = [elapsed EXCEPT ![c] = at[c] - last]
  /\ Goto(c, "tokens")
  /\ UNCHANGED <<now, made, tokens, last, at, saw, born, granted, overlap>>

\* What a refill of elapsed ticks makes of n.
Refilled(n, ticks) == IF n + ticks * Refill > Capacity THEN Capacity ELSE n + ticks * Refill

LoadTokens(c) ==
  /\ pc[c] = "tokens"
  /\ IF elapsed[c] > 0
       THEN saw' = [saw EXCEPT ![c] = Refilled(tokens, elapsed[c])] /\ Goto(c, "store")
       ELSE saw' = [saw EXCEPT ![c] = tokens] /\ Goto(c, "check")
  /\ UNCHANGED <<now, made, tokens, last, at, elapsed, born, granted, overlap>>

StoreRefillKeepsLast(c) ==
  /\ pc[c] = "store"
  /\ tokens' = saw[c]
  /\ Goto(c, "check")
  /\ UNCHANGED <<now, made, last, at, elapsed, saw, born, granted, overlap>>

StoreRefill(c) ==
  /\ pc[c] = "store"
  /\ tokens' = saw[c]
  /\ last' = at[c]
  /\ Goto(c, "check")
  /\ UNCHANGED <<now, made, at, elapsed, saw, born, granted, overlap>>

\* t.tokens >= 1: the value in memory or the one already loaded.
Check(c) ==
  /\ pc[c] = "check"
  /\ \E v \in {tokens, saw[c]} :
       /\ saw' = [saw EXCEPT ![c] = v]
       /\ Goto(c, IF v >= Unit THEN "dec" ELSE "idle")
  /\ UNCHANGED <<now, made, tokens, last, at, elapsed, born, granted, overlap>>

\* t.tokens -= 1: again the value in memory or the one already loaded.
Decrement(c) ==
  /\ pc[c] = "dec"
  /\ \E v \in {tokens, saw[c]} : tokens' = v - Unit
  /\ granted' = granted + 1
  /\ Goto(c, "idle")
  /\ UNCHANGED <<now, made, last, at, elapsed, saw, born, overlap>>

Tick ==
  /\ now < MaxTime
  /\ now' = now + 1
  /\ UNCHANGED <<made, tokens, last, pc, at, elapsed, saw, born, granted, overlap>>

Take(c) ==
  \/ ReadClock(c) \/ Lookup(c) \/ LoadLast(c) \/ LoadTokens(c)
  \/ StoreRefill(c) \/ Check(c) \/ Decrement(c)

Next == Tick \/ \E c \in Callers : Take(c)

Spec == Init /\ [][Next]_vars

-----------------------------------------------------------------------------

\* The bucket never holds more than its capacity, whatever the calls of take
\* overwrite of each other (tokenbucket.go take: the min).
NeverOverfull == tokens <= Capacity

\* Take returns true at most as often as the capacity and the refill since the
\* bucket was made allow (tokenbucket.go Take: "true if a token was available,
\* false if the bucket is empty").
RateBound == granted * Unit <= Capacity + Refill * (now - born)

\* Calls that never overlapped keep to that rate: refill, cap and decrement of
\* one call after another grant no token twice (tokenbucket.go take).
SequentialRateBound == ~overlap => RateBound

=============================================================================
