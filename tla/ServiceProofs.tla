---------------------------- MODULE ServiceProofs ----------------------------
(***************************************************************************)
(* Proofs about the token bucket, for any number of callers, capacity and  *)
(* refill, about the sessions that its login limiter guards, and about the *)
(* plugin runtime: what is registered is the loaded definition, a restart  *)
(* restores the last lifecycle call, and a watcher at rest has loaded what *)
(* it saw, for any operations, definitions and bounds.                     *)
(***************************************************************************)
EXTENDS Sessions, PluginRuntime, SequenceTheorems, TLAPS

\* Neither the bucket nor a value a caller holds exceeds the capacity: a caller
\* stores only what it loaded and refilled, or one token less.
Capped ==
  /\ tokens \in Int /\ tokens <= Capacity
  /\ saw \in [Callers -> Int]
  /\ \A c \in Callers : saw[c] <= Capacity
  /\ elapsed \in [Callers -> Int]
  /\ at \in [Callers -> Int]
  /\ last \in Int
  /\ now \in Int

\* What a refill yields is an integer and at most the capacity (take: the min).
LEMMA RefilledCapped ==
  ASSUME NEW n \in Int, NEW t \in Int PROVE Refilled(n, t) \in Int /\ Refilled(n, t) <= Capacity
<1>1. t * Refill \in Int
    BY BucketConstants
<1> DEFINE sum == n + t * Refill
<1>2. sum \in Int
    BY <1>1
<1> HIDE DEF sum
<1>3. Refilled(n, t) = IF sum > Capacity THEN Capacity ELSE sum
    BY DEF Refilled, sum
<1> QED
    BY <1>2, <1>3, BucketConstants

\* However the loads and stores of concurrent takes interleave, the bucket never
\* holds more than its capacity (tokenbucket.go take).
THEOREM Overfull == Spec => []NeverOverfull
<1>1. Init => Capped
    BY BucketConstants DEF Init, Capped
<1>2. Capped /\ [Next]_vars => Capped'
  <2> SUFFICES ASSUME Capped, [Next]_vars PROVE Capped'
    OBVIOUS
  <2> USE BucketConstants DEF Capped, Goto
  <2>1. CASE Tick
    BY <2>1 DEF Tick
  <2>2. ASSUME NEW c \in Callers, ReadClock(c) PROVE Capped'
    BY <2>2 DEF ReadClock
  <2>3. ASSUME NEW c \in Callers, Lookup(c) PROVE Capped'
    BY <2>3 DEF Lookup
  <2>4. ASSUME NEW c \in Callers, LoadLast(c) PROVE Capped'
    BY <2>4 DEF LoadLast
  <2>5. ASSUME NEW c \in Callers, LoadTokens(c) PROVE Capped'
    <3>1. Refilled(tokens, elapsed[c]) \in Int /\ Refilled(tokens, elapsed[c]) <= Capacity
      BY RefilledCapped
    <3> QED
      BY <2>5, <3>1 DEF LoadTokens
  <2>6. ASSUME NEW c \in Callers, StoreRefill(c) PROVE Capped'
    BY <2>6 DEF StoreRefill
  <2>7. ASSUME NEW c \in Callers, Check(c) PROVE Capped'
    BY <2>7 DEF Check
  <2>8. ASSUME NEW c \in Callers, Decrement(c) PROVE Capped'
    BY <2>8 DEF Decrement
  <2>9. CASE UNCHANGED vars
    BY <2>9 DEF vars
  <2> QED
    BY <2>1, <2>2, <2>3, <2>4, <2>5, <2>6, <2>7, <2>8, <2>9 DEF Next, Take
<1>3. Capped => NeverOverfull
    BY DEF Capped, NeverOverfull
<1> QED
    BY <1>1, <1>2, <1>3, PTL DEF Spec

-----------------------------------------------------------------------------
(* Calls that do not overlap.                                              *)

\* What Take may have granted when a bucket made at time b is refilled up to
\* time t.
Allowance(b, t) == Capacity + Refill * (t - b)

\* What caller c holds in the middle of take: between its load and its store
\* the refilled value is in saw and is within the allowance of its clock.
InCall(c) ==
  /\ at[c] <= now
  /\ pc[c] # "idle" => last <= at[c]
  /\ pc[c] \notin {"idle", "lookup"} => made
  /\ pc[c] = "tokens" => elapsed[c] = at[c] - last
  /\ pc[c] = "store" => saw[c] \in Nat /\ granted * Unit + saw[c] <= Allowance(born, at[c])
  /\ pc[c] \in {"check", "dec"} => saw[c] = tokens
  /\ pc[c] = "dec" => tokens >= Unit

\* The tokens granted and the tokens left never exceed the allowance of the
\* last refill, and at most one caller is inside Take.
Conserved ==
  /\ tokens \in Nat /\ granted \in Nat
  /\ now \in Nat /\ last \in Nat /\ born \in Nat
  /\ at \in [Callers -> Nat] /\ elapsed \in [Callers -> Int] /\ saw \in [Callers -> Int]
  /\ pc \in [Callers -> {"idle", "lookup", "last", "tokens", "store", "check", "dec"}]
  /\ born <= last /\ last <= now
  /\ ~made => granted = 0 /\ last = 0 /\ born = 0
  /\ granted * Unit + tokens <= Allowance(born, last)
  /\ \A c \in Callers : InCall(c)
  /\ \A c, d \in Callers : c # d => pc[c] = "idle" \/ pc[d] = "idle"

\* Refilling for t - l ticks more raises the allowance by as much.
LEMMA AllowanceGrows ==
  ASSUME NEW b \in Int, NEW l \in Int, NEW t \in Int
  PROVE  /\ Allowance(b, l) \in Int
         /\ Allowance(b, t) = Allowance(b, l) + (t - l) * Refill
         /\ l <= t => Allowance(b, l) <= Allowance(b, t)
         /\ Allowance(b, b) = Capacity
<1>1. Allowance(b, l) \in Int /\ Allowance(b, t) \in Int
    BY BucketConstants DEF Allowance
<1>2. Refill * (t - b) = Refill * (l - b) + (t - l) * Refill
    BY BucketConstants
<1>3. l <= t => (t - l) * Refill >= 0
    BY BucketConstants
<1>4. Refill * (b - b) = 0
    BY BucketConstants
<1> QED
    BY <1>1, <1>2, <1>3, <1>4, BucketConstants DEF Allowance

\* A step of Take, or of the clock, keeps the account of the tokens as long as
\* no two calls overlap.
LEMMA ConservedStep == (~overlap => Conserved) /\ [Next]_vars => (~overlap' => Conserved')
<1> SUFFICES ASSUME ~overlap => Conserved, [Next]_vars, ~overlap' PROVE Conserved'
  OBVIOUS
<1>0. Conserved
  BY DEF Next, Take, Tick, ReadClock, Lookup, LoadLast, LoadTokens, StoreRefill, Check,
         Decrement, vars
<1> USE BucketConstants, <1>0 DEF Conserved, InCall, Goto
<1>a. granted * Unit \in Nat /\ (granted + 1) * Unit = granted * Unit + Unit
  OBVIOUS
<1>t. born \in Int /\ last \in Int /\ \A c \in Callers : at[c] \in Int
  OBVIOUS
<1>b. /\ Allowance(born, last) \in Int
      /\ \A c \in Callers : Allowance(born, at[c]) \in Int
  <2> HIDE <1>0 DEF Conserved, InCall
  <2> QED
    BY <1>t, AllowanceGrows
<1>1. CASE Tick
  BY <1>1, <1>a, <1>b DEF Tick
<1>2. ASSUME NEW c \in Callers, ReadClock(c) PROVE Conserved'
  <2>1. \A d \in Callers : pc[d] = "idle"
    BY <1>2 DEF ReadClock
  <2>2. /\ pc' = [pc EXCEPT ![c] = "lookup"] /\ at' = [at EXCEPT ![c] = now]
        /\ UNCHANGED <<now, made, tokens, last, elapsed, saw, born, granted>>
    BY <1>2 DEF ReadClock
  <2>3. \A d \in Callers : InCall(d)'
    BY <2>1, <2>2, <1>a, <1>b
  <2> QED
    BY <2>1, <2>2, <2>3, <1>a, <1>b
<1>3. ASSUME NEW c \in Callers, Lookup(c) PROVE Conserved'
  <2>1. Allowance(at[c], at[c]) = Capacity
    <3> HIDE <1>0 DEF Conserved, InCall
    <3> QED
      BY <1>t, AllowanceGrows
  <2>2. CASE made
    BY <1>3, <2>2, <1>a, <1>b DEF Lookup
  <2>3. CASE ~made
    BY <1>3, <2>1, <2>3 DEF Lookup
  <2> QED
    BY <2>2, <2>3
<1>4. ASSUME NEW c \in Callers, LoadLast(c) PROVE Conserved'
  BY <1>4, <1>a, <1>b DEF LoadLast
<1>5. ASSUME NEW c \in Callers, LoadTokens(c) PROVE Conserved'
  <2> DEFINE n == Refilled(tokens, elapsed[c])
  <2>1. elapsed[c] = at[c] - last /\ elapsed[c] \in Nat /\ elapsed[c] * Refill \in Nat
    BY <1>5 DEF LoadTokens
  <2>2. n \in Nat /\ n <= tokens + elapsed[c] * Refill
    BY <2>1 DEF Refilled
  <2>3. Allowance(born, at[c]) = Allowance(born, last) + elapsed[c] * Refill
    <3>1. at[c] \in Int /\ last \in Int /\ born \in Int
      OBVIOUS
    <3>2. Allowance(born, at[c]) = Allowance(born, last) + (at[c] - last) * Refill
      BY <3>1, AllowanceGrows
    <3> QED
      BY <2>1, <3>2
  <2>4. granted * Unit + n <= Allowance(born, at[c])
    BY <2>1, <2>2, <2>3, <1>a, <1>b
  <2> HIDE DEF n
  <2>5. CASE elapsed[c] > 0
    <3>1. saw' = [saw EXCEPT ![c] = n] /\ pc' = [pc EXCEPT ![c] = "store"]
      BY <1>5, <2>5 DEF LoadTokens, n
    <3> QED
      BY <1>5, <2>2, <2>4, <3>1, <1>a, <1>b DEF LoadTokens
  <2>6. CASE ~(elapsed[c] > 0)
    BY <1>5, <2>6, <1>a, <1>b DEF LoadTokens
  <2> QED
    BY <2>5, <2>6
<1>6. ASSUME NEW c \in Callers, StoreRefill(c) PROVE Conserved'
  BY <1>6, <1>a, <1>b DEF StoreRefill
<1>7. ASSUME NEW c \in Callers, Check(c) PROVE Conserved'
  BY <1>7, <1>a, <1>b DEF Check
<1>8. ASSUME NEW c \in Callers, Decrement(c) PROVE Conserved'
  BY <1>8, <1>a, <1>b DEF Decrement
<1>9. CASE UNCHANGED vars
  BY <1>9 DEF vars
<1> QED
  BY <1>1, <1>2, <1>3, <1>4, <1>5, <1>6, <1>7, <1>8, <1>9 DEF Next, Take

\* A bucket that does not exist, whether at the start or after a restart.
LEMMA ConservedFresh ==
  ASSUME now \in Nat, ~made, tokens = Capacity, last = 0, born = 0, granted = 0,
         pc = [c \in Callers |-> "idle"], at = [c \in Callers |-> 0],
         elapsed = [c \in Callers |-> 0], saw = [c \in Callers |-> 0]
  PROVE  Conserved
<1>1. Allowance(0, 0) = Capacity
    BY AllowanceGrows
<1> QED
    BY <1>1, BucketConstants DEF Conserved, InCall

LEMMA ConservedRate == (~overlap => Conserved) => SequentialRateBound
<1> SUFFICES ASSUME Conserved PROVE RateBound
  BY DEF SequentialRateBound
<1>1. Allowance(born, last) \in Int /\ Allowance(born, last) <= Allowance(born, now)
  BY AllowanceGrows DEF Conserved
<1>2. granted * Unit \in Nat
  BY BucketConstants DEF Conserved
<1>3. Allowance(born, now) \in Int
  BY AllowanceGrows DEF Conserved
<1>4. granted * Unit <= Allowance(born, now)
  BY <1>1, <1>2, <1>3 DEF Conserved
<1> QED
  BY <1>4 DEF RateBound, Allowance

\* When the calls of Take on a bucket do not overlap, it grants at most the
\* capacity plus the refill since it was made, for any number of callers
\* (tokenbucket.go Take).
THEOREM SequentialRate == Spec => []SequentialRateBound
<1> DEFINE I == ~overlap => Conserved
<1>1. Init => I
  <2>1. Init => now \in Nat
    BY DEF Init
  <2> QED
    BY <2>1, ConservedFresh DEF Init
<1>2. I /\ [Next]_vars => I'
    BY ConservedStep
<1>3. I => SequentialRateBound
    BY ConservedRate
<1> HIDE DEF I
<1> QED
    BY <1>1, <1>2, <1>3, PTL DEF Spec

\* The same of the login limiter as the handlers drive it: a restart empties the
\* set of buckets, and no handler reaches into one (server.go handleLogin).
THEOREM LoginRate == SSpec => []SequentialRateBound
<1> DEFINE I == now \in Nat /\ (~overlap => Conserved)
<1>1. SInit => I
  <2>1. SInit => now \in Nat
    BY DEF SInit, Init
  <2> QED
    BY <2>1, ConservedFresh DEF SInit, Init
<1>2. I /\ [SNext]_<<vars, session>> => I'
  <2> SUFFICES ASSUME I, [SNext]_<<vars, session>> PROVE I'
    OBVIOUS
  <2>1. ASSUME [Next]_vars, now' \in Nat PROVE I'
    BY <2>1, ConservedStep
  <2>2. ASSUME NEW h \in Callers, Handler(h) PROVE I'
    <3>1. UNCHANGED vars
      BY <2>2 DEF Handler, bucket, vars
    <3> QED BY <2>1, <3>1 DEF vars
  <2>3. ASSUME NEW h \in Callers, Limit(h) PROVE I'
    <3>1. Take(h) /\ UNCHANGED now
      BY <2>3 DEF Limit, Take, ReadClock, Lookup, LoadLast, LoadTokens, StoreRefill, Check, Decrement
    <3> QED BY <2>1, <3>1 DEF Next
  <2>4. CASE Tick
    BY <2>1, <2>4 DEF Next, Tick
  <2>5. CASE Restart
    <3>1. Allowance(0, 0) = Capacity
      BY AllowanceGrows
    <3>2. Conserved'
      BY <2>5, <3>1, BucketConstants DEF Restart, Conserved, InCall, Allowance
    <3> QED BY <2>5, <3>2 DEF Restart
  <2>6. CASE UNCHANGED <<vars, session>>
    BY <2>1, <2>6 DEF vars
  <2> QED
    BY <2>2, <2>3, <2>4, <2>5, <2>6 DEF SNext
<1>3. I => SequentialRateBound
    BY ConservedRate
<1> HIDE DEF I
<1> QED
    BY <1>1, <1>2, <1>3, PTL DEF SSpec

-----------------------------------------------------------------------------
(* Registration                                                            *)

\* Handlers that answered 201 own the account.
Owned ==
  /\ created \subseteq Callers
  /\ store = "sqlite" => \A h \in created : account = h

\* Of two registrations that raced past the lookup the unique username lets one
\* through, and it is told so (service.go Register, stores.go userStore.Save).
THEOREM RegistrationOwned == SSpec => []RegistrationExclusive
<1>1. SInit => Owned
  BY DEF SInit, Owned
<1>2. Owned /\ [SNext]_<<vars, session>> => Owned'
  <2> SUFFICES ASSUME Owned, [SNext]_<<vars, session>> PROVE Owned'
    OBVIOUS
  <2>0. Nobody \notin Callers
    BY SessionConstants
  <2>1. ASSUME UNCHANGED <<store, account, created>> PROVE Owned'
    BY <2>1 DEF Owned
  <2>2. ASSUME NEW h \in Callers, Fails(h) PROVE Owned'
    BY <2>1, <2>2 DEF Fails
  <2>3. ASSUME NEW h \in Callers, Handler(h) PROVE Owned'
    <3>1. CASE RegisterSave(h)
      <4>1. CASE Save(h) /\ UNCHANGED store
        <5>1. CASE store = "sqlite" /\ account # Nobody
          BY <2>1, <4>1, <5>1 DEF Save
        <5>2. CASE store = "sqlite" /\ account = Nobody
          <6>1. created = {}
            BY <5>2, <2>0 DEF Owned
          <6> QED BY <4>1, <5>2, <6>1 DEF Save, Owned
        <5>3. CASE store # "sqlite"
          BY <4>1, <5>3 DEF Save, Owned
        <5> QED BY <5>1, <5>2, <5>3
      <4> QED BY <2>2, <3>1, <4>1 DEF RegisterSave
    <3>2. CASE RevokeSets(h)
      BY <2>1, <2>2, <3>2 DEF RevokeSets
    <3>3. CASE \/ RegisterCheck(h) \/ LoginChecks(h) \/ ManagementLogin(h) \/ Sign(h)
               \/ ReadDenylist(h) \/ RevokeReadsClock(h)
               \/ \E p \in DOMAIN pairs : ReadFloor(h, p) \/ Deny(h, p)
      BY <2>1, <3>3 DEF RegisterCheck, LoginChecks, ManagementLogin, Sign, ReadDenylist,
                        RevokeReadsClock, ReadFloor, Deny
    <3> QED BY <2>3, <3>1, <3>2, <3>3 DEF Handler
  <2>4. ASSUME NEW h \in Callers, Limit(h) PROVE Owned'
    BY <2>1, <2>4 DEF Limit
  <2>5. CASE Tick /\ UNCHANGED session
    BY <2>1, <2>5 DEF session
  <2>6. CASE Restart
    BY <2>6 DEF Restart, Owned
  <2>7. CASE UNCHANGED <<vars, session>>
    BY <2>1, <2>7 DEF session
  <2> QED BY <2>3, <2>4, <2>5, <2>6, <2>7 DEF SNext
<1>3. Owned => RegistrationExclusive
  BY DEF Owned, RegistrationExclusive
<1> QED BY <1>1, <1>2, <1>3, PTL DEF SSpec

-----------------------------------------------------------------------------
(* Revocation                                                              *)

Pair == [iat : Nat, parent : Int, astride : BOOLEAN]
PairLists == Seq(Pair)

\* A handler that refreshes holds the number of a pair, one that revokes a clock
\* reading, every other one nothing.
STypeOK ==
  /\ now \in Nat /\ floor \in Int
  /\ pairs \in PairLists
  /\ loc \in [Callers -> {"idle", "register", "limit", "sign", "denylist", "revoke"}]
  /\ arg \in [Callers -> Int]
  /\ \A h \in Callers : loc[h] \in {"idle", "register", "limit"} => arg[h] = NoPair
  /\ \A h \in Callers : loc[h] = "revoke" => arg[h] <= now
  /\ \A p \in DOMAIN pairs : pairs[p].iat <= now
  /\ floor <= now
  /\ crossed \subseteq Callers /\ killed \subseteq DOMAIN pairs

\* What signing a pair does to the list of pairs.
LEMMA PairAdded ==
  ASSUME NEW s \in PairLists, NEW e \in Pair
  PROVE  /\ Append(s, e) \in PairLists
         /\ DOMAIN Append(s, e) = DOMAIN s \cup {Len(s) + 1}
         /\ \A p \in DOMAIN s : Append(s, e)[p] = s[p] /\ p # NoPair /\ s[p] \in Pair
         /\ Append(s, e)[Len(s) + 1] = e
         /\ Len(s) + 1 \notin DOMAIN s
<1> USE DEF PairLists
<1>1. Append(s, e) \in Seq(Pair) /\ Len(Append(s, e)) = Len(s) + 1 /\ Append(s, e)[Len(s) + 1] = e
  BY AppendProperties
<1>2. DOMAIN s = 1..Len(s) /\ Len(s) \in Nat
  BY LenProperties
<1>3. DOMAIN Append(s, e) = 1..(Len(s) + 1)
  BY <1>1, LenProperties
<1>4. 1..(Len(s) + 1) = (1..Len(s)) \cup {Len(s) + 1}
  BY <1>2
<1>5. \A p \in 1..Len(s) : Append(s, e)[p] = s[p]
  BY AppendProperties
<1>6. \A p \in 1..Len(s) : p # NoPair /\ s[p] \in Pair
  BY <1>2 DEF NoPair
<1> QED BY <1>1, <1>2, <1>3, <1>4, <1>5, <1>6

\* Every killed pair is at or below the floor, which only rises: there is one
\* revoker at a time and the clock it read is not behind the floor.
KilledBelow == \A p \in killed : pairs[p].iat <= floor
OneRevoker == \A h, g \in Callers : loc[h] = "revoke" /\ loc[g] = "revoke" => h = g
RevokerAhead == \A h \in Callers : loc[h] = "revoke" => floor <= arg[h]

\* A refresh under way of a pair that is killed, or that may be, is crossed.
KilledCrossed == \A h \in Callers : loc[h] \in {"denylist", "sign"} /\ arg[h] \in killed => h \in crossed
OverlapCrossed == \A h, g \in Callers :
  loc[g] = "revoke" /\ loc[h] \in {"denylist", "sign"} /\ arg[h] # NoPair => h \in crossed

\* A pair rotated from another is marked or covered by the revocation under way,
\* and by the floor once its parent is killed.
HeirsCovered == \A h \in Callers, p \in DOMAIN pairs :
  loc[h] = "revoke" /\ pairs[p].parent # NoPair => pairs[p].astride \/ pairs[p].iat <= arg[h]
HeirsMarked == \A p \in DOMAIN pairs : pairs[p].parent \in killed => pairs[p].astride \/ pairs[p].iat <= floor

FloorKeeps ==
  /\ KilledBelow /\ OneRevoker /\ RevokerAhead
  /\ KilledCrossed /\ OverlapCrossed /\ HeirsCovered /\ HeirsMarked

RevocationInv == store = "sqlite" /\ ~raced => FloorKeeps

LEMMA PairFacts ==
  ASSUME STypeOK
  PROVE  NoPair \notin killed /\ \A p \in DOMAIN pairs : p # NoPair /\ pairs[p] \in Pair /\ pairs[p].iat \in Nat
<1>1. \A p \in DOMAIN pairs : p # NoPair /\ pairs[p] \in Pair
  BY DEF STypeOK, PairLists, NoPair
<1> QED BY <1>1 DEF STypeOK, Pair

LEMMA SessionTypeStep == STypeOK /\ [SNext]_<<vars, session>> => STypeOK'
<1> SUFFICES ASSUME STypeOK, [SNext]_<<vars, session>> PROVE STypeOK'
  OBVIOUS
<1> USE DEF STypeOK, Step, NoPair, NoFloor
<1>1. ASSUME NEW h \in Callers, Quits(h), UNCHANGED <<now, floor, pairs, killed>> PROVE STypeOK'
  BY <1>1 DEF Quits
<1>2. ASSUME NEW h \in Callers, Fails(h), UNCHANGED now PROVE STypeOK'
  BY <1>1, <1>2 DEF Fails
<1>3. ASSUME NEW h \in Callers, NEW l \in {"idle", "register", "limit", "sign"}, Step(h, l),
             UNCHANGED <<now, floor, arg, pairs, crossed, killed>>,
             l # "sign" => arg[h] = NoPair
      PROVE  STypeOK'
  BY <1>3
<1>4. ASSUME NEW h \in Callers, Handler(h) PROVE STypeOK'
  <2>0. UNCHANGED now
    BY <1>4 DEF Handler
  <2>1. CASE RegisterCheck(h)
    BY <2>0, <2>1, <1>3 DEF RegisterCheck, Begins
  <2>2. CASE RegisterSave(h)
    BY <2>0, <2>2, <1>2, <1>3 DEF RegisterSave
  <2>3. CASE LoginChecks(h) \/ ManagementLogin(h)
    BY <2>0, <2>3, <1>3 DEF LoginChecks, ManagementLogin, Login, Begins
  <2>4. CASE Sign(h)
    <3> DEFINE e == [iat |-> now, parent |-> arg[h], astride |-> h \in crossed]
    <3>1. e \in Pair /\ e.iat = now
      BY DEF Pair
    <3>2. pairs' = Append(pairs, e)
      BY <2>4 DEF Sign
    <3> HIDE DEF e
    <3>3. /\ pairs' \in PairLists /\ DOMAIN pairs' = DOMAIN pairs \cup {Len(pairs) + 1}
          /\ \A p \in DOMAIN pairs : pairs'[p] = pairs[p]
          /\ pairs'[Len(pairs) + 1] = e
      BY <3>1, <3>2, PairAdded
    <3>4. \A p \in DOMAIN pairs' : pairs'[p].iat <= now
      BY <3>1, <3>3
    <3>5. killed' \subseteq DOMAIN pairs'
      BY <2>4, <3>3 DEF Sign
    <3> QED BY <2>0, <2>4, <3>3, <3>4, <3>5 DEF Sign, Quits
  <2>5. CASE ReadDenylist(h)
    <3>1. CASE Step(h, "sign") /\ UNCHANGED <<arg, crossed>>
      BY <2>0, <2>5, <3>1, <1>3 DEF ReadDenylist
    <3>2. CASE Quits(h)
      BY <2>0, <2>5, <3>2, <1>1 DEF ReadDenylist
    <3> QED BY <2>5, <3>1, <3>2 DEF ReadDenylist
  <2>6. CASE RevokeReadsClock(h)
    BY <2>0, <2>6 DEF RevokeReadsClock, Reading
  <2>7. CASE RevokeSets(h)
    <3>1. CASE Fails(h)
      BY <2>0, <3>1, <1>2
    <3>2. CASE floor' = arg[h] /\ killed' = killed \cup {p \in DOMAIN pairs : pairs[p].iat <= arg[h]}
               /\ Quits(h) /\ UNCHANGED pairs
      BY <2>0, <2>7, <3>2 DEF RevokeSets, Quits
    <3> QED BY <2>7, <3>1, <3>2 DEF RevokeSets
  <2>8. ASSUME NEW p \in DOMAIN pairs, ReadFloor(h, p) PROVE STypeOK'
    <3>1. p \in Int
      BY DEF PairLists
    <3> QED BY <2>0, <2>8, <3>1 DEF ReadFloor
  <2>9. ASSUME NEW p \in DOMAIN pairs, Deny(h, p) PROVE STypeOK'
    BY <2>0, <2>9 DEF Deny
  <2> QED BY <1>4, <2>1, <2>2, <2>3, <2>4, <2>5, <2>6, <2>7, <2>8, <2>9 DEF Handler
<1>5. ASSUME NEW h \in Callers, Limit(h) PROVE STypeOK'
  <2>1. UNCHANGED now
    BY <1>5 DEF Limit, Take, ReadClock, Lookup, LoadLast, LoadTokens, StoreRefill, Check, Decrement
  <2>2. (IF pc'[h] = "idle" THEN "idle" ELSE "limit") \in {"idle", "limit"}
    OBVIOUS
  <2> QED BY <1>3, <1>5, <2>1, <2>2 DEF Limit
<1>6. CASE Tick /\ UNCHANGED session
  BY <1>6, PairFacts DEF Tick, session
<1>7. CASE Restart
  BY <1>7 DEF Restart
<1>8. CASE UNCHANGED <<vars, session>>
  BY <1>8 DEF vars, session
<1> QED BY <1>4, <1>5, <1>6, <1>7, <1>8 DEF SNext

\* A step of one handler that neither starts a refresh or a revocation nor
\* changes the floor or the pairs.
LEMMA FloorCalm ==
  ASSUME STypeOK, FloorKeeps, NEW h \in Callers, UNCHANGED <<floor, pairs, killed>>,
         loc'[h] \notin {"denylist", "revoke"}, loc'[h] = "sign" => arg'[h] = NoPair,
         \A g \in Callers : g # h => loc'[g] = loc[g] /\ arg'[g] = arg[g] /\ (g \in crossed => g \in crossed')
  PROVE  FloorKeeps'
<1>1. NoPair \notin killed
  BY PairFacts
<1>2. KilledBelow' /\ HeirsMarked'
  BY DEF FloorKeeps, KilledBelow, HeirsMarked
<1>3. OneRevoker' /\ RevokerAhead'
  BY DEF FloorKeeps, OneRevoker, RevokerAhead
<1>4. KilledCrossed' /\ OverlapCrossed'
  BY <1>1 DEF FloorKeeps, KilledCrossed, OverlapCrossed
<1>5. HeirsCovered'
  BY DEF FloorKeeps, HeirsCovered
<1> QED BY <1>2, <1>3, <1>4, <1>5 DEF FloorKeeps

LEMMA RevocationStep == STypeOK /\ RevocationInv /\ [SNext]_<<vars, session>> => RevocationInv'
<1> SUFFICES ASSUME STypeOK, RevocationInv, [SNext]_<<vars, session>>, store' = "sqlite", ~raced'
             PROVE  FloorKeeps'
  BY DEF RevocationInv
<1> USE DEF Step
<1>1. ASSUME UNCHANGED <<store, raced>> PROVE FloorKeeps
  BY <1>1 DEF RevocationInv
<1>2. ASSUME NEW h \in Callers, Quits(h), UNCHANGED <<store, floor, pairs, killed, raced>> PROVE FloorKeeps'
  <2>1. FloorKeeps
    BY <1>1, <1>2
  <2>2. /\ loc'[h] = "idle"
        /\ \A g \in Callers : g # h => loc'[g] = loc[g] /\ arg'[g] = arg[g] /\ (g \in crossed => g \in crossed')
    BY <1>2 DEF Quits, STypeOK
  <2> QED BY <1>2, <2>1, <2>2, FloorCalm
<1>3. ASSUME NEW h \in Callers, NEW l \in {"idle", "register", "limit", "sign"}, Step(h, l),
             l = "sign" => arg[h] = NoPair,
             UNCHANGED <<store, floor, arg, pairs, crossed, killed, raced>>
      PROVE  FloorKeeps'
  <2>1. FloorKeeps
    BY <1>1, <1>3
  <2>2. /\ loc'[h] = l
        /\ \A g \in Callers : g # h => loc'[g] = loc[g] /\ arg'[g] = arg[g] /\ (g \in crossed => g \in crossed')
    BY <1>3 DEF STypeOK
  <2> QED BY <1>3, <2>1, <2>2, FloorCalm
<1>4. ASSUME NEW h \in Callers, Fails(h) PROVE FloorKeeps'
  BY <1>2, <1>4 DEF Fails
<1>5. ASSUME NEW h \in Callers, loc[h] = "idle" PROVE arg[h] = NoPair
  BY <1>5 DEF STypeOK
<1>6. ASSUME NEW h \in Callers, Handler(h) PROVE FloorKeeps'
  <2>1. CASE RegisterCheck(h)
    BY <2>1, <1>3 DEF RegisterCheck
  <2>2. CASE RegisterSave(h)
    BY <2>2, <1>3, <1>4 DEF RegisterSave
  <2>3. CASE LoginChecks(h) \/ ManagementLogin(h)
    BY <2>3, <1>3, <1>5 DEF LoginChecks, ManagementLogin, Login, Begins
  <2>4. CASE Sign(h)
    <3> DEFINE e == [iat |-> now, parent |-> arg[h], astride |-> h \in crossed]
               n == Len(pairs) + 1
    <3>a. e \in Pair /\ e.iat = now /\ e.parent = arg[h]
      BY DEF Pair, STypeOK
    <3>b. e.astride = (h \in crossed)
      OBVIOUS
    <3>1. e \in Pair /\ e.iat = now /\ e.parent = arg[h] /\ (h \in crossed => e.astride)
      BY <3>a, <3>b
    <3>2. pairs' = Append(pairs, e) /\ UNCHANGED <<floor, killed, raced, store>>
      BY <2>4 DEF Sign
    <3>3. FloorKeeps
      BY <1>1, <3>2
    <3> HIDE DEF e
    <3>4. /\ DOMAIN pairs' = DOMAIN pairs \cup {n} /\ n \notin DOMAIN pairs
          /\ \A p \in DOMAIN pairs : pairs'[p] = pairs[p]
          /\ pairs'[n] = e
      BY <3>1, <3>2, PairAdded DEF STypeOK
    <3> HIDE DEF n
    <3>5. /\ loc'[h] = "idle" /\ loc[h] = "sign"
          /\ \A g \in Callers : g # h => loc'[g] = loc[g] /\ arg'[g] = arg[g] /\ (g \in crossed => g \in crossed')
      BY <2>4 DEF Sign, Quits, STypeOK
    <3>6. killed \subseteq DOMAIN pairs
      BY DEF STypeOK
    <3>7. KilledBelow' /\ OneRevoker' /\ RevokerAhead'
      BY <3>2, <3>3, <3>4, <3>5, <3>6 DEF FloorKeeps, KilledBelow, OneRevoker, RevokerAhead
    <3>8. KilledCrossed' /\ OverlapCrossed'
      BY <3>2, <3>3, <3>5 DEF FloorKeeps, KilledCrossed, OverlapCrossed
    <3>9. HeirsCovered'
      <4> SUFFICES ASSUME NEW g \in Callers, NEW p \in DOMAIN pairs', loc'[g] = "revoke", pairs'[p].parent # NoPair
                   PROVE  pairs'[p].astride \/ pairs'[p].iat <= arg'[g]
        BY DEF HeirsCovered
      <4>1. g # h /\ loc[g] = "revoke" /\ arg'[g] = arg[g]
        BY <3>5
      <4>2. CASE p \in DOMAIN pairs
        BY <4>1, <4>2, <3>3, <3>4 DEF FloorKeeps, HeirsCovered
      <4>3. CASE p = n
        BY <4>1, <4>3, <3>1, <3>3, <3>4, <3>5 DEF FloorKeeps, OverlapCrossed
      <4> QED BY <4>2, <4>3, <3>4
    <3>10. HeirsMarked'
      <4> SUFFICES ASSUME NEW p \in DOMAIN pairs', pairs'[p].parent \in killed
                   PROVE  pairs'[p].astride \/ pairs'[p].iat <= floor
        BY <3>2 DEF HeirsMarked
      <4>1. CASE p \in DOMAIN pairs
        BY <4>1, <3>3, <3>4 DEF FloorKeeps, HeirsMarked
      <4>2. CASE p = n
        BY <4>2, <3>1, <3>3, <3>4, <3>5 DEF FloorKeeps, KilledCrossed
      <4> QED BY <4>1, <4>2, <3>4
    <3> QED BY <3>7, <3>8, <3>9, <3>10 DEF FloorKeeps
  <2>5. CASE ReadDenylist(h)
    <3>1. CASE Step(h, "sign") /\ UNCHANGED <<arg, crossed>>
      <4>1. /\ loc[h] = "denylist" /\ loc'[h] = "sign" /\ \A g \in Callers : g # h => loc'[g] = loc[g]
            /\ UNCHANGED <<store, floor, pairs, killed, raced, arg, crossed>>
        BY <2>5, <3>1 DEF ReadDenylist, STypeOK
      <4>2. FloorKeeps
        BY <1>1, <4>1
      <4>3. KilledBelow' /\ OneRevoker' /\ RevokerAhead'
        BY <4>1, <4>2 DEF FloorKeeps, KilledBelow, OneRevoker, RevokerAhead
      <4>4. KilledCrossed' /\ OverlapCrossed'
        BY <4>1, <4>2 DEF FloorKeeps, KilledCrossed, OverlapCrossed
      <4>5. HeirsCovered' /\ HeirsMarked'
        BY <4>1, <4>2 DEF FloorKeeps, HeirsCovered, HeirsMarked
      <4> QED BY <4>3, <4>4, <4>5 DEF FloorKeeps
    <3>2. CASE Quits(h)
      BY <2>5, <3>2, <1>2 DEF ReadDenylist
    <3> QED BY <2>5, <3>1, <3>2 DEF ReadDenylist
  <2>6. CASE RevokeReadsClock(h)
    <3>1. /\ loc[h] = "idle" /\ loc'[h] = "revoke" /\ arg'[h] = now
          /\ \A g \in Callers : g # h => loc'[g] = loc[g] /\ arg'[g] = arg[g]
          /\ crossed' = crossed \cup Reading
          /\ UNCHANGED <<store, floor, pairs, killed>>
      BY <2>6 DEF RevokeReadsClock, Begins, STypeOK
    <3>2. ~raced /\ Revoking = {}
      BY <2>6 DEF RevokeReadsClock
    <3>3. FloorKeeps
      BY <3>1, <3>2 DEF RevocationInv
    <3>4. \A g \in Callers : loc'[g] = "revoke" => g = h
      BY <3>1, <3>2 DEF Revoking
    <3>5. KilledBelow' /\ OneRevoker' /\ RevokerAhead'
      BY <3>1, <3>3, <3>4 DEF FloorKeeps, KilledBelow, OneRevoker, RevokerAhead, STypeOK
    <3>6. KilledCrossed' /\ OverlapCrossed'
      BY <3>1, <3>3, <3>4 DEF FloorKeeps, KilledCrossed, OverlapCrossed, Reading
    <3>7. HeirsCovered' /\ HeirsMarked'
      BY <3>1, <3>3, <3>4 DEF FloorKeeps, HeirsCovered, HeirsMarked, STypeOK
    <3> QED BY <3>5, <3>6, <3>7 DEF FloorKeeps
  <2>7. CASE RevokeSets(h)
    <3>1. CASE Fails(h)
      BY <3>1, <1>4
    <3>2. CASE /\ floor' = arg[h] /\ Quits(h)
               /\ killed' = killed \cup {p \in DOMAIN pairs : pairs[p].iat <= arg[h]}
               /\ UNCHANGED <<store, pairs, raced>>
      <4>0. FloorKeeps
        BY <1>1, <3>2
      <4>1. /\ loc[h] = "revoke" /\ loc'[h] = "idle"
            /\ \A g \in Callers : g # h => loc'[g] = loc[g] /\ arg'[g] = arg[g] /\ (g \in crossed => g \in crossed')
        BY <2>7, <3>2 DEF RevokeSets, Quits, STypeOK
      <4>2. floor <= arg[h] /\ floor \in Int /\ arg[h] \in Int
        BY <4>0, <4>1 DEF FloorKeeps, RevokerAhead, STypeOK
      <4>3. \A p \in killed' : p \in DOMAIN pairs /\ p # NoPair /\ pairs[p].iat <= floor'
        BY <4>0, <4>2, <3>2, PairFacts DEF FloorKeeps, KilledBelow, STypeOK
      <4>4. KilledBelow'
        BY <4>3, <3>2 DEF KilledBelow
      <4>5. OneRevoker' /\ RevokerAhead' /\ HeirsCovered' /\ OverlapCrossed'
        BY <4>0, <4>1 DEF FloorKeeps, OneRevoker, RevokerAhead, HeirsCovered, OverlapCrossed
      <4>6. KilledCrossed'
        BY <4>0, <4>1, <4>3 DEF FloorKeeps, KilledCrossed, OverlapCrossed
      <4>7. HeirsMarked'
        BY <4>0, <4>1, <4>3, <3>2 DEF FloorKeeps, HeirsMarked, HeirsCovered
      <4> QED BY <4>4, <4>5, <4>6, <4>7 DEF FloorKeeps
    <3> QED BY <2>7, <3>1, <3>2 DEF RevokeSets
  <2>8. ASSUME NEW p \in DOMAIN pairs, ReadFloor(h, p) PROVE FloorKeeps'
    <3>1. /\ loc[h] = "idle" /\ loc'[h] = "denylist" /\ arg'[h] = p
          /\ \A g \in Callers : g # h => loc'[g] = loc[g] /\ arg'[g] = arg[g]
          /\ UNCHANGED <<store, floor, pairs, killed, raced>>
      BY <2>8 DEF ReadFloor, Begins, STypeOK
    <3>2. crossed \subseteq crossed' /\ (Revoking # {} => h \in crossed')
      BY <2>8 DEF ReadFloor
    <3>3. FloorKeeps
      BY <1>1, <3>1
    <3>4. p \notin killed
      <4>1. Honored(p)
        BY <2>8 DEF ReadFloor
      <4>2. pairs[p].iat \in Nat /\ floor \in Int
        BY PairFacts DEF STypeOK
      <4> QED BY <4>1, <4>2, <3>3 DEF Honored, NoFloor, FloorKeeps, KilledBelow
    <3>5. KilledBelow' /\ OneRevoker' /\ RevokerAhead'
      BY <3>1, <3>3 DEF FloorKeeps, KilledBelow, OneRevoker, RevokerAhead
    <3>6. KilledCrossed' /\ OverlapCrossed'
      BY <3>1, <3>2, <3>3, <3>4 DEF FloorKeeps, KilledCrossed, OverlapCrossed, Revoking
    <3>7. HeirsCovered' /\ HeirsMarked'
      BY <3>1, <3>3 DEF FloorKeeps, HeirsCovered, HeirsMarked
    <3> QED BY <3>5, <3>6, <3>7 DEF FloorKeeps
  <2>9. ASSUME NEW p \in DOMAIN pairs, Deny(h, p) PROVE FloorKeeps'
    <3>1. UNCHANGED <<store, floor, loc, arg, pairs, killed, crossed, raced>> /\ loc[h] = "idle"
      BY <2>9 DEF Deny, Begins
    <3>2. FloorKeeps
      BY <1>1, <3>1
    <3> QED BY <3>1, <3>2, FloorCalm
  <2> QED BY <1>6, <2>1, <2>2, <2>3, <2>4, <2>5, <2>6, <2>7, <2>8, <2>9 DEF Handler
<1>7. ASSUME NEW h \in Callers, Limit(h) PROVE FloorKeeps'
  <2>1. (IF pc'[h] = "idle" THEN "idle" ELSE "limit") \in {"idle", "limit"}
    OBVIOUS
  <2> QED BY <1>3, <1>7, <2>1 DEF Limit
<1>8. ASSUME UNCHANGED session PROVE FloorKeeps'
  <2>1. FloorKeeps
    BY <1>1, <1>8 DEF session
  <2> QED BY <1>8, <2>1 DEF session, FloorKeeps, KilledBelow, OneRevoker, RevokerAhead, KilledCrossed,
             OverlapCrossed, HeirsCovered, HeirsMarked
<1>9. CASE Restart
  <2>1. /\ UNCHANGED <<store, pairs, killed, raced>> /\ floor' = floor
        /\ \A h \in Callers : loc'[h] = "idle"
    BY <1>9 DEF Restart
  <2>2. FloorKeeps
    BY <1>1, <2>1
  <2>3. KilledBelow' /\ HeirsMarked'
    BY <2>1, <2>2 DEF FloorKeeps, KilledBelow, HeirsMarked
  <2>4. OneRevoker' /\ RevokerAhead' /\ KilledCrossed' /\ OverlapCrossed' /\ HeirsCovered'
    BY <2>1 DEF OneRevoker, RevokerAhead, KilledCrossed, OverlapCrossed, HeirsCovered
  <2> QED BY <2>3, <2>4 DEF FloorKeeps
<1> QED BY <1>6, <1>7, <1>8, <1>9 DEF SNext

\* Logging out everywhere holds for any number of handlers and any interleaving
\* of refreshes with one revocation at a time: what the revocation covers is
\* dead, and what was rotated from it is too, unless its refresh overlapped the
\* revocation (service.go Refresh, RevokeRefresh).
THEOREM LogoutEverywhere == SSpec => []LoggedOut
<1>1. SInit => STypeOK /\ RevocationInv
  <2> SUFFICES ASSUME SInit PROVE STypeOK /\ RevocationInv
    OBVIOUS
  <2>1. pairs \in PairLists /\ DOMAIN pairs = {}
    BY DEF SInit, PairLists
  <2>2. STypeOK
    BY <2>1 DEF SInit, Init, STypeOK, NoFloor, NoPair
  <2>3. FloorKeeps
    BY <2>1 DEF SInit, FloorKeeps, KilledBelow, OneRevoker, RevokerAhead, KilledCrossed,
           OverlapCrossed, HeirsCovered, HeirsMarked
  <2> QED BY <2>2, <2>3 DEF RevocationInv
<1>2. STypeOK /\ RevocationInv => LoggedOut
  <2> SUFFICES ASSUME STypeOK, FloorKeeps, NEW p \in DOMAIN pairs, Usable(p)
               PROVE  /\ p \notin killed
                      /\ pairs[p].parent \in killed => pairs[p].astride
    BY DEF LoggedOut, RevocationInv
  <2>1. pairs[p].iat \in Nat /\ floor \in Int
    BY PairFacts DEF STypeOK
  <2>2. ~(pairs[p].iat <= floor)
    BY <2>1 DEF Usable, Honored, NoFloor
  <2> QED BY <2>2 DEF FloorKeeps, KilledBelow, HeirsMarked
<1> QED BY <1>1, <1>2, SessionTypeStep, RevocationStep, PTL DEF SSpec

-----------------------------------------------------------------------------
(* The plugin runtime                                                      *)

Rows == [known : BOOLEAN, enabled : BOOLEAN]
States == {"unknown", "loaded", "registered", "enabled", "disabled"}
BootSteps == {"idle", "load", "persist", "register", "enable"}
OperatorSteps == {"idle", "enable", "disable", "unload"}
WatcherSteps == {"idle", "discover", "sync", "upsert", "restore", "teardown"}
Described(d) == d = NoDesc \/ (d.state \in States \ {"unknown"} /\ d.def \in Defs)

\* The values of the manager's memory, the rows and the callers' locals.
PTypeOK ==
  /\ row \in Rows /\ prev \in Rows
  /\ opRow \in [Ops -> {"absent", "on", "off"}]
  /\ up \in BOOLEAN /\ timer \in BOOLEAN
  /\ reg \in [Ops -> SUBSET Ops]
  /\ desc \in [state : States, def : SUBSET Ops] /\ Described(desc)
  /\ old \in [state : States, def : SUBSET Ops]
  /\ new \in SUBSET Ops
  /\ step \in [Drivers -> BootSteps \union OperatorSteps \union WatcherSteps]
  /\ step["boot"] \in BootSteps /\ step["operator"] \in OperatorSteps
  /\ step["watcher"] \in WatcherSteps
  /\ todo \in [Drivers -> SUBSET Ops]
  /\ source \in Defs
  /\ seen \in Defs \union {Nothing}

\* Whose turn it is: nothing is left of a stopped process, a boot is alone, and
\* a lifecycle call and a reload overlap only where that is on record.
Turns ==
  /\ ~ up => /\ \A c \in Drivers : Free(c)
             /\ desc = NoDesc /\ \A o \in Ops : reg[o] = NoDef
  /\ (~ up \/ Booting) => /\ Free("operator") /\ Free("watcher")
                          /\ seen = Nothing /\ ~ timer
  /\ At("boot", "load") => desc = NoDesc
  /\ (At("boot", "load") \/ At("boot", "persist")) => \A o \in Ops : reg[o] = NoDef
  /\ (At("boot", "persist") \/ At("boot", "register")) => desc.state = "loaded"
  /\ At("boot", "enable") => desc.state = "registered"
  /\ "raced" \notin events => Free("operator") \/ Free("watcher")

\* What a reload holds: the descriptor it started from, never an absent one.
Reloading ==
  /\ ~ Free("watcher") => old # NoDesc /\ Described(old)
  /\ step["watcher"] \in {"sync", "upsert", "restore", "teardown"} => new \in Defs
  /\ "raced" \notin events =>
       /\ step["watcher"] \in {"discover", "sync", "restore"} => desc = old
       /\ step["watcher"] \in {"upsert", "teardown"} =>
            desc = [state |-> old.state, def |-> new]

Active(S) == \A o \in S : opRow[o] = "on"
Serves(S, d) == \A o \in S : reg[o] = d
Clean == "fault" \notin events

\* Where every caller is, what its loop has done and what the loop still owes.
Served ==
  "raced" \notin events =>
    /\ (Free("watcher") /\ ~ At("operator", "unload")) =>
         /\ (Registered \/ At("boot", "register")) => Serves(desc.def, desc.def)
         /\ Clean => Serves(Ops \ desc.def, NoDef)
    /\ (Free("watcher") /\ ~ At("operator", "disable") /\ desc.state = "enabled") =>
         Active(desc.def)
    /\ At("boot", "register") => Active(desc.def \ todo["boot"])
    /\ At("boot", "enable") => Active(desc.def) /\ todo["boot"] \subseteq desc.def
    /\ At("operator", "enable") => /\ desc.state \in {"registered", "disabled"}
                                  /\ Active(desc.def \ todo["operator"])
    /\ At("operator", "disable") => desc.state = "enabled"
    /\ At("operator", "unload") => desc = NoDesc /\ (Clean => Serves(Ops \ todo["operator"], NoDef))
ServedReload ==
  "raced" \notin events =>
    /\ At("watcher", "discover") =>
         /\ Registered => Serves(desc.def, desc.def)
         /\ Clean => Serves(Ops \ desc.def, NoDef)
    /\ step["watcher"] \in {"discover", "sync", "upsert", "restore"} /\ old.state = "enabled" =>
         Active(old.def)
    /\ At("watcher", "sync") =>
         /\ todo["watcher"] \subseteq new
         /\ Serves(new \ todo["watcher"], new) /\ Active(new \ todo["watcher"])
         /\ Registered => Serves(old.def \ (new \ todo["watcher"]), old.def)
         /\ Clean => Serves(Ops \ (old.def \union new), NoDef)
    /\ At("watcher", "upsert") =>
         /\ Serves(new, new) /\ Active(new)
         /\ Clean => Serves(Ops \ (old.def \union new), NoDef)
    /\ At("watcher", "restore") =>
         /\ ~ Clean /\ todo["watcher"] # {} /\ todo["watcher"] \subseteq old.def
         /\ Serves(old.def \ todo["watcher"], old.def)
    /\ At("watcher", "teardown") =>
         /\ todo["watcher"] \intersect new = {}
         /\ Serves(new, new) /\ Active(new)
         /\ Clean => Serves(Ops \ (new \union todo["watcher"]), NoDef)

\* The row a restart would read agrees with the last lifecycle call; while a
\* boot has overwritten it, what the boot read does.
Agrees(r) == (wish = "enabled" => r.known /\ r.enabled) /\ (wish = "disabled" => r.known /\ ~ r.enabled)
Restoring ==
  events \intersect {"raced", "fault", "cut"} = {} =>
    /\ Booting => Agrees(prev)
    /\ (Free("boot") \/ At("boot", "load")) => Agrees(row)
    /\ (At("boot", "register") \/ At("boot", "enable")) => row = [known |-> TRUE, enabled |-> FALSE]
    /\ At("boot", "enable") => wish # "disabled"
    /\ Free("boot") => desc = NoDesc \/ Registered
    /\ Free("boot") /\ Registered =>
         /\ row.known
         /\ wish = "enabled" => desc.state = "enabled"
         /\ wish = "disabled" => desc.state \in {"registered", "disabled"}

\* Why a watcher that has seen the current source will load it, or has.
Watching ==
  events \intersect {"swallowed", "unseeded", "reverted", "fault", "raced"} = {} =>
    /\ desc # NoDesc /\ seen = Nothing => desc.def = source /\ ~ timer /\ Free("watcher")
    /\ desc # NoDesc /\ seen = source =>
         \/ timer \/ At("watcher", "discover")
         \/ At("watcher", "sync") /\ new = source
         \/ step["watcher"] \in {"idle", "upsert", "teardown"} /\ desc.def = source

PInv == PTypeOK /\ Turns /\ Reloading /\ Served /\ ServedReload

-----------------------------------------------------------------------------
(* Preservation, one step per action.                                      *)

LEMMA RowValues ==
  /\ NoRow \in Rows
  /\ [known |-> TRUE, enabled |-> FALSE] \in Rows
  /\ \A r \in Rows : [known |-> r.known, enabled |-> FALSE] \in Rows
BY DEF NoRow, Rows

LEMMA TypeStep ==
  ASSUME PTypeOK, Turns, Reloading, PNext
  PROVE  PTypeOK'
<1> USE PluginConstants DEF At, Free, Goes, Loops, Returns, Booting, Drivers, stored, locals, NoRow, NoDesc, NoDef, Nothing, Rows, States, BootSteps, OperatorSteps, WatcherSteps, Described, PTypeOK, Turns, Reloading
<1>1. CASE BootRead
  BY <1>1 DEF BootRead
<1>2. CASE BootLoad
  BY <1>2 DEF BootLoad
<1>3. CASE BootRefused
  <2> HIDE DEF Rows, NoRow
  <2>1. row' \in Rows /\ prev' \in Rows
    BY <1>3, RowValues DEF BootRefused
  <2> QED
    BY <1>3, <2>1 DEF BootRefused
<1>4. CASE BootPersist
  BY <1>4 DEF BootPersist
<1>5. CASE BootSync
  BY <1>5 DEF BootSync, Handled
<1>6. CASE BootRegistered
  <2>1. CASE ShouldEnable(prev)
    BY <1>6, <2>1 DEF BootRegistered, SetState
  <2>2. CASE ~ ShouldEnable(prev)
    <3> HIDE DEF Rows, NoRow
    <3> QED
      BY <1>6, <2>2, RowValues DEF BootRegistered, SetState
  <2> QED
    BY <2>1, <2>2
<1>7. CASE Enable
  BY <1>7 DEF Enable, Calls, CanTransition, ValidTransitions
<1>8. CASE Disable
  BY <1>8 DEF Disable, Calls, CanTransition, ValidTransitions
<1>9. CASE Unload
  BY <1>9 DEF Unload, Calls, CanTransition, ValidTransitions
<1>10. ASSUME NEW c \in {"boot", "operator"}, EnableOp(c) PROVE PTypeOK'
  <2>1. PICK o \in todo[c] : IF opRow[o] = "absent" THEN Returns(c) /\ UNCHANGED opRow
                             ELSE opRow' = [opRow EXCEPT ![o] = "on"] /\ Handled(c, o)
    BY <1>10 DEF EnableOp
  <2>2. CASE opRow[o] = "absent"
    <3> HIDE DEF Rows, NoRow
    <3> QED
      BY <1>10, <2>1, <2>2, RowValues DEF EnableOp
  <2>3. CASE opRow[o] # "absent"
    BY <1>10, <2>1, <2>3 DEF EnableOp, Handled
  <2> QED
    BY <2>2, <2>3
<1>11. ASSUME NEW c \in {"boot", "operator"}, EnableDone(c) PROVE PTypeOK'
  BY <1>11 DEF EnableDone, SetState
<1>12. ASSUME NEW c \in {"boot", "operator"}, CallFails(c) PROVE PTypeOK'
  BY <1>12 DEF CallFails, Fault
<1>13. CASE DisableOp
  BY <1>13 DEF DisableOp, SwitchOff, Swallowed, Fault, Handled
<1>14. CASE DisableDone
  <2> HIDE DEF Rows, NoRow
  <2>1. row' \in Rows
    BY <1>14, RowValues DEF DisableDone
  <2> QED
    BY <1>14, <2>1 DEF DisableDone, SetState, Swallowed, Fault
<1>15. CASE UnloadOp
  BY <1>15 DEF UnloadOp, SwitchOff, Swallowed, Fault, Handled
<1>16. CASE UnloadDone
  BY <1>16 DEF UnloadDone
<1>17. CASE Change
  BY <1>17 DEF Change, locals
<1>18. CASE Poll
  BY <1>18 DEF Poll, Trigger
<1>19. CASE Fire
  <2>1. CASE desc # NoDesc /\ Free("watcher")
    <3>1. old' = desc /\ step' = [step EXCEPT !["watcher"] = "discover"] /\ timer' = FALSE
      BY <1>19, <2>1 DEF Fire
    <3> HIDE DEF NoDesc, Rows, NoRow
    <3> QED
      BY <1>19, <3>1 DEF Fire
  <2>2. CASE ~ (desc # NoDesc /\ Free("watcher"))
    BY <1>19, <2>2 DEF Fire
  <2> QED
    BY <2>1, <2>2
<1>20. CASE ReloadDiscover
  BY <1>20 DEF ReloadDiscover
<1>21. CASE ReloadRefused
  BY <1>21 DEF ReloadRefused, Fault
<1>22. CASE ReloadSync
  BY <1>22 DEF ReloadSync, Handled
<1>23. CASE ReloadSyncFails
  BY <1>23 DEF ReloadSyncFails, Fault, Restore
<1>24. CASE ReloadSwap
  BY <1>24 DEF ReloadSwap
<1>25. CASE ReloadUpsert
  BY <1>25 DEF ReloadUpsert, Removed
<1>26. CASE ReloadUpsertFails
  BY <1>26 DEF ReloadUpsertFails, Fault, Restore
<1>27. CASE ReloadRestore
  BY <1>27 DEF ReloadRestore, Handled
<1>28. CASE ReloadTeardown
  BY <1>28 DEF ReloadTeardown, Handled
<1>29. CASE ReloadDone
  BY <1>29 DEF ReloadDone
<1>30. CASE Crash
  BY <1>30 DEF Crash
<1> HIDE DEF At, Free, Goes, Loops, Returns, Booting, Drivers, stored, locals, NoRow, NoDesc, NoDef, Nothing, Rows, States, BootSteps, OperatorSteps, WatcherSteps, Described, PTypeOK, Turns, Reloading
<1> QED
  BY <1>1, <1>2, <1>3, <1>4, <1>5, <1>6, <1>7, <1>8, <1>9, <1>10, <1>11, <1>12, <1>13, <1>14, <1>15, <1>16, <1>17, <1>18, <1>19, <1>20, <1>21, <1>22, <1>23, <1>24, <1>25, <1>26, <1>27, <1>28, <1>29, <1>30
     DEF PNext

LEMMA TurnsStep ==
  ASSUME PTypeOK, Turns, Reloading, PNext
  PROVE  Turns'
<1> USE PluginConstants DEF At, Free, Goes, Loops, Returns, Booting, Drivers, stored, locals, NoRow, NoDesc, NoDef, Nothing, Rows, States, BootSteps, OperatorSteps, WatcherSteps, Described, PTypeOK, Turns, Reloading
<1>1. CASE BootRead
  BY <1>1 DEF BootRead
<1>2. CASE BootLoad
  BY <1>2 DEF BootLoad
<1>3. CASE BootRefused
  BY <1>3 DEF BootRefused, Fault
<1>4. CASE BootPersist
  BY <1>4 DEF BootPersist
<1>5. CASE BootSync
  BY <1>5 DEF BootSync, Handled
<1>6. CASE BootRegistered
  BY <1>6 DEF BootRegistered, SetState, ShouldEnable, NewEnabled
<1>7. CASE Enable
  BY <1>7 DEF Enable, Calls, CanTransition, ValidTransitions
<1>8. CASE Disable
  BY <1>8 DEF Disable, Calls, CanTransition, ValidTransitions
<1>9. CASE Unload
  BY <1>9 DEF Unload, Calls, CanTransition, ValidTransitions
<1>10. ASSUME NEW c \in {"boot", "operator"}, EnableOp(c) PROVE Turns'
  BY <1>10 DEF EnableOp, Handled
<1>11. ASSUME NEW c \in {"boot", "operator"}, EnableDone(c) PROVE Turns'
  BY <1>11 DEF EnableDone, SetState
<1>12. ASSUME NEW c \in {"boot", "operator"}, CallFails(c) PROVE Turns'
  BY <1>12 DEF CallFails, Fault
<1>13. CASE DisableOp
  BY <1>13 DEF DisableOp, SwitchOff, Swallowed, Fault, Handled
<1>14. CASE DisableDone
  BY <1>14 DEF DisableDone, SetState, Swallowed, Fault
<1>15. CASE UnloadOp
  BY <1>15 DEF UnloadOp, SwitchOff, Swallowed, Fault, Handled
<1>16. CASE UnloadDone
  BY <1>16 DEF UnloadDone
<1>17. CASE Change
  BY <1>17 DEF Change, locals
<1>18. CASE Poll
  BY <1>18 DEF Poll, Trigger
<1>19. CASE Fire
  BY <1>19 DEF Fire
<1>20. CASE ReloadDiscover
  BY <1>20 DEF ReloadDiscover
<1>21. CASE ReloadRefused
  BY <1>21 DEF ReloadRefused, Fault
<1>22. CASE ReloadSync
  BY <1>22 DEF ReloadSync, Handled
<1>23. CASE ReloadSyncFails
  BY <1>23 DEF ReloadSyncFails, Fault, Restore
<1>24. CASE ReloadSwap
  BY <1>24 DEF ReloadSwap
<1>25. CASE ReloadUpsert
  BY <1>25 DEF ReloadUpsert, Removed
<1>26. CASE ReloadUpsertFails
  BY <1>26 DEF ReloadUpsertFails, Fault, Restore
<1>27. CASE ReloadRestore
  BY <1>27 DEF ReloadRestore, Handled
<1>28. CASE ReloadTeardown
  BY <1>28 DEF ReloadTeardown, Handled
<1>29. CASE ReloadDone
  BY <1>29 DEF ReloadDone
<1>30. CASE Crash
  BY <1>30 DEF Crash
<1> HIDE DEF At, Free, Goes, Loops, Returns, Booting, Drivers, stored, locals, NoRow, NoDesc, NoDef, Nothing, Rows, States, BootSteps, OperatorSteps, WatcherSteps, Described, PTypeOK, Turns, Reloading
<1> QED
  BY <1>1, <1>2, <1>3, <1>4, <1>5, <1>6, <1>7, <1>8, <1>9, <1>10, <1>11, <1>12, <1>13, <1>14, <1>15, <1>16, <1>17, <1>18, <1>19, <1>20, <1>21, <1>22, <1>23, <1>24, <1>25, <1>26, <1>27, <1>28, <1>29, <1>30
     DEF PNext

LEMMA ReloadingStep ==
  ASSUME PTypeOK, Turns, Reloading, PNext
  PROVE  Reloading'
<1> USE PluginConstants DEF At, Free, Goes, Loops, Returns, Booting, Drivers, stored, locals, NoRow, NoDesc, NoDef, Nothing, Rows, States, BootSteps, OperatorSteps, WatcherSteps, Described, PTypeOK, Turns, Reloading
<1>1. CASE BootRead
  BY <1>1 DEF BootRead
<1>2. CASE BootLoad
  BY <1>2 DEF BootLoad
<1>3. CASE BootRefused
  BY <1>3 DEF BootRefused, Fault
<1>4. CASE BootPersist
  BY <1>4 DEF BootPersist
<1>5. CASE BootSync
  BY <1>5 DEF BootSync, Handled
<1>6. CASE BootRegistered
  BY <1>6 DEF BootRegistered, SetState, ShouldEnable, NewEnabled
<1>7. CASE Enable
  BY <1>7 DEF Enable, Calls, CanTransition, ValidTransitions
<1>8. CASE Disable
  BY <1>8 DEF Disable, Calls, CanTransition, ValidTransitions
<1>9. CASE Unload
  BY <1>9 DEF Unload, Calls, CanTransition, ValidTransitions
<1>10. ASSUME NEW c \in {"boot", "operator"}, EnableOp(c) PROVE Reloading'
  BY <1>10 DEF EnableOp, Handled
<1>11. ASSUME NEW c \in {"boot", "operator"}, EnableDone(c) PROVE Reloading'
  BY <1>11 DEF EnableDone, SetState
<1>12. ASSUME NEW c \in {"boot", "operator"}, CallFails(c) PROVE Reloading'
  BY <1>12 DEF CallFails, Fault
<1>13. CASE DisableOp
  BY <1>13 DEF DisableOp, SwitchOff, Swallowed, Fault, Handled
<1>14. CASE DisableDone
  BY <1>14 DEF DisableDone, SetState, Swallowed, Fault
<1>15. CASE UnloadOp
  BY <1>15 DEF UnloadOp, SwitchOff, Swallowed, Fault, Handled
<1>16. CASE UnloadDone
  BY <1>16 DEF UnloadDone
<1>17. CASE Change
  BY <1>17 DEF Change, locals
<1>18. CASE Poll
  BY <1>18 DEF Poll, Trigger
<1>19. CASE Fire
  BY <1>19 DEF Fire
<1>20. CASE ReloadDiscover
  BY <1>20 DEF ReloadDiscover
<1>21. CASE ReloadRefused
  BY <1>21 DEF ReloadRefused, Fault
<1>22. CASE ReloadSync
  BY <1>22 DEF ReloadSync, Handled
<1>23. CASE ReloadSyncFails
  BY <1>23 DEF ReloadSyncFails, Fault, Restore
<1>24. CASE ReloadSwap
  BY <1>24 DEF ReloadSwap
<1>25. CASE ReloadUpsert
  BY <1>25 DEF ReloadUpsert, Removed
<1>26. CASE ReloadUpsertFails
  BY <1>26 DEF ReloadUpsertFails, Fault, Restore
<1>27. CASE ReloadRestore
  BY <1>27 DEF ReloadRestore, Handled
<1>28. CASE ReloadTeardown
  BY <1>28 DEF ReloadTeardown, Handled
<1>29. CASE ReloadDone
  BY <1>29 DEF ReloadDone
<1>30. CASE Crash
  BY <1>30 DEF Crash
<1> HIDE DEF At, Free, Goes, Loops, Returns, Booting, Drivers, stored, locals, NoRow, NoDesc, NoDef, Nothing, Rows, States, BootSteps, OperatorSteps, WatcherSteps, Described, PTypeOK, Turns, Reloading
<1> QED
  BY <1>1, <1>2, <1>3, <1>4, <1>5, <1>6, <1>7, <1>8, <1>9, <1>10, <1>11, <1>12, <1>13, <1>14, <1>15, <1>16, <1>17, <1>18, <1>19, <1>20, <1>21, <1>22, <1>23, <1>24, <1>25, <1>26, <1>27, <1>28, <1>29, <1>30
     DEF PNext

LEMMA ServedStep ==
  ASSUME PTypeOK, Turns, Reloading, Served, ServedReload, PNext
  PROVE  Served'
<1> USE PluginConstants DEF At, Free, Goes, Loops, Returns, Booting, Drivers, stored, locals, NoRow, NoDesc, NoDef, Nothing, Rows, States, BootSteps, OperatorSteps, WatcherSteps, Described, PTypeOK, Turns, Reloading, Active, Serves, Clean, Registered, Served, ServedReload
<1>1. CASE BootRead
  BY <1>1 DEF BootRead
<1>2. CASE BootLoad
  BY <1>2 DEF BootLoad
<1>3. CASE BootRefused
  BY <1>3 DEF BootRefused, Fault
<1>4. CASE BootPersist
  BY <1>4 DEF BootPersist
<1>5. CASE BootSync
  BY <1>5 DEF BootSync, Handled
<1>6. CASE BootRegistered
  BY <1>6 DEF BootRegistered, SetState, ShouldEnable, NewEnabled
<1>7. CASE Enable
  BY <1>7 DEF Enable, Calls, CanTransition, ValidTransitions
<1>8. CASE Disable
  BY <1>8 DEF Disable, Calls, CanTransition, ValidTransitions
<1>9. CASE Unload
  BY <1>9 DEF Unload, Calls, CanTransition, ValidTransitions
<1>10. ASSUME NEW c \in {"boot", "operator"}, EnableOp(c) PROVE Served'
  BY <1>10 DEF EnableOp, Handled
<1>11. ASSUME NEW c \in {"boot", "operator"}, EnableDone(c) PROVE Served'
  <2>1. CASE desc = NoDesc
    BY <1>11, <2>1 DEF EnableDone, SetState
  <2>2. CASE desc # NoDesc
    <3>1. desc' = [state |-> "enabled", def |-> desc.def]
      BY <1>11, <2>2 DEF EnableDone, SetState
    <3>2. CASE c = "boot"
      BY <1>11, <3>1, <3>2 DEF EnableDone
    <3>3. CASE c = "operator"
      BY <1>11, <3>1, <3>3 DEF EnableDone
    <3> QED
      BY <3>2, <3>3
  <2> QED
    BY <2>1, <2>2
<1>12. ASSUME NEW c \in {"boot", "operator"}, CallFails(c) PROVE Served'
  BY <1>12 DEF CallFails, Fault
<1>13. CASE DisableOp
  BY <1>13 DEF DisableOp, SwitchOff, Swallowed, Fault, Handled
<1>14. CASE DisableDone
  <2>1. events \subseteq events' /\ step' = [step EXCEPT !["operator"] = "idle"]
    BY <1>14 DEF DisableDone, Swallowed
  <2>2. CASE desc = NoDesc
    BY <1>14, <2>1, <2>2 DEF DisableDone, SetState
  <2>3. CASE desc # NoDesc
    <3>1. desc' = [state |-> "disabled", def |-> desc.def]
      BY <1>14, <2>3 DEF DisableDone, SetState
    <3> QED
      BY <1>14, <2>1, <3>1 DEF DisableDone
  <2> QED
    BY <2>2, <2>3
<1>15. CASE UnloadOp
  BY <1>15 DEF UnloadOp, SwitchOff, Swallowed, Fault, Handled
<1>16. CASE UnloadDone
  BY <1>16 DEF UnloadDone
<1>17. CASE Change
  BY <1>17 DEF Change, locals
<1>18. CASE Poll
  BY <1>18 DEF Poll, Trigger
<1>19. CASE Fire
  BY <1>19 DEF Fire
<1>20. CASE ReloadDiscover
  BY <1>20 DEF ReloadDiscover
<1>21. CASE ReloadRefused
  BY <1>21 DEF ReloadRefused, Fault
<1>22. CASE ReloadSync
  BY <1>22 DEF ReloadSync, Handled
<1>23. CASE ReloadSyncFails
  BY <1>23 DEF ReloadSyncFails, Fault, Restore
<1>24. CASE ReloadSwap
  BY <1>24 DEF ReloadSwap
<1>25. CASE ReloadUpsert
  BY <1>25 DEF ReloadUpsert, Removed
<1>26. CASE ReloadUpsertFails
  BY <1>26 DEF ReloadUpsertFails, Fault, Restore
<1>27. CASE ReloadRestore
  BY <1>27 DEF ReloadRestore, Handled
<1>28. CASE ReloadTeardown
  BY <1>28 DEF ReloadTeardown, Handled
<1>29. CASE ReloadDone
  BY <1>29 DEF ReloadDone
<1>30. CASE Crash
  BY <1>30 DEF Crash
<1> HIDE DEF At, Free, Goes, Loops, Returns, Booting, Drivers, stored, locals, NoRow, NoDesc, NoDef, Nothing, Rows, States, BootSteps, OperatorSteps, WatcherSteps, Described, PTypeOK, Turns, Reloading, Active, Serves, Clean, Registered, Served, ServedReload
<1> QED
  BY <1>1, <1>2, <1>3, <1>4, <1>5, <1>6, <1>7, <1>8, <1>9, <1>10, <1>11, <1>12, <1>13, <1>14, <1>15, <1>16, <1>17, <1>18, <1>19, <1>20, <1>21, <1>22, <1>23, <1>24, <1>25, <1>26, <1>27, <1>28, <1>29, <1>30
     DEF PNext

LEMMA ServedReloadStep ==
  ASSUME PTypeOK, Turns, Reloading, Served, ServedReload, PNext
  PROVE  ServedReload'
<1> USE PluginConstants DEF At, Free, Goes, Loops, Returns, Booting, Drivers, stored, locals, NoRow, NoDesc, NoDef, Nothing, Rows, States, BootSteps, OperatorSteps, WatcherSteps, Described, PTypeOK, Turns, Reloading, Active, Serves, Clean, Registered, Served, ServedReload
<1>1. CASE BootRead
  BY <1>1 DEF BootRead
<1>2. CASE BootLoad
  BY <1>2 DEF BootLoad
<1>3. CASE BootRefused
  BY <1>3 DEF BootRefused, Fault
<1>4. CASE BootPersist
  BY <1>4 DEF BootPersist
<1>5. CASE BootSync
  BY <1>5 DEF BootSync, Handled
<1>6. CASE BootRegistered
  BY <1>6 DEF BootRegistered, SetState, ShouldEnable, NewEnabled
<1>7. CASE Enable
  BY <1>7 DEF Enable, Calls, CanTransition, ValidTransitions
<1>8. CASE Disable
  BY <1>8 DEF Disable, Calls, CanTransition, ValidTransitions
<1>9. CASE Unload
  BY <1>9 DEF Unload, Calls, CanTransition, ValidTransitions
<1>10. ASSUME NEW c \in {"boot", "operator"}, EnableOp(c) PROVE ServedReload'
  BY <1>10 DEF EnableOp, Handled
<1>11. ASSUME NEW c \in {"boot", "operator"}, EnableDone(c) PROVE ServedReload'
  BY <1>11 DEF EnableDone, SetState
<1>12. ASSUME NEW c \in {"boot", "operator"}, CallFails(c) PROVE ServedReload'
  BY <1>12 DEF CallFails, Fault
<1>13. CASE DisableOp
  BY <1>13 DEF DisableOp, SwitchOff, Swallowed, Fault, Handled
<1>14. CASE DisableDone
  BY <1>14 DEF DisableDone, SetState, Swallowed, Fault
<1>15. CASE UnloadOp
  BY <1>15 DEF UnloadOp, SwitchOff, Swallowed, Fault, Handled
<1>16. CASE UnloadDone
  BY <1>16 DEF UnloadDone
<1>17. CASE Change
  BY <1>17 DEF Change, locals
<1>18. CASE Poll
  BY <1>18 DEF Poll, Trigger
<1>19. CASE Fire
  BY <1>19 DEF Fire
<1>20. CASE ReloadDiscover
  BY <1>20 DEF ReloadDiscover
<1>21. CASE ReloadRefused
  BY <1>21 DEF ReloadRefused, Fault
<1>22. CASE ReloadSync
  BY <1>22 DEF ReloadSync, Handled
<1>23. CASE ReloadSyncFails
  BY <1>23 DEF ReloadSyncFails, Fault, Restore
<1>24. CASE ReloadSwap
  BY <1>24 DEF ReloadSwap
<1>25. CASE ReloadUpsert
  BY <1>25 DEF ReloadUpsert, Removed
<1>26. CASE ReloadUpsertFails
  BY <1>26, ZenonT(40) DEF ReloadUpsertFails, Fault, Restore
<1>27. CASE ReloadRestore
  BY <1>27 DEF ReloadRestore, Handled
<1>28. CASE ReloadTeardown
  BY <1>28 DEF ReloadTeardown, Handled
<1>29. CASE ReloadDone
  BY <1>29 DEF ReloadDone
<1>30. CASE Crash
  BY <1>30 DEF Crash
<1> HIDE DEF At, Free, Goes, Loops, Returns, Booting, Drivers, stored, locals, NoRow, NoDesc, NoDef, Nothing, Rows, States, BootSteps, OperatorSteps, WatcherSteps, Described, PTypeOK, Turns, Reloading, Active, Serves, Clean, Registered, Served, ServedReload
<1> QED
  BY <1>1, <1>2, <1>3, <1>4, <1>5, <1>6, <1>7, <1>8, <1>9, <1>10, <1>11, <1>12, <1>13, <1>14, <1>15, <1>16, <1>17, <1>18, <1>19, <1>20, <1>21, <1>22, <1>23, <1>24, <1>25, <1>26, <1>27, <1>28, <1>29, <1>30
     DEF PNext

LEMMA RestoringStep ==
  ASSUME PTypeOK, Turns, Reloading, Served, Restoring, PNext
  PROVE  Restoring'
<1> USE PluginConstants DEF At, Free, Goes, Loops, Returns, Booting, Drivers, stored, locals, NoRow, NoDesc, NoDef, Nothing, Rows, States, BootSteps, OperatorSteps, WatcherSteps, Described, PTypeOK, Turns, Reloading, Active, Serves, Clean, Registered, Served, Agrees, Restoring
<1>1. CASE BootRead
  BY <1>1 DEF BootRead
<1>2. CASE BootLoad
  BY <1>2 DEF BootLoad
<1>3. CASE BootRefused
  BY <1>3 DEF BootRefused, Fault
<1>4. CASE BootPersist
  BY <1>4 DEF BootPersist
<1>5. CASE BootSync
  BY <1>5 DEF BootSync, Handled
<1>6. CASE BootRegistered
  BY <1>6 DEF BootRegistered, SetState, ShouldEnable, NewEnabled
<1>7. CASE Enable
  BY <1>7 DEF Enable, Calls, CanTransition, ValidTransitions
<1>8. CASE Disable
  BY <1>8 DEF Disable, Calls, CanTransition, ValidTransitions
<1>9. CASE Unload
  BY <1>9 DEF Unload, Calls, CanTransition, ValidTransitions
<1>10. ASSUME NEW c \in {"boot", "operator"}, EnableOp(c) PROVE Restoring'
  <2>1. PICK o \in todo[c] : IF opRow[o] = "absent" THEN Returns(c) /\ UNCHANGED opRow
                             ELSE opRow' = [opRow EXCEPT ![o] = "on"] /\ Handled(c, o)
    BY <1>10 DEF EnableOp
  <2>2. CASE c = "boot"
    BY <1>10, <2>1, <2>2 DEF EnableOp, Handled
  <2>3. CASE c = "operator"
    BY <1>10, <2>1, <2>3 DEF EnableOp, Handled
  <2> QED
    BY <2>2, <2>3
<1>11. ASSUME NEW c \in {"boot", "operator"}, EnableDone(c) PROVE Restoring'
  BY <1>11 DEF EnableDone, SetState
<1>12. ASSUME NEW c \in {"boot", "operator"}, CallFails(c) PROVE Restoring'
  BY <1>12 DEF CallFails, Fault
<1>13. CASE DisableOp
  BY <1>13 DEF DisableOp, SwitchOff, Swallowed, Fault, Handled
<1>14. CASE DisableDone
  BY <1>14 DEF DisableDone, SetState, Swallowed, Fault
<1>15. CASE UnloadOp
  BY <1>15 DEF UnloadOp, SwitchOff, Swallowed, Fault, Handled
<1>16. CASE UnloadDone
  BY <1>16 DEF UnloadDone
<1>17. CASE Change
  BY <1>17 DEF Change, locals
<1>18. CASE Poll
  BY <1>18 DEF Poll, Trigger
<1>19. CASE Fire
  BY <1>19 DEF Fire
<1>20. CASE ReloadDiscover
  BY <1>20 DEF ReloadDiscover
<1>21. CASE ReloadRefused
  BY <1>21 DEF ReloadRefused, Fault
<1>22. CASE ReloadSync
  BY <1>22 DEF ReloadSync, Handled
<1>23. CASE ReloadSyncFails
  BY <1>23 DEF ReloadSyncFails, Fault, Restore
<1>24. CASE ReloadSwap
  BY <1>24 DEF ReloadSwap
<1>25. CASE ReloadUpsert
  BY <1>25 DEF ReloadUpsert, Removed
<1>26. CASE ReloadUpsertFails
  BY <1>26 DEF ReloadUpsertFails, Fault, Restore
<1>27. CASE ReloadRestore
  BY <1>27 DEF ReloadRestore, Handled
<1>28. CASE ReloadTeardown
  BY <1>28 DEF ReloadTeardown, Handled
<1>29. CASE ReloadDone
  BY <1>29 DEF ReloadDone
<1>30. CASE Crash
  BY <1>30 DEF Crash
<1> HIDE DEF At, Free, Goes, Loops, Returns, Booting, Drivers, stored, locals, NoRow, NoDesc, NoDef, Nothing, Rows, States, BootSteps, OperatorSteps, WatcherSteps, Described, PTypeOK, Turns, Reloading, Active, Serves, Clean, Registered, Served, Agrees, Restoring
<1> QED
  BY <1>1, <1>2, <1>3, <1>4, <1>5, <1>6, <1>7, <1>8, <1>9, <1>10, <1>11, <1>12, <1>13, <1>14, <1>15, <1>16, <1>17, <1>18, <1>19, <1>20, <1>21, <1>22, <1>23, <1>24, <1>25, <1>26, <1>27, <1>28, <1>29, <1>30
     DEF PNext

LEMMA WatchingStep ==
  ASSUME PTypeOK, Turns, Reloading, Watching, PNext
  PROVE  Watching'
<1> USE PluginConstants DEF At, Free, Goes, Loops, Returns, Booting, Drivers, stored, locals, NoRow, NoDesc, NoDef, Nothing, Rows, States, BootSteps, OperatorSteps, WatcherSteps, Described, PTypeOK, Turns, Reloading, Watching
<1>1. CASE BootRead
  BY <1>1 DEF BootRead
<1>2. CASE BootLoad
  BY <1>2 DEF BootLoad
<1>3. CASE BootRefused
  BY <1>3 DEF BootRefused, Fault
<1>4. CASE BootPersist
  BY <1>4 DEF BootPersist
<1>5. CASE BootSync
  BY <1>5 DEF BootSync, Handled
<1>6. CASE BootRegistered
  BY <1>6 DEF BootRegistered, SetState, ShouldEnable, NewEnabled
<1>7. CASE Enable
  BY <1>7 DEF Enable, Calls, CanTransition, ValidTransitions
<1>8. CASE Disable
  BY <1>8 DEF Disable, Calls, CanTransition, ValidTransitions
<1>9. CASE Unload
  BY <1>9 DEF Unload, Calls, CanTransition, ValidTransitions
<1>10. ASSUME NEW c \in {"boot", "operator"}, EnableOp(c) PROVE Watching'
  BY <1>10 DEF EnableOp, Handled
<1>11. ASSUME NEW c \in {"boot", "operator"}, EnableDone(c) PROVE Watching'
  BY <1>11 DEF EnableDone, SetState
<1>12. ASSUME NEW c \in {"boot", "operator"}, CallFails(c) PROVE Watching'
  BY <1>12 DEF CallFails, Fault
<1>13. CASE DisableOp
  BY <1>13 DEF DisableOp, SwitchOff, Swallowed, Fault, Handled
<1>14. CASE DisableDone
  BY <1>14 DEF DisableDone, SetState, Swallowed, Fault
<1>15. CASE UnloadOp
  BY <1>15 DEF UnloadOp, SwitchOff, Swallowed, Fault, Handled
<1>16. CASE UnloadDone
  BY <1>16 DEF UnloadDone
<1>17. CASE Change
  BY <1>17 DEF Change, locals
<1>18. CASE Poll
  BY <1>18 DEF Poll, Trigger
<1>19. CASE Fire
  BY <1>19 DEF Fire
<1>20. CASE ReloadDiscover
  BY <1>20 DEF ReloadDiscover
<1>21. CASE ReloadRefused
  BY <1>21 DEF ReloadRefused, Fault
<1>22. CASE ReloadSync
  BY <1>22 DEF ReloadSync, Handled
<1>23. CASE ReloadSyncFails
  BY <1>23 DEF ReloadSyncFails, Fault, Restore
<1>24. CASE ReloadSwap
  BY <1>24 DEF ReloadSwap
<1>25. CASE ReloadUpsert
  BY <1>25 DEF ReloadUpsert, Removed
<1>26. CASE ReloadUpsertFails
  BY <1>26 DEF ReloadUpsertFails, Fault, Restore
<1>27. CASE ReloadRestore
  BY <1>27 DEF ReloadRestore, Handled
<1>28. CASE ReloadTeardown
  BY <1>28 DEF ReloadTeardown, Handled
<1>29. CASE ReloadDone
  BY <1>29 DEF ReloadDone
<1>30. CASE Crash
  BY <1>30 DEF Crash
<1> HIDE DEF At, Free, Goes, Loops, Returns, Booting, Drivers, stored, locals, NoRow, NoDesc, NoDef, Nothing, Rows, States, BootSteps, OperatorSteps, WatcherSteps, Described, PTypeOK, Turns, Reloading, Watching
<1> QED
  BY <1>1, <1>2, <1>3, <1>4, <1>5, <1>6, <1>7, <1>8, <1>9, <1>10, <1>11, <1>12, <1>13, <1>14, <1>15, <1>16, <1>17, <1>18, <1>19, <1>20, <1>21, <1>22, <1>23, <1>24, <1>25, <1>26, <1>27, <1>28, <1>29, <1>30
     DEF PNext

-----------------------------------------------------------------------------
(* Theorems.                                                               *)

LEMMA PInvHolds == PSpec => []PInv
<1>1. PInit => PInv
  <2> SUFFICES ASSUME PInit PROVE PInv
    OBVIOUS
  <2> USE PluginConstants DEF PInit, Free, At, Drivers, NoDesc, NoDef, Nothing
  <2>1. PTypeOK
    <3>1. /\ step \in [Drivers -> {"idle"}] /\ todo \in [Drivers -> SUBSET Ops]
          /\ reg \in [Ops -> SUBSET Ops] /\ opRow \in [Ops -> {"absent"}]
      OBVIOUS
    <3>2. row \in Rows /\ prev \in Rows
      BY RowValues
    <3> QED
      BY <3>1, <3>2 DEF PTypeOK, States, BootSteps, OperatorSteps, WatcherSteps, Described
  <2>2. Turns /\ Reloading
    BY DEF Turns, Reloading, Booting
  <2>3. Served /\ ServedReload
    BY DEF Served, ServedReload, Serves, Active, Registered
  <2> QED
    BY <2>1, <2>2, <2>3 DEF PInv
<1>2. PInv /\ PNext => PInv'
  BY TypeStep, TurnsStep, ReloadingStep, ServedStep, ServedReloadStep DEF PInv
<1>3. PInv /\ UNCHANGED pvars => PInv'
  BY DEF pvars, PInv, PTypeOK, Turns, Reloading, Served, ServedReload, Described, Booting, Free, At,
         Serves, Active, Registered, Clean
<1> QED
  BY <1>1, <1>2, <1>3, PTL DEF PSpec

\* Every variable of the plugin runtime keeps its type: the descriptor is the
\* absent one or has a state of lifecycle.go and a definition of the source.
THEOREM PluginTypeCorrect == PSpec => []PTypeOK
<1>1. PInv => PTypeOK
  BY DEF PInv
<1> QED
  BY <1>1, PInvHolds, PTL

\* For any definitions and any number of reloads, faults and restarts: what the
\* registry serves is the loaded definition, and a failed reload leaves the
\* previous one registered and usable (Manager.Reload, SyncPlugin, Unload).
THEOREM PluginDefinitionServed == PSpec => []DefinitionServed
<1>1. PInv => DefinitionServed
  <2> SUFFICES ASSUME PInv, Quiet, "raced" \notin events
               PROVE  /\ (Registered \/ desc = NoDesc) /\ "fault" \notin events =>
                           reg = [o \in Ops |-> IF o \in desc.def THEN desc.def ELSE NoDef]
                      /\ Registered => \A o \in desc.def :
                           reg[o] = desc.def /\ (desc.state = "enabled" => opRow[o] = "on")
    BY DEF DefinitionServed
  <2>1. Free("watcher") /\ Free("operator")
    BY DEF Quiet, Drivers
  <2>2. /\ Registered => Serves(desc.def, desc.def)
        /\ "fault" \notin events => Serves(Ops \ desc.def, NoDef)
        /\ desc.state = "enabled" => Active(desc.def)
    BY <2>1 DEF PInv, Served, At, Free, Clean
  <2>3. reg \in [Ops -> SUBSET Ops] /\ (desc = NoDesc => desc.def = {})
    BY DEF PInv, PTypeOK, NoDesc
  <2> QED
    BY <2>2, <2>3 DEF Serves, Active
<1> QED
  BY <1>1, PInvHolds, PTL

\* A restart restores the state of the last lifecycle call that succeeded, for
\* any number of restarts (Bootstrap reading the row before it overwrites it).
THEOREM PluginStateRestored == PSpec => []StateRestored
<1>1. PInit => Restoring
  BY DEF PInit, Restoring, Agrees, Booting, Free, At, Drivers, NoDesc, Registered
<1>2. PInv /\ Restoring /\ PNext => Restoring'
  BY RestoringStep DEF PInv
<1>3. Restoring /\ UNCHANGED pvars => Restoring'
  BY DEF pvars, Restoring, Agrees, Booting, Free, At, Registered
<1>4. Restoring => StateRestored
  BY DEF Restoring, StateRestored, Quiet, Drivers
<1> QED
  BY <1>1, <1>2, <1>3, <1>4, PInvHolds, PTL DEF PSpec

\* A watcher at rest that has seen the current source has loaded it, for any
\* number of changes, polls and reloads (Watcher.poll, runReload).
THEOREM PluginWatcherCurrent == PSpec => []WatcherCurrent
<1>1. PInit => Watching
  BY DEF PInit, Watching, NoDesc
<1>2. PInv /\ Watching /\ PNext => Watching'
  BY WatchingStep DEF PInv
<1>3. Watching /\ UNCHANGED pvars => Watching'
  BY DEF pvars, Watching, Free, At
<1>4. PInv /\ Watching => WatcherCurrent
  BY PluginConstants DEF PInv, PTypeOK, Watching, WatcherCurrent, Quiet, Drivers, Free, At
<1> QED
  BY <1>1, <1>2, <1>3, <1>4, PInvHolds, PTL DEF PSpec
=============================================================================
