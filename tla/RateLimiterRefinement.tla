----------------------- MODULE RateLimiterRefinement -----------------------
(***************************************************************************)
(* The store of rate_limit.py, with its lazy refills, its idle sweep and   *)
(* its cap, implements TokenBucket: what a client can tell from being      *)
(* admitted is a plain bucket that refills with time, provided IdleTtl is  *)
(* long enough to refill a bucket and, as long as there are fewer clients  *)
(* than the cap, without any level ever being forgotten.                   *)
(***************************************************************************)
EXTENDS RateLimiterProofs

LEMMA RefillArithmetic ==
  ASSUME NEW a \in Nat, NEW b \in Nat, a <= b, NEW r \in Nat
  PROVE  a * r <= b * r /\ (a + 1) * r = a * r + r
  <1>1. b - a \in Nat /\ b = a + (b - a)
    OBVIOUS
  <1>2. (b - a) * r \in Nat
    BY <1>1, ProductNat
  <1>3. b * r = a * r + (b - a) * r
    BY <1>1
  <1>4. a * r \in Nat /\ (a + 1) * r = a * r + r
    BY ProductNat
  <1>5. QED
    BY <1>2, <1>3, <1>4

LEMMA LevelOf ==
  ASSUME Coherent, NEW k \in Keys
  PROVE  /\ Level[k] = IF k \in DOMAIN store THEN RefilledTokens(store[k], mono) ELSE Full
         /\ Level[k] \in 0 .. Full
  <1>1. k \in DOMAIN store => RefilledTokens(store[k], mono) \in 0 .. Full
    BY SoundBuckets, RefilledTokensType DEF Coherent, TypeOK
  <1>2. QED
    BY <1>1, FullType DEF Level

(* What the sweep deletes would have been full: it cannot be noticed.      *)
LEMMA ExpiredIsFull ==
  ASSUME Coherent, TtlCoversRefill, NEW k \in DOMAIN store, k \notin Survivors
  PROVE  RefilledTokens(store[k], mono) = Full
  <1> DEFINE b == store[k]
             idle == mono - b.last_refill_ts
  <1>1. Sound(b, mono) /\ mono \in Nat /\ wall \in Nat
    BY SoundBuckets DEF Coherent, TypeOK
  <1>2. mono - b.last_seen_ts > EffectiveTtl(b, wall)
    BY DEF Survivors, IsExpired
  <1>3. EffectiveTtl(b, wall) >= IdleTtl /\ EffectiveTtl(b, wall) \in Int
    <2>1. SecondsToUtcMidnight(wall) \in Nat
      BY <1>1, RetryAfterType
    <2>2. SecondsToUtcMidnight(wall) * TicksPerSecond \in Nat
      BY <2>1, Parameters, ProductNat
    <2>3. QED
      BY <2>2, Parameters DEF EffectiveTtl, Larger
  <1>4. b.last_refill_ts = b.last_seen_ts /\ b.last_refill_ts \in Nat /\ b.tokens \in 0 .. Full
    BY <1>1 DEF Sound, BucketState
  <1> HIDE DEF b
  <1>5. idle \in Nat /\ IdleTtl + 1 <= idle /\ IdleTtl + 1 \in Nat
    BY <1>1, <1>2, <1>3, <1>4, Parameters
  <1> HIDE DEF idle
  <1>6. (IdleTtl + 1) * RefillPerTick <= idle * RefillPerTick
    BY <1>5, Parameters, RefillArithmetic
  <1>7. idle * RefillPerTick \in Nat /\ (IdleTtl + 1) * RefillPerTick \in Nat
    BY <1>5, Parameters, ProductNat
  <1>8. RefilledTokens(b, mono) = Smaller(Full, b.tokens + idle * RefillPerTick)
    BY DEF RefilledTokens, idle
  <1>9. RefilledTokens(b, mono) = Full
    BY <1>4, <1>6, <1>7, <1>8, FullType DEF TtlCoversRefill, Smaller
  <1>10. QED
    BY <1>9 DEF b

LEMMA HeldLevel ==
  ASSUME Coherent, TtlCoversRefill, NEW k \in Keys
  PROVE  Held(k).tokens = Level[k] /\ (k \notin Survivors => Level[k] = Full)
  BY HeldSound, LevelOf, ExpiredIsFull DEF Survivors

(* A request moves only the level of its client, except that the levels of *)
(* an evicted batch become Full, which lost records; a batch is evicted    *)
(* only for a new client of a store that is filling up.                    *)
LEMMA WriteLevels ==
  ASSUME Coherent, TtlCoversRefill, NEW k \in Keys, NEW b, Sound(b, mono),
         b.last_seen_ts = mono, Write(k, b), UNCHANGED mono
  PROVE  \E E \in SUBSET Keys :
           /\ E # {} => k \notin Survivors /\ Cardinality(Keys) >= StoreCap
           /\ Level' = [x \in Keys |-> IF x \in E THEN Full
                                       ELSE IF x = k THEN b.tokens
                                       ELSE Level[x]]
           /\ lost' = [x \in Keys |-> IF x \in E THEN lost[x] + 1 ELSE lost[x]]
  <1> DEFINE grown == Survivors \cup {k}
  <1>1. PICK E \in CapVictims(k) :
          /\ store' = [x \in grown \ E |-> IF x = k THEN b ELSE store[x]]
          /\ lost' = [x \in Keys |-> IF x \in E THEN lost[x] + 1 ELSE lost[x]]
    BY DEF Write
  <1>2. grown \subseteq Keys /\ Survivors \subseteq DOMAIN store
    BY DEF Survivors, Coherent, TypeOK
  <1>3. E \subseteq grown
    BY DEF CapVictims, OldestBatches
  <1>4. ASSUME E # {} PROVE k \notin Survivors /\ Cardinality(Keys) >= StoreCap
    <2>1. k \notin Survivors /\ ~(Cardinality(grown) < StoreCap)
      BY <1>4 DEF CapVictims
    <2>2. /\ Cardinality(grown) <= Cardinality(Keys)
          /\ Cardinality(grown) \in Nat /\ Cardinality(Keys) \in Nat
      BY <1>2, LimiterParameters, FS_Subset, FS_CardinalityType, KeysFinite
    <2>3. QED
      BY <2>1, <2>2, Parameters
  <1>5. ASSUME NEW x \in Keys
        PROVE  (IF x \in DOMAIN store' THEN RefilledTokens(store'[x], mono') ELSE Full)
                 = IF x \in E THEN Full ELSE IF x = k THEN b.tokens ELSE Level[x]
    <2>1. CASE x \in E
      BY <1>1, <2>1
    <2>2. CASE x = k /\ x \notin E
      <3>1. x \in DOMAIN store' /\ store'[x] = b
        BY <1>1, <2>2
      <3>2. RefilledTokens(b, mono) = b.tokens
        BY RefilledTokensType DEF Sound, Coherent, TypeOK
      <3>3. QED
        BY <2>2, <3>1, <3>2
    <2>3. CASE x # k /\ x \notin E /\ x \in Survivors
      <3>1. x \in DOMAIN store' /\ store'[x] = store[x] /\ x \in DOMAIN store
        BY <1>1, <1>2, <2>3
      <3>2. Level[x] = RefilledTokens(store[x], mono)
        BY <3>1, LevelOf
      <3>3. QED
        BY <2>3, <3>1, <3>2
    <2>4. CASE x # k /\ x \notin E /\ x \notin Survivors
      <3>1. x \notin DOMAIN store'
        BY <1>1, <2>4
      <3>2. Level[x] = Full
        BY <2>4, HeldLevel
      <3>3. QED
        BY <2>4, <3>1, <3>2
    <2>5. QED
      BY <2>1, <2>2, <2>3, <2>4
  <1>6. Level' = [x \in Keys |-> IF x \in E THEN Full
                                 ELSE IF x = k THEN b.tokens ELSE Level[x]]
    <2>1. Level' = [x \in Keys |-> IF x \in DOMAIN store'
                                   THEN RefilledTokens(store'[x], mono') ELSE Full]
      BY DEF Level, RefilledTokens
    <2>2. QED
      BY <1>5, <2>1
  <1>7. E \in SUBSET Keys
    BY <1>2, <1>3
  <1>8. QED
    BY <1>1, <1>4, <1>6, <1>7

LEMMA AdmitTakes ==
  ASSUME Coherent, TtlCoversRefill, NEW k \in Keys, Admit(k)
  PROVE  \E F \in SUBSET Keys :
           /\ TB!Take(k, F)
           /\ lost' = [x \in Keys |-> IF x \in F THEN lost[x] + 1 ELSE lost[x]]
  <1>1. /\ Sound(Charge(Held(k)), mono) /\ Charge(Held(k)).last_seen_ts = mono
        /\ Charge(Held(k)).tokens = Level[k] - Cost
    BY HeldSound, HeldLevel, ChargeSound DEF Admit, Coherent, TypeOK
  <1>2. Level[k] >= Cost
    BY HeldLevel DEF Admit, Admissible
  <1>3. Write(k, Charge(Held(k))) /\ UNCHANGED mono
    BY DEF Admit
  <1>4. PICK E \in SUBSET Keys :
          /\ E # {} => k \notin Survivors /\ Cardinality(Keys) >= StoreCap
          /\ Level' = [x \in Keys |-> IF x \in E THEN Full
                                      ELSE IF x = k THEN Charge(Held(k)).tokens
                                      ELSE Level[x]]
          /\ lost' = [x \in Keys |-> IF x \in E THEN lost[x] + 1 ELSE lost[x]]
    BY <1>1, <1>3, WriteLevels
  <1>5. Level' = [x \in Keys |-> IF x \in E THEN Full
                                 ELSE IF x = k THEN Level[x] - Cost ELSE Level[x]]
    BY <1>1, <1>4
  <1>6. TB!Take(k, E)
    BY <1>2, <1>4, <1>5 DEF TB!Take, Admit
  <1>7. QED
    BY <1>4, <1>6

(* A refused client had a bucket, so its refusal evicts nobody.            *)
LEMMA RejectStutters ==
  ASSUME Coherent, TtlCoversRefill, NEW k \in Keys, Reject(k)
  PROVE  UNCHANGED <<Level, restarts, lost>>
  <1>1. /\ Sound(Held(k), mono) /\ Held(k).last_seen_ts = mono
        /\ Held(k).tokens = Level[k]
    BY HeldSound, HeldLevel
  <1>2. ~Admissible(Held(k)) /\ Write(k, Held(k)) /\ UNCHANGED mono
    BY DEF Reject
  <1>3. k \in Survivors
    BY <1>2, RefusedHasBucket
  <1>4. /\ Level' = [x \in Keys |-> IF x = k THEN Held(k).tokens ELSE Level[x]]
        /\ lost' = [x \in Keys |-> lost[x]]
    <2>1. PICK E \in SUBSET Keys :
            /\ E # {} => k \notin Survivors
            /\ Level' = [x \in Keys |-> IF x \in E THEN Full
                                        ELSE IF x = k THEN Held(k).tokens ELSE Level[x]]
            /\ lost' = [x \in Keys |-> IF x \in E THEN lost[x] + 1 ELSE lost[x]]
      BY <1>1, <1>2, WriteLevels
    <2>2. E = {}
      BY <1>3, <2>1
    <2>3. QED
      BY <2>1, <2>2
  <1>5. Level' = [x \in Keys |-> Level[x]]
    BY <1>1, <1>4
  <1>6. lost' = lost
    BY <1>4 DEF Coherent, TypeOK
  <1>7. QED
    BY <1>5, <1>6 DEF Level, Reject

LEMMA TickElapses == ASSUME Coherent, Tick PROVE TB!Elapse
  <1>1. mono' = mono + 1 /\ store' = store /\ mono \in Nat
    BY DEF Tick, Coherent, TypeOK
  <1>2. ASSUME NEW k \in Keys
        PROVE  (IF k \in DOMAIN store' THEN RefilledTokens(store'[k], mono') ELSE Full)
                 = TB!Refilled(Level[k])
    <2>1. CASE k \notin DOMAIN store
      BY <1>1, <2>1, LevelOf, FullType, Parameters DEF TB!Refilled
    <2>2. CASE k \in DOMAIN store
      <3> DEFINE b == store[k]
                 a == mono - b.last_refill_ts
      <3>1. Sound(b, mono)
        BY <2>2, SoundBuckets
      <3>2. a \in Nat /\ b.tokens \in 0 .. Full /\ mono' - b.last_refill_ts = a + 1
        BY <1>1, <3>1 DEF Sound, BucketState
      <3>3. RefilledTokens(b, mono') = Smaller(Full, b.tokens + (a + 1) * RefillPerTick)
        <4> HIDE DEF a, b
        <4>1. QED
          BY <3>2 DEF RefilledTokens
      <3>4. Level[k] = Smaller(Full, b.tokens + a * RefillPerTick)
        BY <2>2, LevelOf DEF RefilledTokens
      <3>5. (a + 1) * RefillPerTick = a * RefillPerTick + RefillPerTick
            /\ a * RefillPerTick \in Nat
        BY <3>2, Parameters, RefillArithmetic, ProductNat
      <3> HIDE DEF a
      <3>6. RefilledTokens(b, mono') = TB!Refilled(Level[k])
        BY <3>2, <3>3, <3>4, <3>5, FullType, Parameters DEF Smaller, TB!Refilled
      <3>7. QED
        BY <1>1, <2>2, <3>6
    <2>3. QED
      BY <2>1, <2>2
  <1>3. Level' = [k \in Keys |-> IF k \in DOMAIN store'
                                 THEN RefilledTokens(store'[k], mono') ELSE Full]
    BY DEF Level, RefilledTokens
  <1>4. QED
    BY <1>2, <1>3 DEF TB!Elapse, Tick

LEMMA RestartForgets == ASSUME Restart PROVE TB!Restart
  <1>1. DOMAIN store' = {} /\ restarts' = restarts + 1
    BY DEF Restart, EmptyStore
  <1>2. Level' = [k \in Keys |-> IF k \in DOMAIN store'
                                 THEN RefilledTokens(store'[k], mono') ELSE Full]
    BY DEF Level, RefilledTokens
  <1>3. QED
    BY <1>1, <1>2 DEF TB!Restart

(* If a bucket idle for IdleTtl would be full again, every behaviour of    *)
(* the limiter is one of the token bucket: an admission takes one token,   *)
(* the passing of time refills, and refusals, sweeps and clock steps are   *)
(* invisible.  Levels are forgotten only by a restart, or if there are     *)
(* StoreCap clients.                                                       *)
THEOREM LimiterImplementsTokenBucket ==
  ASSUME TtlCoversRefill
  PROVE  Spec => ImplementsTokenBucket
  <1>1. Init => TB!Init
    <2> SUFFICES ASSUME Init PROVE TB!Init
      OBVIOUS
    <2>1. DOMAIN store = {} /\ restarts = 0
      BY DEF Init, EmptyStore
    <2>2. QED
      BY <2>1 DEF Level, TB!Init
  <1>2. Coherent /\ [Next]_vars => [TB!Next]_<<Level, restarts>>
    <2> SUFFICES ASSUME Coherent, [Next]_vars PROVE [TB!Next]_<<Level, restarts>>
      OBVIOUS
    <2>1. ASSUME NEW k \in Keys, Admit(k) PROVE TB!Next
      BY <2>1, AdmitTakes DEF TB!Next
    <2>2. ASSUME NEW k \in Keys, Reject(k) PROVE UNCHANGED <<Level, restarts>>
      BY <2>2, RejectStutters
    <2>3. CASE Tick
      BY <2>3, TickElapses DEF TB!Next
    <2>4. ASSUME NEW d \in ClockSteps, StepWall(d) PROVE UNCHANGED <<Level, restarts>>
      BY <2>4 DEF StepWall, Level, RefilledTokens
    <2>5. CASE Restart
      BY <2>5, RestartForgets DEF TB!Next
    <2>6. CASE UNCHANGED vars
      BY <2>6 DEF vars, Level, RefilledTokens
    <2>7. QED
      BY <2>1, <2>2, <2>3, <2>4, <2>5, <2>6 DEF Next
  <1>3. QED
    BY <1>1, <1>2, SpecCoherent, PTL DEF Spec, ImplementsTokenBucket, TB!Spec

(***************************************************************************)
(* The sustained rate.  What a client was served since the date changed    *)
(* and what it could still be served at once never exceed the tokens       *)
(* refilled since and as many full bursts as it was given.                 *)
(***************************************************************************)

Elapsed == mono - since

(* What k may have been given since the date changed.                      *)
Allowance(k) == Full + Full * lost[k] + RefillPerTick * Elapsed

Spent == \A k \in Keys : served[k] * Cost + Level[k] <= Allowance(k)

LEMMA SpentTypes ==
  ASSUME Coherent, NEW k \in Keys
  PROVE  /\ Elapsed \in Nat /\ served[k] \in Nat /\ lost[k] \in Nat
         /\ served[k] * Cost \in Nat /\ RefillPerTick * Elapsed \in Nat
         /\ Full * lost[k] \in Nat /\ Full * (lost[k] + 1) = Full * lost[k] + Full
         /\ Level[k] \in 0 .. Full
  <1>1. Elapsed \in Nat /\ served[k] \in Nat /\ lost[k] \in Nat
    BY DEF Coherent, TypeOK, BucketsCoherent, Elapsed
  <1>2. Full * (lost[k] + 1) = Full * lost[k] + Full
    BY <1>1, FullType
  <1>3. QED
    BY <1>1, <1>2, Parameters, FullType, ProductNat, LevelOf

LEMMA DateHistorySpent ==
  ASSUME Coherent, Coherent', Spent, DateHistory, mono' = mono \/ mono' = mono + 1,
         NEW k \in Keys, Level[k]' \in 0 .. Full,
         Level[k]' <= Level[k] + RefillPerTick * (mono' - mono)
  PROVE  served'[k] * Cost + Level[k]' <= Allowance(k)'
  <1>1. /\ mono \in Nat /\ since \in Nat /\ Full \in Nat /\ RefillPerTick \in Nat
        /\ Cost \in Nat
    BY Parameters, FullType DEF Coherent, TypeOK
  <1>2. Allowance(k)' = Full + Full * lost'[k] + RefillPerTick * Elapsed'
    BY DEF Allowance
  <1>3. CASE Date(wall') # Date(wall)
    <2>1. since' = mono' /\ served'[k] = 0 /\ lost'[k] = 0
      BY <1>3 DEF DateHistory
    <2>2. Elapsed' = 0
      BY <1>1, <2>1 DEF Elapsed
    <2>3. RefillPerTick * Elapsed' = 0 /\ served'[k] * Cost = 0 /\ Full * lost'[k] = 0
      BY <1>1, <2>1, <2>2
    <2>4. QED
      BY <1>1, <1>2, <2>3
  <1>4. CASE Date(wall') = Date(wall)
    <2>1. since' = since /\ served' = served /\ lost' = lost
      BY <1>4 DEF DateHistory
    <2>2. served[k] * Cost + Level[k] <= Full + Full * lost[k] + RefillPerTick * Elapsed
      BY DEF Spent, Allowance
    <2>3. CASE mono' = mono
      <3>1. Elapsed' = Elapsed /\ RefillPerTick * (mono' - mono) = 0
        BY <1>1, <2>1, <2>3 DEF Elapsed
      <3>2. Level[k]' <= Level[k]
        BY <3>1, SpentTypes
      <3>3. QED
        BY <1>1, <1>2, <2>1, <2>2, <3>1, <3>2, SpentTypes
    <2>4. CASE mono' = mono + 1
      <3>1. Elapsed' = Elapsed + 1 /\ mono' - mono = 1 /\ Elapsed \in Nat
        BY <1>1, <2>1, <2>4, SpentTypes DEF Elapsed
      <3>2. RefillPerTick * Elapsed' = RefillPerTick * Elapsed + RefillPerTick
            /\ RefillPerTick * (mono' - mono) = RefillPerTick
        BY <1>1, <3>1
      <3>3. Level[k]' <= Level[k] + RefillPerTick
        BY <3>2
      <3>4. served'[k] * Cost = served[k] * Cost /\ Full * lost'[k] = Full * lost[k]
        BY <2>1
      <3>5. Allowance(k)' = Full + Full * lost[k] + RefillPerTick * Elapsed + RefillPerTick
        BY <1>1, <1>2, <3>2, <3>4, SpentTypes
      <3>6. served'[k] * Cost + Level[k]' <= served[k] * Cost + Level[k] + RefillPerTick
        BY <1>1, <1>2, <3>3, <3>4, SpentTypes
      <3>7. QED
        <4>1. /\ served'[k] * Cost \in Nat /\ Level[k]' \in Nat
              /\ served[k] * Cost \in Nat /\ Level[k] \in Nat
              /\ Full * lost[k] \in Nat /\ RefillPerTick * Elapsed \in Nat
          BY <1>1, <1>2, <3>4, SpentTypes
        <4>2. QED
          BY <1>1, <2>2, <3>5, <3>6, <4>1
    <2>5. QED
      BY <2>3, <2>4
  <1>5. QED
    BY <1>3, <1>4

(* An admission moves Cost from the level to what was served; an eviction  *)
(* gives a level of at most Full, and lost grows by one.                   *)
LEMMA AdmitSpent ==
  ASSUME Coherent, TtlCoversRefill, Spent, NEW j \in Keys, Admit(j), NEW k \in Keys
  PROVE  served'[k] * Cost + Level[k]' <= Allowance(k)'
  <1>1. Full \in Nat /\ Cost \in Nat
    BY Parameters, FullType
  <1>2. PICK F \in SUBSET Keys :
          /\ TB!Take(j, F)
          /\ lost' = [x \in Keys |-> IF x \in F THEN lost[x] + 1 ELSE lost[x]]
    BY AdmitTakes
  <1>3. /\ Level[k]' = IF k \in F THEN Full ELSE IF k = j THEN Level[k] - Cost ELSE Level[k]
        /\ lost'[k] = IF k \in F THEN lost[k] + 1 ELSE lost[k]
        /\ Level[j] >= Cost
    BY <1>2 DEF TB!Take
  <1>4. served'[k] = (IF k = j THEN served[k] + 1 ELSE served[k]) /\ Elapsed' = Elapsed
    BY DEF Admit, Elapsed, Coherent, TypeOK
  <1>5. (served[k] + 1) * Cost = served[k] * Cost + Cost
    BY <1>1, SpentTypes
  <1>6. served[k] * Cost + Level[k] <= Full + Full * lost[k] + RefillPerTick * Elapsed
    BY DEF Spent, Allowance
  <1>7. Allowance(k)' = Full + Full * lost'[k] + RefillPerTick * Elapsed
    BY <1>4 DEF Allowance
  <1>8. CASE k \in F
    <2>1. Full * lost'[k] = Full * lost[k] + Full /\ Level[k]' = Full
      BY <1>3, <1>8, SpentTypes
    <2>2. k = j => Level[k] >= Cost
      BY <1>3
    <2>3. served'[k] * Cost <= served[k] * Cost + Level[k]
      BY <1>1, <1>4, <1>5, <2>2, SpentTypes
    <2>4. served'[k] \in Nat /\ served'[k] * Cost \in Nat
      BY <1>1, <1>4, SpentTypes, ProductNat
    <2>5. QED
      BY <1>1, <1>6, <1>7, <2>1, <2>3, <2>4, SpentTypes
  <1>9. CASE k \notin F
    <2>1. lost'[k] = lost[k]
      BY <1>3, <1>9
    <2>2. CASE k = j
      BY <1>1, <1>3, <1>4, <1>5, <1>6, <1>7, <1>9, <2>1, <2>2, SpentTypes
    <2>3. CASE k # j
      BY <1>3, <1>4, <1>6, <1>7, <1>9, <2>1, <2>3
    <2>4. QED
      BY <2>2, <2>3
  <1>10. QED
    BY <1>8, <1>9

LEMMA RestartSpent ==
  ASSUME Coherent, Spent, Restart, NEW k \in Keys
  PROVE  served'[k] * Cost + Level[k]' <= Allowance(k)'
  <1>1. /\ UNCHANGED <<served, Elapsed>> /\ Level[k]' = Full
        /\ lost'[k] = IF k \in DOMAIN store THEN lost[k] + 1 ELSE lost[k]
    BY RestartForgets DEF Restart, TB!Restart, Elapsed
  <1>2. served[k] * Cost + Level[k] <= Full + Full * lost[k] + RefillPerTick * Elapsed
    BY DEF Spent, Allowance
  <1>3. Allowance(k)' = Full + Full * lost'[k] + RefillPerTick * Elapsed
    BY <1>1 DEF Allowance
  <1>4. CASE k \in DOMAIN store
    <2>1. Full * lost'[k] = Full * lost[k] + Full
      BY <1>1, <1>4, SpentTypes
    <2>2. QED
      BY <1>1, <1>2, <1>3, <2>1, SpentTypes, FullType
  <1>5. CASE k \notin DOMAIN store
    <2>1. Level[k] = Full /\ lost'[k] = lost[k]
      BY <1>1, <1>5, LevelOf
    <2>2. QED
      BY <1>1, <1>2, <1>3, <2>1
  <1>6. QED
    BY <1>4, <1>5

LEMMA NextSpent ==
  ASSUME TtlCoversRefill
  PROVE  Coherent /\ Spent /\ [Next]_vars => Spent'
  <1> SUFFICES ASSUME Coherent, Spent, [Next]_vars, NEW k \in Keys
               PROVE  served'[k] * Cost + Level[k]' <= Allowance(k)'
    BY DEF Spent
  <1>1. Full \in Nat /\ RefillPerTick \in Nat
    BY Parameters, FullType
  <1>2. Coherent'
    BY NextCoherent
  <1>3. served[k] * Cost + Level[k] <= Allowance(k)
    BY DEF Spent
  <1>4. ASSUME NEW j \in Keys, Reject(j)
        PROVE  served'[k] * Cost + Level[k]' <= Allowance(k)'
    <2>1. UNCHANGED <<served, Elapsed, lost>> /\ Level' = Level
      BY <1>4, RejectStutters DEF Reject, Elapsed
    <2>2. QED
      BY <1>3, <2>1 DEF Allowance
  <1>5. ASSUME Tick
        PROVE  served'[k] * Cost + Level[k]' <= Allowance(k)'
    <2>1. DateHistory /\ mono' = mono + 1 /\ mono \in Nat
      BY <1>5 DEF Tick, Coherent, TypeOK
    <2>2. Level[k]' = TB!Refilled(Level[k])
      BY <1>5, TickElapses DEF TB!Elapse
    <2>3. Level[k]' <= Level[k] + RefillPerTick /\ Level[k]' \in 0 .. Full
      BY <1>1, <2>2, SpentTypes DEF TB!Refilled
    <2>4. RefillPerTick * (mono' - mono) = RefillPerTick
      BY <1>1, <2>1
    <2>5. QED
      BY <1>2, <2>1, <2>3, <2>4, DateHistorySpent
  <1>6. ASSUME NEW d \in ClockSteps, StepWall(d)
        PROVE  served'[k] * Cost + Level[k]' <= Allowance(k)'
    <2>1. DateHistory /\ mono' = mono /\ store' = store /\ mono \in Nat
      BY <1>6 DEF StepWall, Coherent, TypeOK
    <2>2. Level[k]' = Level[k] /\ RefillPerTick * (mono' - mono) = 0
      BY <1>1, <2>1 DEF Level, RefilledTokens
    <2>3. Level[k]' <= Level[k] + RefillPerTick * (mono' - mono)
          /\ Level[k]' \in 0 .. Full
      BY <2>2, SpentTypes
    <2>4. QED
      BY <1>2, <2>1, <2>3, DateHistorySpent
  <1>7. CASE UNCHANGED vars
    <2>1. UNCHANGED <<served, Elapsed, Level, lost>>
      BY <1>7 DEF vars, Elapsed, Level, RefilledTokens
    <2>2. QED
      BY <1>3, <2>1 DEF Allowance
  <1>8. QED
    BY <1>4, <1>5, <1>6, <1>7, AdmitSpent, RestartSpent DEF Next

(* No client is served more since a change of date than a burst, another   *)
(* for each time the cap or a restart took its bucket, and what the rate   *)
(* yields in the time since, for every rate, limit, cap and number of      *)
(* clients, and however its bucket comes and goes.                         *)
THEOREM RateConformanceHolds ==
  ASSUME TtlCoversRefill
  PROVE  Spec => []RateConformance
  <1>1. Init => Spent
    <2> SUFFICES ASSUME Init, NEW k \in Keys
                 PROVE  served[k] * Cost + Level[k] <= Allowance(k)
      BY DEF Spent
    <2>1. served[k] = 0 /\ lost[k] = 0 /\ Level[k] = Full /\ Elapsed = 0
      BY DEF Init, EmptyStore, Level, Elapsed
    <2>2. served[k] * Cost = 0 /\ RefillPerTick * Elapsed = 0 /\ Full * lost[k] = 0
      BY <2>1, Parameters, FullType
    <2>3. QED
      BY <2>1, <2>2, FullType DEF Allowance
  <1>2. Coherent /\ Spent => RateConformance
    <2> SUFFICES ASSUME Coherent, Spent, NEW k \in Keys
                 PROVE  served[k] * Cost
                          <= Full + Full * lost[k] + RefillPerTick * (mono - since)
      BY DEF RateConformance
    <2>1. served[k] * Cost + Level[k] <= Full + Full * lost[k] + RefillPerTick * Elapsed
      BY DEF Spent, Allowance
    <2>2. served[k] * Cost <= Full + Full * lost[k] + RefillPerTick * Elapsed
      BY <2>1, SpentTypes, FullType
    <2>3. QED
      BY <2>2 DEF Elapsed
  <1>3. Coherent /\ Spent /\ [Next]_vars => Spent'
    BY NextSpent
  <1>4. QED
    BY <1>1, <1>2, <1>3, SpecCoherent, PTL DEF Spec
=============================================================================
