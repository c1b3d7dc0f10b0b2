------------------------- MODULE RateLimiterProofs -------------------------
(***************************************************************************)
(* For every number of clients, every rate, limit, cap and TTL, and every  *)
(* way the clocks move: the store stays below its cap, the daily ceiling   *)
(* fails only through a deleted bucket, and Retry-After is exactly the     *)
(* wait that suffices.                                                     *)
(***************************************************************************)
EXTENDS RateLimiterProperties, FiniteSetTheorems, TLAPS

(***************************************************************************)
(* The arithmetic of one bucket.                                           *)
(***************************************************************************)

LEMMA Parameters ==
  /\ Burst \in Nat \ {0} /\ Cost \in Nat \ {0} /\ RefillPerTick \in Nat \ {0}
  /\ TicksPerSecond \in Nat \ {0} /\ DailyLimit \in Nat \ {0} /\ StoreCap \in Nat \ {0}
  /\ TicksPerDay \in Nat \ {0} /\ IdleTtl \in Nat /\ SweepInterval \in Nat
  /\ MaxTime \in Nat /\ ClockSteps \subseteq Int
  BY LimiterParameters

LEMMA ProductNat == \A a, b \in Nat : a * b \in Nat
  OBVIOUS

LEMMA FullType == Full \in Nat /\ Cost <= Full
  <1>1. Cost \in Nat /\ Burst \in Nat /\ Burst >= 1
    BY Parameters
  <1>2. Burst * Cost = Cost + (Burst - 1) * Cost /\ Burst - 1 \in Nat
    BY <1>1
  <1>3. (Burst - 1) * Cost \in Nat
    BY <1>1, <1>2, ProductNat
  <1>4. QED
    BY <1>1, <1>2, <1>3, ProductNat DEF Full

LEMMA DateType == ASSUME NEW w \in Nat PROVE Date(w) \in Nat
  BY Parameters DEF Date

LEMMA CeilDivType == ASSUME NEW a \in Int, NEW b \in Nat \ {0} PROVE CeilDiv(a, b) \in Int
  BY DEF CeilDiv

(* A bucket as the code leaves it: typed, last seen when it was refilled,  *)
(* locked exactly at the limit.                                            *)
Sound(b, m) ==
  /\ b \in BucketState
  /\ b.last_refill_ts = b.last_seen_ts /\ b.last_seen_ts <= m
  /\ b.daily_exceeded <=> b.daily_count = DailyLimit

LEMMA FreshSound ==
  ASSUME NEW m \in Nat, NEW w \in Nat
  PROVE  Sound(FreshBucket(m, w), m) /\ FreshBucket(m, w).tokens = Full
  BY Parameters, FullType, DateType DEF Sound, FreshBucket, BucketState

LEMMA RefilledTokensType ==
  ASSUME NEW m \in Nat, NEW b, Sound(b, m)
  PROVE  /\ (m - b.last_refill_ts) * RefillPerTick \in Nat
         /\ RefilledTokens(b, m) \in 0 .. Full
         /\ b.last_refill_ts = m => RefilledTokens(b, m) = b.tokens
  <1>1. m - b.last_refill_ts \in Nat /\ b.tokens \in 0 .. Full
    BY DEF Sound, BucketState
  <1>2. (m - b.last_refill_ts) * RefillPerTick \in Nat
    BY <1>1, Parameters, ProductNat
  <1>3. RefilledTokens(b, m) \in 0 .. Full
    BY <1>1, <1>2, FullType DEF RefilledTokens, Smaller
  <1>4. ASSUME b.last_refill_ts = m PROVE RefilledTokens(b, m) = b.tokens
    <2>1. m - b.last_refill_ts = 0
      BY <1>4
    <2>2. (m - b.last_refill_ts) * RefillPerTick = 0
      BY <2>1, Parameters
    <2>3. QED
      BY <1>1, <2>2, FullType DEF RefilledTokens, Smaller
  <1>5. QED
    BY <1>2, <1>3, <1>4

LEMMA TouchedSound ==
  ASSUME NEW m \in Nat, NEW w \in Nat, NEW b, Sound(b, m)
  PROVE  /\ Sound(Touched(b, m, w), m)
         /\ Touched(b, m, w).tokens = RefilledTokens(b, m)
         /\ Touched(b, m, w).last_seen_ts = m
         /\ Touched(b, m, w).daily_date = Date(w)
         /\ Touched(b, m, w).daily_count =
              IF b.daily_date = Date(w) THEN b.daily_count ELSE 0
  <1> DEFINE r == RollDate(b, w)
  <1>1. /\ r \in BucketState
        /\ r.last_refill_ts = b.last_refill_ts /\ r.last_seen_ts = b.last_seen_ts
        /\ r.tokens = b.tokens /\ r.daily_date = Date(w)
        /\ r.daily_count = IF b.daily_date = Date(w) THEN b.daily_count ELSE 0
        /\ r.daily_exceeded <=> r.daily_count = DailyLimit
    <2>1. b \in BucketState /\ (b.daily_exceeded <=> b.daily_count = DailyLimit)
      BY DEF Sound
    <2>2. CASE b.daily_date = Date(w)
      BY <2>1, <2>2 DEF RollDate
    <2>3. CASE b.daily_date # Date(w)
      <3> DEFINE c == [tokens |-> b.tokens, last_refill_ts |-> b.last_refill_ts,
                       daily_count |-> 0, daily_date |-> Date(w),
                       last_seen_ts |-> b.last_seen_ts, daily_exceeded |-> FALSE]
      <3>1. r = c
        BY <2>1, <2>3 DEF RollDate, BucketState
      <3>2. Date(w) \in Nat /\ 0 \in 0 .. DailyLimit /\ DailyLimit # 0
        BY DateType, Parameters
      <3>3. c \in BucketState
        BY <2>1, <3>2 DEF BucketState
      <3>4. ~c.daily_exceeded /\ c.daily_count # DailyLimit
        BY <3>2
      <3> HIDE DEF r
      <3>5. QED
        BY <2>3, <3>1, <3>3, <3>4
    <2>4. QED
      BY <2>2, <2>3
  <1>2. RefilledTokens(r, m) = RefilledTokens(b, m)
    BY <1>1 DEF RefilledTokens
  <1>3. RefilledTokens(b, m) \in 0 .. Full
    BY RefilledTokensType
  <1> DEFINE q == Refill(r, m)
  <1>4. /\ q \in BucketState /\ q.last_refill_ts = m /\ q.tokens = RefilledTokens(b, m)
        /\ q.daily_date = r.daily_date /\ q.daily_count = r.daily_count
        /\ q.daily_exceeded = r.daily_exceeded
    <2>1. CASE m > b.last_refill_ts
      <3>1. q = [r EXCEPT !.tokens = RefilledTokens(b, m), !.last_refill_ts = m]
        BY <1>1, <1>2, <2>1 DEF Refill
      <3>2. QED
        BY <1>1, <1>3, <3>1 DEF BucketState
    <2>2. CASE ~(m > b.last_refill_ts)
      <3>1. b.last_refill_ts = m
        BY <2>2 DEF Sound, BucketState
      <3>2. RefilledTokens(b, m) = b.tokens
        BY <3>1, RefilledTokensType
      <3>3. q = r
        BY <1>1, <2>2 DEF Refill
      <3>4. QED
        BY <1>1, <3>1, <3>2, <3>3
    <2>3. QED
      BY <2>1, <2>2
  <1>5. Touched(b, m, w) = [q EXCEPT !.last_seen_ts = m]
    BY DEF Touched
  <1> HIDE DEF q, r
  <1>6. /\ Touched(b, m, w) \in BucketState
        /\ Touched(b, m, w).last_refill_ts = m /\ Touched(b, m, w).last_seen_ts = m
        /\ Touched(b, m, w).tokens = q.tokens
        /\ Touched(b, m, w).daily_date = q.daily_date
        /\ Touched(b, m, w).daily_count = q.daily_count
        /\ Touched(b, m, w).daily_exceeded = q.daily_exceeded
    BY <1>4, <1>5 DEF BucketState
  <1>7. Sound(Touched(b, m, w), m)
    BY <1>1, <1>4, <1>6 DEF Sound
  <1>8. QED
    BY <1>1, <1>4, <1>6, <1>7

LEMMA ChargeSound ==
  ASSUME NEW m \in Nat, NEW b, Sound(b, m), Admissible(b)
  PROVE  /\ Sound(Charge(b), m)
         /\ Charge(b).tokens = b.tokens - Cost
         /\ Charge(b).daily_count = b.daily_count + 1
         /\ Charge(b).daily_date = b.daily_date
         /\ Charge(b).last_refill_ts = b.last_refill_ts
         /\ Charge(b).last_seen_ts = b.last_seen_ts
  <1> DEFINE e == b.daily_exceeded \/ b.daily_count + 1 >= DailyLimit
             c == [tokens |-> b.tokens - Cost, last_refill_ts |-> b.last_refill_ts,
                   daily_count |-> b.daily_count + 1, daily_date |-> b.daily_date,
                   last_seen_ts |-> b.last_seen_ts, daily_exceeded |-> e]
  <1>1. /\ b \in BucketState /\ b.tokens >= Cost /\ b.daily_count < DailyLimit
        /\ b.last_refill_ts = b.last_seen_ts /\ b.last_seen_ts <= m
        /\ b.daily_exceeded <=> b.daily_count = DailyLimit
    BY DEF Sound, Admissible
  <1>2. Charge(b) = c
    <2>1. Charge(b) = [b EXCEPT !.tokens = @ - Cost, !.daily_count = @ + 1,
                                !.daily_exceeded = e]
      BY DEF Charge
    <2> HIDE DEF e
    <2>2. QED
      BY <1>1, <2>1 DEF BucketState
  <1>3. b.tokens - Cost \in 0 .. Full /\ b.daily_count + 1 \in 0 .. DailyLimit
    BY <1>1, Parameters, FullType DEF BucketState
  <1>4. c \in BucketState
    <2>1. e \in BOOLEAN
      OBVIOUS
    <2> HIDE DEF e
    <2>2. QED
      BY <1>1, <1>3, <2>1 DEF BucketState
  <1>5. c.daily_exceeded <=> c.daily_count = DailyLimit
    <2>1. b.daily_count \in Nat /\ ~b.daily_exceeded
      BY <1>1, Parameters DEF BucketState
    <2>2. b.daily_count + 1 >= DailyLimit <=> b.daily_count + 1 = DailyLimit
      BY <1>1, <2>1, Parameters
    <2>3. QED
      BY <2>1, <2>2
  <1> HIDE DEF c
  <1>6. Sound(c, m)
    <2>1. c.last_refill_ts = b.last_refill_ts /\ c.last_seen_ts = b.last_seen_ts
      BY DEF c
    <2>2. QED
      BY <1>1, <1>4, <1>5, <2>1 DEF Sound
  <1>7. QED
    BY <1>2, <1>6 DEF c

LEMMA RetryAfterType ==
  ASSUME NEW m \in Nat, NEW w \in Nat, NEW b, Sound(b, m)
  PROVE  RetryAfter(b, w) \in Nat \ {0} /\ SecondsToUtcMidnight(w) \in Nat \ {0}
  <1>1. RefillPerTick * TicksPerSecond \in Nat \ {0}
    <2>1. RefillPerTick * TicksPerSecond \in Nat
      BY Parameters, ProductNat
    <2>2. RefillPerTick * TicksPerSecond # 0
      BY Parameters
    <2>3. QED
      BY <2>1, <2>2
  <1>2. SecondsToToken(b) \in Nat \ {0}
    <2>1. Cost - b.tokens \in Int
      BY Parameters DEF Sound, BucketState
    <2>2. CeilDiv(Cost - b.tokens, RefillPerTick * TicksPerSecond) \in Int
      BY <1>1, <2>1, CeilDivType
    <2>3. QED
      BY <2>2 DEF SecondsToToken, Larger
  <1>3. SecondsToUtcMidnight(w) \in Nat \ {0}
    <2>1. TicksPerDay - (w % TicksPerDay) \in Int
      BY Parameters
    <2>2. CeilDiv(TicksPerDay - (w % TicksPerDay), TicksPerSecond) \in Int
      BY <2>1, CeilDivType, Parameters
    <2>3. QED
      BY <2>2 DEF SecondsToUtcMidnight, Larger
  <1>4. QED
    BY <1>2, <1>3 DEF RetryAfter, Larger

(***************************************************************************)
(* Type correctness, and the two facts about buckets every other proof     *)
(* starts from.                                                            *)
(***************************************************************************)

LEMMA SoundBuckets ==
  ASSUME Coherent, NEW k \in DOMAIN store
  PROVE  Sound(store[k], mono) /\ k \in Keys
  BY DEF Coherent, TypeOK, BucketsCoherent, Sound

LEMMA HeldSound ==
  ASSUME Coherent, NEW k \in Keys
  PROVE  /\ Sound(Held(k), mono)
         /\ Held(k).tokens = IF k \in Survivors THEN RefilledTokens(store[k], mono) ELSE Full
         /\ Held(k).last_seen_ts = mono /\ Held(k).daily_date = Date(wall)
         /\ Held(k).daily_count =
              IF k \in Survivors /\ store[k].daily_date = Date(wall)
              THEN store[k].daily_count ELSE 0
  <1> DEFINE base == IF k \in Survivors THEN store[k] ELSE FreshBucket(mono, wall)
  <1>1. mono \in Nat /\ wall \in Nat
    BY DEF Coherent, TypeOK
  <1>2. CASE k \in Survivors
    <2>1. base = store[k] /\ k \in DOMAIN store
      BY <1>2 DEF Survivors
    <2>2. Sound(base, mono)
      BY <2>1, SoundBuckets
    <2>3. Held(k) = Touched(base, mono, wall)
      BY DEF Held
    <2> HIDE DEF base
    <2>4. QED
      BY <1>1, <1>2, <2>1, <2>2, <2>3, TouchedSound
  <1>3. CASE k \notin Survivors
    <2>1. base = FreshBucket(mono, wall)
      BY <1>3
    <2>2. Sound(base, mono) /\ base.tokens = Full /\ base.daily_count = 0
          /\ base.last_refill_ts = mono
      BY <1>1, <2>1, FreshSound DEF FreshBucket
    <2>3. Held(k) = Touched(base, mono, wall)
      BY DEF Held
    <2> HIDE DEF base
    <2>4. RefilledTokens(base, mono) = Full
      BY <1>1, <2>2, RefilledTokensType
    <2>5. QED
      BY <1>1, <1>3, <2>2, <2>3, <2>4, TouchedSound
  <1>4. QED
    BY <1>2, <1>3

(* What a request leaves in the store: its own bucket and survivors, and   *)
(* every bucket that went is in forgotten.                                 *)
LEMMA WriteKeeps ==
  ASSUME Coherent, NEW k \in Keys, NEW b, Sound(b, mono), Write(k, b)
  PROVE  /\ DOMAIN store' \subseteq Survivors \cup {k}
         /\ \A x \in DOMAIN store' : store'[x] = IF x = k THEN b ELSE store[x]
         /\ \A x \in DOMAIN store' : Sound(store'[x], mono) /\ x \in Keys
         /\ (DOMAIN store \cup {k}) \ DOMAIN store' \subseteq forgotten'
         /\ DOMAIN store \ Survivors \subseteq forgotten'
         /\ forgotten \subseteq forgotten' /\ forgotten' \subseteq Keys
         /\ lost' \in [Keys -> Nat]
         /\ lastSweep' \in Nat /\ lastSweep' <= mono
  <1>1. PICK E \in CapVictims(k) :
          /\ store' = [x \in (Survivors \cup {k}) \ E |-> IF x = k THEN b ELSE store[x]]
          /\ lastSweep' = IF SweepDue THEN mono ELSE lastSweep
          /\ forgotten' = forgotten \cup (DOMAIN store \ Survivors) \cup E
          /\ lost' = [x \in Keys |-> IF x \in E THEN lost[x] + 1 ELSE lost[x]]
    BY DEF Write
  <1>2. E \subseteq Survivors \cup {k}
    BY DEF CapVictims, OldestBatches
  <1>3. Survivors \subseteq DOMAIN store /\ DOMAIN store \subseteq Keys
    BY DEF Survivors, Coherent, TypeOK
  <1>4. DOMAIN store' = (Survivors \cup {k}) \ E
    BY <1>1
  <1>5. \A x \in DOMAIN store' : store'[x] = IF x = k THEN b ELSE store[x]
    BY <1>1, <1>4
  <1>6. \A x \in DOMAIN store' : Sound(store'[x], mono) /\ x \in Keys
    <2>1. TAKE x \in DOMAIN store'
    <2>2. CASE x = k
      BY <1>5, <2>2
    <2>3. CASE x # k
      <3>1. x \in DOMAIN store /\ store'[x] = store[x]
        BY <1>3, <1>4, <1>5, <2>3
      <3>2. QED
        BY <3>1, SoundBuckets
    <2>4. QED
      BY <2>2, <2>3
  <1>7. lastSweep' \in Nat /\ lastSweep' <= mono
    BY <1>1 DEF Coherent, TypeOK, BucketsCoherent
  <1>8. (DOMAIN store \cup {k}) \ DOMAIN store' \subseteq forgotten'
    BY <1>1, <1>4
  <1>9. DOMAIN store \ Survivors \subseteq forgotten' /\ forgotten \subseteq forgotten'
    BY <1>1
  <1>10. forgotten' \subseteq Keys
    BY <1>1, <1>2, <1>3 DEF Coherent, TypeOK
  <1>11. lost' \in [Keys -> Nat]
    BY <1>1 DEF Coherent, TypeOK
  <1>12. QED
    BY <1>2, <1>3, <1>4, <1>5, <1>6, <1>7, <1>8, <1>9, <1>10, <1>11

LEMMA ComeBackType ==
  ASSUME Coherent, NEW k \in Keys
  PROVE  mono + RetryAfter(Held(k), wall) * TicksPerSecond \in Nat
  <1>1. mono \in Nat /\ wall \in Nat
    BY DEF Coherent, TypeOK
  <1>2. RetryAfter(Held(k), wall) \in Nat
    BY <1>1, HeldSound, RetryAfterType
  <1>3. RetryAfter(Held(k), wall) * TicksPerSecond \in Nat
    BY <1>2, Parameters, ProductNat
  <1>4. QED
    BY <1>1, <1>3

LEMMA InitCoherent == Init => Coherent
  <1> SUFFICES ASSUME Init PROVE Coherent
    OBVIOUS
  <1>1. DOMAIN store = {}
    BY DEF Init, EmptyStore
  <1>2. {mono, wall, lastSweep, since, steps, restarts} \subseteq Nat
    BY Parameters DEF Init
  <1>3. /\ served \in [Keys -> Nat] /\ promise \in [Keys -> Nat]
        /\ forgotten \subseteq Keys /\ lost \in [Keys -> Nat]
    BY DEF Init
  <1>4. lastSweep <= mono /\ since <= mono
    BY DEF Init
  <1>5. QED
    BY <1>1, <1>2, <1>3, <1>4 DEF Coherent, TypeOK, BucketsCoherent

LEMMA NextCoherent == Coherent /\ [Next]_vars => Coherent'
  <1> SUFFICES ASSUME Coherent, [Next]_vars PROVE Coherent'
    OBVIOUS
  <1>1. ASSUME NEW k \in Keys, Admit(k) PROVE Coherent'
    <2>1. Sound(Charge(Held(k)), mono) /\ Write(k, Charge(Held(k)))
      BY <1>1, HeldSound, ChargeSound DEF Admit, Coherent, TypeOK
    <2>2. UNCHANGED <<mono, wall, steps, restarts, since>>
      BY <1>1 DEF Admit
    <2>3. served' \in [Keys -> Nat]
      BY <1>1 DEF Admit, Coherent, TypeOK
    <2>4. promise' \in [Keys -> Nat]
      BY <1>1 DEF Admit, Coherent, TypeOK
    <2>5. \A x \in DOMAIN store' : Sound(store'[x], mono) /\ x \in Keys
      BY <2>1, WriteKeeps
    <2>6. /\ lastSweep' \in Nat /\ lastSweep' <= mono
          /\ forgotten' \subseteq Keys /\ lost' \in [Keys -> Nat]
      BY <2>1, WriteKeeps
    <2>7. TypeOK'
      BY <2>2, <2>3, <2>4, <2>5, <2>6 DEF Coherent, TypeOK, Sound
    <2>8. BucketsCoherent'
      BY <2>2, <2>5, <2>6 DEF Coherent, BucketsCoherent, Sound
    <2>9. QED
      BY <2>7, <2>8 DEF Coherent
  <1>2. ASSUME NEW k \in Keys, Reject(k) PROVE Coherent'
    <2>1. Sound(Held(k), mono) /\ Write(k, Held(k))
      BY <1>2, HeldSound DEF Reject
    <2>2. UNCHANGED <<mono, wall, steps, restarts, since, served>>
      BY <1>2 DEF Reject
    <2>3. promise' \in [Keys -> Nat]
      <3> DEFINE comeBack == mono + RetryAfter(Held(k), wall) * TicksPerSecond
      <3>1. comeBack \in Nat
        BY ComeBackType
      <3>2. promise' = [promise EXCEPT ![k] =
                          IF @ = 0 THEN comeBack ELSE Smaller(@, comeBack)]
        BY <1>2 DEF Reject
      <3> HIDE DEF comeBack
      <3>3. QED
        BY <3>1, <3>2 DEF Coherent, TypeOK, Smaller
    <2>4. \A x \in DOMAIN store' : Sound(store'[x], mono) /\ x \in Keys
      BY <2>1, WriteKeeps
    <2>5. /\ lastSweep' \in Nat /\ lastSweep' <= mono
          /\ forgotten' \subseteq Keys /\ lost' \in [Keys -> Nat]
      BY <2>1, WriteKeeps
    <2>6. TypeOK'
      BY <2>2, <2>3, <2>4, <2>5 DEF Coherent, TypeOK, Sound
    <2>7. BucketsCoherent'
      BY <2>2, <2>4, <2>5 DEF Coherent, BucketsCoherent, Sound
    <2>8. QED
      BY <2>6, <2>7 DEF Coherent
  <1>3. ASSUME DateHistory, mono' \in Nat, mono' >= mono
        PROVE  /\ since' \in Nat /\ since' <= mono'
               /\ served' \in [Keys -> Nat] /\ forgotten' \subseteq Keys
               /\ lost' \in [Keys -> Nat]
    BY <1>3 DEF DateHistory, Coherent, TypeOK, BucketsCoherent
  <1>4. CASE Tick
    <2>1. /\ mono' = mono + 1 /\ wall' = wall + 1 /\ DateHistory
          /\ UNCHANGED <<store, lastSweep, steps, restarts, promise>>
      BY <1>4 DEF Tick
    <2>2. mono \in Nat /\ wall \in Nat
      BY DEF Coherent, TypeOK
    <2>3. /\ since' \in Nat /\ since' <= mono'
          /\ served' \in [Keys -> Nat] /\ forgotten' \subseteq Keys
          /\ lost' \in [Keys -> Nat]
      BY <1>3, <2>1, <2>2
    <2>4. TypeOK'
      BY <2>1, <2>2, <2>3 DEF Coherent, TypeOK
    <2>5. \A k \in DOMAIN store' : store'[k].last_seen_ts <= mono'
      <3>1. TAKE k \in DOMAIN store'
      <3>2. store[k].last_seen_ts \in Nat /\ store[k].last_seen_ts <= mono
        BY <2>1, <3>1 DEF Coherent, TypeOK, BucketsCoherent, BucketState
      <3>3. QED
        BY <2>1, <2>2, <3>2
    <2>6. BucketsCoherent'
      BY <2>1, <2>2, <2>3, <2>5 DEF Coherent, TypeOK, BucketsCoherent
    <2>7. QED
      BY <2>4, <2>6 DEF Coherent
  <1>5. ASSUME NEW d \in ClockSteps, StepWall(d) PROVE Coherent'
    <2>1. /\ wall' = wall + d /\ wall + d >= 0 /\ steps' = steps + 1 /\ DateHistory
          /\ promise' = [k \in Keys |-> 0]
          /\ UNCHANGED <<store, lastSweep, mono, restarts>>
      BY <1>5 DEF StepWall
    <2>2. d \in Int /\ wall \in Nat /\ mono \in Nat /\ steps \in Nat
      BY Parameters DEF Coherent, TypeOK
    <2>3. /\ since' \in Nat /\ since' <= mono'
          /\ served' \in [Keys -> Nat] /\ forgotten' \subseteq Keys
          /\ lost' \in [Keys -> Nat]
      BY <1>3, <2>1, <2>2
    <2>4. promise' \in [Keys -> Nat] /\ wall' \in Nat
      BY <2>1, <2>2
    <2>5. TypeOK'
      BY <2>1, <2>2, <2>3, <2>4 DEF Coherent, TypeOK
    <2>6. BucketsCoherent'
      BY <2>1, <2>3 DEF Coherent, BucketsCoherent
    <2>7. QED
      BY <2>5, <2>6 DEF Coherent
  <1>6. CASE Restart
    <2>1. /\ DOMAIN store' = {} /\ lastSweep' = 0 /\ restarts' = restarts + 1
          /\ forgotten' = forgotten \cup DOMAIN store
          /\ lost' = [k \in Keys |-> IF k \in DOMAIN store THEN lost[k] + 1 ELSE lost[k]]
          /\ UNCHANGED <<mono, wall, steps, since, served, promise>>
      BY <1>6 DEF Restart, EmptyStore
    <2>2. forgotten' \subseteq Keys /\ lost' \in [Keys -> Nat]
      BY <2>1 DEF Coherent, TypeOK
    <2>3. TypeOK' /\ BucketsCoherent'
      BY <2>1, <2>2 DEF Coherent, TypeOK, BucketsCoherent
    <2>4. QED
      BY <2>3 DEF Coherent
  <1>7. CASE UNCHANGED vars
    BY <1>7 DEF Coherent, TypeOK, BucketsCoherent, vars
  <1>8. QED
    BY <1>1, <1>2, <1>4, <1>5, <1>6, <1>7 DEF Next

(* Buckets stay within their bounds, flag the daily limit exactly when it  *)
(* is reached, and are never ahead of the clock.                           *)
THEOREM SpecCoherent == Spec => []Coherent
  BY InitCoherent, NextCoherent, PTL DEF Spec

(* However requests, sweeps, evictions and clock steps interleave, every   *)
(* bucket holds between 0 and BURST tokens and counts at most DAILY_LIMIT  *)
(* admissions.                                                             *)
THEOREM TypeCorrect == Spec => []TypeOK
  <1>1. Coherent => TypeOK
    BY DEF Coherent
  <1>2. QED
    BY <1>1, SpecCoherent, PTL

(* daily_exceeded is set exactly while the counter is at the limit, and no *)
(* timestamp of a bucket runs ahead of the monotonic clock.                *)
THEOREM BucketsStayCoherent == Spec => []BucketsCoherent
  <1>1. Coherent => BucketsCoherent
    BY DEF Coherent
  <1>2. QED
    BY <1>1, SpecCoherent, PTL

(***************************************************************************)
(* The cap (RATE-04).                                                      *)
(***************************************************************************)

LEMMA KeysFinite == ASSUME NEW S, S \subseteq Keys PROVE IsFiniteSet(S)
  BY LimiterParameters, FS_Subset

(* A batch is never empty, so an eviction really makes room.               *)
LEMMA BatchNotEmpty ==
  ASSUME NEW S, IsFiniteSet(S), NEW k, NEW E \in OldestBatches(S, k)
  PROVE  E \subseteq S /\ E # {}
  <1>1. E \subseteq S /\ Cardinality(E) = EvictCount(Cardinality(S))
    BY DEF OldestBatches
  <1>2. EvictCount(Cardinality(S)) # 0
    BY FS_CardinalityType DEF EvictCount, Larger
  <1>3. QED
    BY <1>1, <1>2, FS_EmptySet

LEMMA WriteBelowCap ==
  ASSUME Coherent, StoreBelowCap, NEW k \in Keys, NEW b, Write(k, b)
  PROVE  StoreBelowCap'
  <1> DEFINE grown == Survivors \cup {k}
  <1>1. Survivors \subseteq DOMAIN store /\ DOMAIN store \subseteq Keys /\ grown \subseteq Keys
    BY DEF Survivors, Coherent, TypeOK
  <1>2. /\ IsFiniteSet(DOMAIN store) /\ IsFiniteSet(Survivors) /\ IsFiniteSet(grown)
    BY <1>1, KeysFinite
  <1>3. PICK E \in CapVictims(k) : DOMAIN store' = grown \ E
    BY DEF Write
  <1>4. /\ Cardinality(DOMAIN store) \in Nat /\ Cardinality(Survivors) \in Nat
        /\ Cardinality(grown) \in Nat /\ Cardinality(DOMAIN store) < StoreCap
        /\ StoreCap \in Nat
    BY <1>2, FS_CardinalityType, Parameters DEF StoreBelowCap
  <1>5. Cardinality(Survivors) <= Cardinality(DOMAIN store)
    BY <1>1, <1>2, FS_Subset
  <1>6. Cardinality(grown) <= Cardinality(Survivors) + 1
    BY <1>2, <1>4, FS_AddElement
  <1>7. CASE k \in Survivors
    <2>1. E = {} /\ grown = Survivors
      BY <1>7 DEF CapVictims
    <2>2. DOMAIN store' = Survivors
      BY <1>3, <2>1
    <2>3. QED
      BY <1>4, <1>5, <2>2 DEF StoreBelowCap
  <1>8. CASE Cardinality(grown) < StoreCap
    <2>1. E = {}
      BY <1>8 DEF CapVictims
    <2>2. DOMAIN store' = grown
      BY <1>3, <2>1
    <2>3. QED
      BY <1>8, <2>2 DEF StoreBelowCap
  <1>9. CASE k \notin Survivors /\ ~(Cardinality(grown) < StoreCap)
    <2>1. E \in OldestBatches(grown, k)
      BY <1>9 DEF CapVictims
    <2>2. E \subseteq grown /\ E # {}
      BY <1>2, <2>1, BatchNotEmpty
    <2>3. grown \ E \subseteq grown /\ grown \ E # grown
      BY <2>2
    <2>4. /\ IsFiniteSet(grown \ E)
          /\ Cardinality(grown \ E) <= Cardinality(grown)
          /\ Cardinality(grown) # Cardinality(grown \ E)
      BY <1>2, <2>3, FS_Subset
    <2>5. Cardinality(grown \ E) \in Nat
      BY <2>4, FS_CardinalityType
    <2>6. QED
      BY <1>3, <1>4, <1>5, <1>6, <2>4, <2>5 DEF StoreBelowCap
  <1>10. QED
    BY <1>7, <1>8, <1>9

(* Between requests the store is strictly below RATE_STORE_CAP, for every  *)
(* number of clients and every interleaving of their requests.             *)
THEOREM StoreStaysBelowCap == Spec => []StoreBelowCap
  <1>1. Init => StoreBelowCap
    BY FS_EmptySet, Parameters DEF Init, EmptyStore, StoreBelowCap
  <1>2. Coherent /\ StoreBelowCap /\ [Next]_vars => StoreBelowCap'
    <2> SUFFICES ASSUME Coherent, StoreBelowCap, [Next]_vars PROVE StoreBelowCap'
      OBVIOUS
    <2>1. ASSUME NEW k \in Keys, Admit(k) PROVE StoreBelowCap'
      BY <2>1, WriteBelowCap DEF Admit
    <2>2. ASSUME NEW k \in Keys, Reject(k) PROVE StoreBelowCap'
      BY <2>2, WriteBelowCap DEF Reject
    <2>3. ASSUME UNCHANGED store PROVE StoreBelowCap'
      BY <2>3 DEF StoreBelowCap
    <2>4. Tick => UNCHANGED store
      BY DEF Tick
    <2>5. \A d \in ClockSteps : StepWall(d) => UNCHANGED store
      BY DEF StepWall
    <2>6. UNCHANGED vars => UNCHANGED store
      BY DEF vars
    <2>7. CASE Restart
      BY <2>7, FS_EmptySet, Parameters DEF Restart, EmptyStore, StoreBelowCap
    <2>8. QED
      BY <2>1, <2>2, <2>3, <2>4, <2>5, <2>6, <2>7 DEF Next
  <1>3. QED
    BY <1>1, <1>2, SpecCoherent, PTL DEF Spec

(* A batch is at most a hundredth of the store, or one entry, and the sort *)
(* puts the newest entry last: it is only evicted if it is alone.          *)
LEMMA NewestSurvives ==
  ASSUME Coherent, StoreCap > 1, NEW k \in Keys, NEW E \in CapVictims(k)
  PROVE  k \notin E
  <1> DEFINE grown == Survivors \cup {k}
             n == Cardinality(grown)
  <1>1. SUFFICES ASSUME k \in E PROVE FALSE
    OBVIOUS
  <1>2. /\ k \notin Survivors /\ ~(n < StoreCap) /\ E \in OldestBatches(grown, k)
    BY <1>1 DEF CapVictims
  <1>3. /\ E \subseteq grown /\ Cardinality(E) = EvictCount(n)
        /\ \A x \in E, y \in grown \ E :
             LastSeen(x) < LastSeen(y) \/ (LastSeen(x) = LastSeen(y) /\ x # k)
    BY <1>2 DEF OldestBatches
  <1>4. grown \subseteq Keys /\ IsFiniteSet(grown) /\ n \in Nat
    <2>1. grown \subseteq Keys
      BY DEF Survivors, Coherent, TypeOK
    <2>2. QED
      BY <2>1, KeysFinite, FS_CardinalityType
  <1>5. \A y \in grown : LastSeen(y) \in Int /\ LastSeen(y) <= mono
    BY SoundBuckets DEF LastSeen, Survivors, Coherent, TypeOK, Sound, BucketState
  <1>6. LastSeen(k) = mono
    BY <1>2 DEF LastSeen
  <1>7. grown \ E = {}
    BY <1>1, <1>3, <1>5, <1>6 DEF Coherent, TypeOK
  <1>8. n = EvictCount(n)
    <2>1. E = grown
      BY <1>3, <1>7
    <2>2. QED
      BY <1>3, <2>1
  <1>9. n > 1
    BY <1>2, <1>4, Parameters
  <1> HIDE DEF n
  <1>10. QED
    BY <1>4, <1>8, <1>9 DEF EvictCount, Larger

(* A client that is admitted has its bucket in the store afterwards, with  *)
(* the admission charged to it, however full the store is and whoever is   *)
(* evicted to make room (the code's cap is 100,000).                       *)
THEOREM AdmissionIsRecordedHolds ==
  ASSUME StoreCap > 1
  PROVE  Spec => AdmissionIsRecorded
  <1>1. ASSUME Coherent, [Next]_vars
        PROVE  [\A k \in Keys : served'[k] > served[k] =>
                  /\ k \in DOMAIN store'
                  /\ store'[k].last_seen_ts = mono /\ store'[k].tokens < Full]_vars
    <2> SUFFICES ASSUME Next, NEW k \in Keys, served'[k] > served[k]
                 PROVE  /\ k \in DOMAIN store'
                        /\ store'[k].last_seen_ts = mono /\ store'[k].tokens < Full
      BY <1>1
    <2>1. served[k] \in Nat
      BY <1>1 DEF Coherent, TypeOK
    <2>2. Admit(k)
      <3>1. ASSUME NEW j \in Keys, Admit(j) PROVE j = k
        BY <2>1, <3>1, <1>1 DEF Admit, Coherent, TypeOK
      <3>2. ASSUME NEW j \in Keys, Reject(j) PROVE FALSE
        BY <2>1, <3>2 DEF Reject
      <3>3. ~DateHistory
        BY <2>1 DEF DateHistory
      <3>4. ~Restart
        BY <2>1 DEF Restart
      <3>5. QED
        BY <3>1, <3>2, <3>3, <3>4 DEF Next, Tick, StepWall
    <2> DEFINE b == Charge(Held(k))
    <2>3. b.tokens < Full /\ b.last_seen_ts = mono /\ Write(k, b)
      <3>1. Sound(Held(k), mono) /\ Held(k).last_seen_ts = mono /\ Admissible(Held(k))
        BY <1>1, <2>2, HeldSound DEF Admit
      <3>2. b.tokens = Held(k).tokens - Cost /\ b.last_seen_ts = mono
        BY <1>1, <3>1, ChargeSound DEF Coherent, TypeOK
      <3>3. Held(k).tokens \in 0 .. Full
        BY <3>1 DEF Sound, BucketState
      <3>4. QED
        BY <2>2, <3>2, <3>3, Parameters, FullType DEF Admit
    <2> HIDE DEF b
    <2>4. PICK E \in CapVictims(k) :
            store' = [x \in (Survivors \cup {k}) \ E |-> IF x = k THEN b ELSE store[x]]
      BY <2>3 DEF Write
    <2>5. k \notin E
      BY <1>1, NewestSurvives
    <2>6. QED
      BY <2>3, <2>4, <2>5
  <1>2. QED
    BY <1>1, SpecCoherent, PTL DEF Spec, AdmissionIsRecorded

(***************************************************************************)
(* The daily ceiling.  A bucket of today that was never deleted has        *)
(* counted every request its client was served today.                      *)
(***************************************************************************)

Counted(k) ==
  IF k \in DOMAIN store /\ store[k].daily_date = Date(wall) THEN store[k].daily_count ELSE 0

Accounted == \A k \in Keys \ forgotten : served[k] <= Counted(k)

LEMMA CountedType ==
  ASSUME Coherent, NEW k \in Keys
  PROVE  Counted(k) \in 0 .. DailyLimit
  BY Parameters DEF Counted, Coherent, TypeOK, BucketState

(* The bucket a decision looks at carries the count over, unless its       *)
(* predecessor expired.                                                    *)
LEMMA HeldCounts ==
  ASSUME Coherent, NEW k \in Keys, k \notin DOMAIN store \ Survivors
  PROVE  Held(k).daily_count = Counted(k)
  BY HeldSound DEF Counted, Survivors

LEMMA WriteAccounts ==
  ASSUME Coherent, Accounted, NEW k \in Keys, NEW b, Sound(b, mono), Write(k, b),
         NEW x \in Keys \ forgotten', x # k, UNCHANGED wall
  PROVE  Counted(x)' = Counted(x) /\ x \notin forgotten
  <1>1. x \in DOMAIN store <=> x \in DOMAIN store'
    BY WriteKeeps DEF Survivors
  <1>2. x \in DOMAIN store' => store'[x] = store[x]
    BY WriteKeeps
  <1>3. x \notin forgotten
    BY WriteKeeps
  <1>4. QED
    BY <1>1, <1>2, <1>3 DEF Counted, Date

LEMMA NextAccounted == Coherent /\ Accounted /\ [Next]_vars => Accounted'
  <1> SUFFICES ASSUME Coherent, Accounted, [Next]_vars PROVE Accounted'
    OBVIOUS
  <1> USE DEF Accounted
  <1>1. ASSUME NEW k \in Keys, Admit(k) PROVE Accounted'
    <2> DEFINE b == Charge(Held(k))
    <2>1. Sound(b, mono) /\ Write(k, b) /\ UNCHANGED wall
      BY <1>1, HeldSound, ChargeSound DEF Admit, Coherent, TypeOK
    <2>2. served' = [served EXCEPT ![k] = @ + 1]
      BY <1>1 DEF Admit
    <2>3. SUFFICES ASSUME NEW x \in Keys \ forgotten' PROVE served'[x] <= Counted(x)'
      OBVIOUS
    <2>4. CASE x # k
      <3>1. Counted(x)' = Counted(x) /\ x \notin forgotten
        BY <2>1, <2>4, WriteAccounts
      <3>2. served'[x] = served[x]
        BY <2>2, <2>4 DEF Coherent, TypeOK
      <3>3. QED
        BY <3>1, <3>2
    <2>5. CASE x = k
      <3>1. /\ k \in DOMAIN store' /\ store'[k] = b
            /\ k \notin DOMAIN store \ Survivors /\ k \notin forgotten
        BY <2>1, <2>5, WriteKeeps
      <3>2. b.daily_count = Counted(k) + 1 /\ b.daily_date = Date(wall)
        BY <1>1, <3>1, HeldSound, HeldCounts, ChargeSound DEF Admit, Coherent, TypeOK
      <3>3. Counted(k)' = Counted(k) + 1
        BY <2>1, <3>1, <3>2 DEF Counted, Date
      <3>4. served'[k] = served[k] + 1 /\ served[k] \in Nat /\ served[k] <= Counted(k)
        BY <2>2, <3>1 DEF Coherent, TypeOK
      <3>5. QED
        BY <2>5, <3>3, <3>4, CountedType
    <2>6. QED
      BY <2>4, <2>5
  <1>2. ASSUME NEW k \in Keys, Reject(k) PROVE Accounted'
    <2> DEFINE b == Held(k)
    <2>1. Sound(b, mono) /\ Write(k, b) /\ UNCHANGED <<wall, served>>
      BY <1>2, HeldSound DEF Reject
    <2>2. SUFFICES ASSUME NEW x \in Keys \ forgotten' PROVE served'[x] <= Counted(x)'
      OBVIOUS
    <2>3. CASE x # k
      <3>1. Counted(x)' = Counted(x) /\ x \notin forgotten
        BY <2>1, <2>3, WriteAccounts
      <3>2. QED
        BY <2>1, <3>1
    <2>4. CASE x = k
      <3>1. /\ k \in DOMAIN store' /\ store'[k] = b
            /\ k \notin DOMAIN store \ Survivors /\ k \notin forgotten
        BY <2>1, <2>4, WriteKeeps
      <3>2. b.daily_count = Counted(k) /\ b.daily_date = Date(wall)
        BY <3>1, HeldSound, HeldCounts
      <3>3. Counted(k)' = Counted(k)
        BY <2>1, <3>1, <3>2 DEF Counted, Date
      <3>4. QED
        BY <2>1, <2>4, <3>1, <3>3
    <2>5. QED
      BY <2>3, <2>4
  <1>3. ASSUME DateHistory, UNCHANGED store, Coherent' PROVE Accounted'
    <2>1. SUFFICES ASSUME NEW x \in Keys \ forgotten' PROVE served'[x] <= Counted(x)'
      OBVIOUS
    <2>2. CASE Date(wall') = Date(wall)
      <3>1. UNCHANGED <<served, forgotten>>
        BY <1>3, <2>2 DEF DateHistory
      <3>2. Counted(x)' = Counted(x)
        BY <1>3, <2>2 DEF Counted, Date
      <3>3. QED
        BY <3>1, <3>2
    <2>3. CASE Date(wall') # Date(wall)
      <3>1. served'[x] = 0
        BY <1>3, <2>3 DEF DateHistory
      <3>2. Counted(x)' \in 0 .. DailyLimit
        BY <1>3, Parameters DEF Counted, Coherent, TypeOK, BucketState
      <3>3. QED
        BY <3>1, <3>2, Parameters
    <2>4. QED
      BY <2>2, <2>3
  <1>4. Coherent'
    BY NextCoherent
  <1>5. CASE Tick
    BY <1>3, <1>4, <1>5 DEF Tick
  <1>6. ASSUME NEW d \in ClockSteps, StepWall(d) PROVE Accounted'
    BY <1>3, <1>4, <1>6 DEF StepWall
  <1>7. CASE Restart
    <2>1. SUFFICES ASSUME NEW x \in Keys \ forgotten' PROVE served'[x] <= Counted(x)'
      OBVIOUS
    <2>2. /\ DOMAIN store' = {} /\ UNCHANGED <<served, wall>>
          /\ x \notin forgotten /\ x \notin DOMAIN store
      BY <1>7, <2>1 DEF Restart, EmptyStore
    <2>3. Counted(x) = 0 /\ Counted(x)' = 0
      BY <2>2 DEF Counted
    <2>4. QED
      BY <2>2, <2>3
  <1>8. CASE UNCHANGED vars
    BY <1>8 DEF vars, Counted
  <1>9. QED
    BY <1>1, <1>2, <1>5, <1>6, <1>7, <1>8 DEF Next

(* A client whose bucket was not deleted since midnight is admitted at     *)
(* most DAILY_LIMIT times on one UTC date, whatever happens to the clocks  *)
(* and to the other clients.                                               *)
THEOREM DailyCeilingHolds == Spec => []DailyCeilingUnlessForgotten
  <1>1. Init => Accounted
    <2> SUFFICES ASSUME Init PROVE Accounted
      OBVIOUS
    <2>1. DOMAIN store = {} /\ served = [k \in Keys |-> 0]
      BY DEF Init, EmptyStore
    <2>2. QED
      BY <2>1 DEF Accounted, Counted
  <1>2. Coherent /\ Accounted => DailyCeilingUnlessForgotten
    <2> SUFFICES ASSUME Coherent, Accounted, NEW k \in Keys, served[k] > DailyLimit,
                        k \notin forgotten
                 PROVE  FALSE
      BY DEF DailyCeilingUnlessForgotten
    <2>1. served[k] <= Counted(k) /\ served[k] \in Nat
      BY DEF Accounted, Coherent, TypeOK
    <2>2. QED
      BY <2>1, CountedType, Parameters
  <1>3. QED
    BY <1>1, <1>2, NextAccounted, SpecCoherent, PTL DEF Spec

(***************************************************************************)
(* Retry-After (D7-02).  A promise is a time on the monotonic clock; the   *)
(* bucket of a client that holds one says when it is due, by its tokens    *)
(* and, if it is locked for the day, by the end of that day.               *)
(***************************************************************************)

LEMMA DivBounds ==
  ASSUME NEW x \in Int, NEW b \in Nat \ {0}
  PROVE  (x \div b) \in Int /\ (x \div b) * b <= x /\ x < (x \div b) * b + b
  OBVIOUS

LEMMA CeilDivBounds ==
  ASSUME NEW a \in Int, NEW b \in Nat \ {0}
  PROVE  CeilDiv(a, b) * b >= a /\ (CeilDiv(a, b) - 1) * b < a
  <1> DEFINE q == (a + b - 1) \div b
  <1>1. q \in Int /\ q * b <= a + b - 1 /\ a + b - 1 < q * b + b
    BY DivBounds
  <1>2. CeilDiv(a, b) = q
    BY DEF CeilDiv
  <1> HIDE DEF q
  <1>3. (q - 1) * b = q * b - b /\ q * b \in Int
    BY <1>1
  <1>4. QED
    BY <1>1, <1>2, <1>3

(* Of a positive wait, the rounded number of steps covers it and one step  *)
(* less does not.                                                          *)
LEMMA RoundedUp ==
  ASSUME NEW a \in Nat \ {0}, NEW b \in Nat \ {0}
  PROVE  /\ Larger(1, CeilDiv(a, b)) \in Nat \ {0}
         /\ Larger(1, CeilDiv(a, b)) * b >= a
         /\ (Larger(1, CeilDiv(a, b)) - 1) * b < a
  <1> DEFINE c == CeilDiv(a, b)
  <1>1. c \in Int /\ c * b >= a /\ (c - 1) * b < a
    BY CeilDivBounds, CeilDivType
  <1> HIDE DEF c
  <1>2. c >= 1
    <2>1. SUFFICES ASSUME c <= 0 PROVE FALSE
      BY <1>1
    <2>2. -c \in Nat /\ (-c) * b \in Nat /\ c * b = -((-c) * b)
      BY <1>1, <2>1, ProductNat
    <2>3. QED
      BY <1>1, <2>2
  <1>3. Larger(1, c) = c
    BY <1>1, <1>2 DEF Larger
  <1>4. QED
    BY <1>1, <1>2, <1>3 DEF c

LEMMA DateBounds ==
  ASSUME NEW w \in Nat
  PROVE  /\ Date(w) * TicksPerDay <= w /\ w < (Date(w) + 1) * TicksPerDay
         /\ TicksPerDay - (w % TicksPerDay) \in Nat \ {0}
         /\ w + (TicksPerDay - (w % TicksPerDay)) = (Date(w) + 1) * TicksPerDay
  <1>1. /\ w = Date(w) * TicksPerDay + (w % TicksPerDay)
        /\ w % TicksPerDay \in 0 .. TicksPerDay - 1
    BY Parameters DEF Date
  <1>2. (Date(w) + 1) * TicksPerDay = Date(w) * TicksPerDay + TicksPerDay
        /\ Date(w) * TicksPerDay \in Nat
    BY DateType, Parameters, ProductNat
  <1>3. QED
    BY <1>1, <1>2, Parameters

(* The tokens b would have at t with no cap, the wall clock at the         *)
(* monotonic time t if it is not stepped, and the end of the date of b.    *)
Potential(b, t) == b.tokens + (t - b.last_refill_ts) * RefillPerTick
WallAt(t) == wall - mono + t
DayEnd(b) == (b.daily_date + 1) * TicksPerDay

Suffices(b, t) ==
  /\ Potential(b, t) >= Cost
  /\ b.daily_exceeded => WallAt(t) >= DayEnd(b)

TooEarly(b, t) ==
  mono <= t => \/ Potential(b, t) < Cost
               \/ b.daily_exceeded /\ WallAt(t) < DayEnd(b)

Kept(b, t) ==
  /\ b.daily_date * TicksPerDay <= wall
  /\ Suffices(b, t)
  /\ TooEarly(b, t - TicksPerSecond)

PromisesKept == \A k \in DOMAIN store : 0 < promise[k] => Kept(store[k], promise[k])

LEMMA PotentialType ==
  ASSUME NEW m \in Nat, NEW b, Sound(b, m), NEW t \in Int
  PROVE  Potential(b, t) \in Int
  BY Parameters DEF Potential, Sound, BucketState

LEMMA PotentialGrows ==
  ASSUME NEW m \in Nat, NEW b, Sound(b, m), NEW s \in Int, NEW t \in Int, s <= t
  PROVE  /\ Potential(b, s) <= Potential(b, t)
         /\ Potential(b, t) = Potential(b, s) + (t - s) * RefillPerTick
  <1>1. /\ b.tokens \in Int /\ b.last_refill_ts \in Int /\ RefillPerTick \in Nat
        /\ t - s \in Nat /\ (t - s) * RefillPerTick \in Nat
    BY Parameters, ProductNat DEF Sound, BucketState
  <1> DEFINE l == b.last_refill_ts
  <1>2. (t - l) * RefillPerTick = (s - l) * RefillPerTick + (t - s) * RefillPerTick
    <2> HIDE DEF l
    <2>1. l \in Int
      BY <1>1 DEF l
    <2>2. QED
      BY <1>1, <2>1
  <1>3. (s - l) * RefillPerTick \in Int
    BY <1>1
  <1>4. QED
    BY <1>1, <1>2, <1>3 DEF Potential

(* What a decision sees of a bucket that is in the store.                  *)
LEMMA HeldOfSurvivor ==
  ASSUME Coherent, NEW k \in Survivors
  PROVE  /\ k \in DOMAIN store /\ k \in Keys
         /\ Sound(store[k], mono) /\ Sound(Held(k), mono)
         /\ Held(k).tokens = Smaller(Full, Potential(store[k], mono))
         /\ Held(k).last_refill_ts = mono /\ Held(k).daily_date = Date(wall)
         /\ Held(k).daily_exceeded <=>
              store[k].daily_exceeded /\ store[k].daily_date = Date(wall)
  <1>1. k \in DOMAIN store /\ k \in Keys /\ Sound(store[k], mono)
    BY SoundBuckets DEF Survivors
  <1>2. /\ Sound(Held(k), mono) /\ Held(k).tokens = RefilledTokens(store[k], mono)
        /\ Held(k).last_seen_ts = mono /\ Held(k).daily_date = Date(wall)
        /\ Held(k).daily_count =
             IF store[k].daily_date = Date(wall) THEN store[k].daily_count ELSE 0
    BY <1>1, HeldSound
  <1>3. RefilledTokens(store[k], mono) = Smaller(Full, Potential(store[k], mono))
    BY DEF RefilledTokens, Potential
  <1>4. Held(k).last_refill_ts = mono
    BY <1>2 DEF Sound
  <1>5. Held(k).daily_exceeded <=>
          store[k].daily_exceeded /\ store[k].daily_date = Date(wall)
    BY <1>1, <1>2, Parameters DEF Sound
  <1>6. QED
    BY <1>1, <1>2, <1>3, <1>4, <1>5

(* A bucket is inadmissible exactly if it lacks a token or is locked.      *)
LEMMA AdmissibleOf ==
  ASSUME NEW m \in Nat, NEW b, Sound(b, m)
  PROVE  Admissible(b) <=> b.tokens >= Cost /\ ~b.daily_exceeded
  BY Parameters DEF Admissible, Sound, BucketState

LEMMA SameDate ==
  ASSUME NEW w \in Nat, NEW d \in Nat, d * TicksPerDay <= w, w < (d + 1) * TicksPerDay
  PROVE  d = Date(w)
  <1> DEFINE e == Date(w)
  <1>1. e \in Nat /\ e * TicksPerDay <= w /\ w < (e + 1) * TicksPerDay
    BY DateType, DateBounds
  <1> HIDE DEF e
  <1>2. ASSUME NEW i \in Nat, NEW j \in Nat, i < j
        PROVE  (i + 1) * TicksPerDay <= j * TicksPerDay
    <2>1. j - (i + 1) \in Nat /\ (j - (i + 1)) * TicksPerDay \in Nat
      BY <1>2, Parameters, ProductNat
    <2>2. j * TicksPerDay = (i + 1) * TicksPerDay + (j - (i + 1)) * TicksPerDay
      BY Parameters
    <2>3. (i + 1) * TicksPerDay \in Nat /\ j * TicksPerDay \in Nat
      BY <1>2, Parameters, ProductNat
    <2>4. QED
      BY <2>1, <2>2, <2>3
  <1>3. d * TicksPerDay \in Nat /\ e * TicksPerDay \in Nat
        /\ (d + 1) * TicksPerDay \in Nat /\ (e + 1) * TicksPerDay \in Nat
    BY <1>1, Parameters, ProductNat
  <1>4. ~(d < e) /\ ~(e < d)
    BY <1>1, <1>2, <1>3
  <1>5. QED
    BY <1>1, <1>4 DEF e

(* A promise that is due is honoured.                                      *)
LEMMA DueIsAdmitted ==
  ASSUME Coherent, NEW k \in Survivors, NEW t \in Nat, t <= mono, Suffices(store[k], t)
  PROVE  Admissible(Held(k))
  <1> DEFINE b == store[k]
  <1>1. mono \in Nat /\ wall \in Nat
    BY DEF Coherent, TypeOK
  <1>2. Held(k).tokens >= Cost
    <2>1. Potential(b, mono) >= Cost
      BY <1>1, HeldOfSurvivor, PotentialGrows, PotentialType, Parameters DEF Suffices
    <2>2. QED
      BY <1>1, <2>1, HeldOfSurvivor, PotentialType, FullType, Parameters DEF Smaller
  <1>3. ~Held(k).daily_exceeded
    <2>1. SUFFICES ASSUME Held(k).daily_exceeded PROVE FALSE
      OBVIOUS
    <2>2. b.daily_exceeded /\ b.daily_date = Date(wall)
      BY <2>1, HeldOfSurvivor
    <2>3. WallAt(t) >= DayEnd(b) /\ DayEnd(b) = (Date(wall) + 1) * TicksPerDay
      BY <2>2 DEF Suffices, DayEnd
    <2>4. wall < (Date(wall) + 1) * TicksPerDay /\ (Date(wall) + 1) * TicksPerDay \in Int
      BY <1>1, DateBounds, DateType, Parameters
    <2>5. QED
      BY <1>1, <2>3, <2>4 DEF WallAt
  <1>4. QED
    BY <1>1, <1>2, <1>3, HeldOfSurvivor, AdmissibleOf

(* Before a promise is due the client is refused.                          *)
LEMMA EarlyIsRefused ==
  ASSUME Coherent, NEW k \in Survivors, store[k].daily_date * TicksPerDay <= wall,
         NEW t \in Int, mono <= t, TooEarly(store[k], t)
  PROVE  /\ ~Admissible(Held(k))
         /\ \/ Potential(store[k], mono) < Cost
            \/ store[k].daily_exceeded /\ store[k].daily_date = Date(wall)
  <1> DEFINE b == store[k]
  <1>1. mono \in Nat /\ wall \in Nat
    BY DEF Coherent, TypeOK
  <1>2. CASE Potential(b, t) < Cost
    <2>1. Potential(b, mono) < Cost
      BY <1>1, <1>2, HeldOfSurvivor, PotentialGrows, PotentialType, Parameters
    <2>2. Held(k).tokens < Cost /\ Held(k).tokens \in Int
      BY <1>1, <2>1, HeldOfSurvivor, PotentialType, FullType, Parameters
      DEF Smaller, Sound, BucketState
    <2>3. QED
      BY <1>1, <2>1, <2>2, HeldOfSurvivor, AdmissibleOf, Parameters
  <1>3. CASE b.daily_exceeded /\ WallAt(t) < DayEnd(b)
    <2>1. b.daily_date \in Nat /\ (b.daily_date + 1) * TicksPerDay \in Nat
      BY HeldOfSurvivor, Parameters, ProductNat DEF Sound, BucketState
    <2>2. wall < (b.daily_date + 1) * TicksPerDay
      <3> HIDE DEF b
      <3>1. QED
        BY <1>1, <1>3, <2>1 DEF WallAt, DayEnd
    <2>3. b.daily_date = Date(wall)
      <3> HIDE DEF b
      <3>1. b.daily_date * TicksPerDay <= wall
        BY DEF b
      <3>2. QED
        BY <1>1, <2>1, <2>2, <3>1, SameDate
    <2>4. Held(k).daily_exceeded
      BY <1>3, <2>3, HeldOfSurvivor
    <2>5. QED
      BY <1>1, <1>3, <2>3, <2>4, HeldOfSurvivor, AdmissibleOf
  <1>4. QED
    BY <1>2, <1>3 DEF TooEarly

LEMMA ProductMonotone ==
  ASSUME NEW a \in Nat, NEW b \in Nat, a <= b, NEW r \in Nat
  PROVE  a * r <= b * r
  <1>1. b - a \in Nat /\ (b - a) * r \in Nat /\ a * r \in Nat
    BY ProductNat
  <1>2. b * r = a * r + (b - a) * r
    OBVIOUS
  <1>3. QED
    BY <1>1, <1>2

(* The Retry-After of a refusal is the least whole number of seconds after *)
(* which the refused bucket is due.                                        *)
LEMMA RefusalPromises ==
  ASSUME Coherent, NEW h, Sound(h, mono), h.last_refill_ts = mono,
         h.daily_date = Date(wall), ~Admissible(h)
  PROVE  Kept(h, mono + RetryAfter(h, wall) * TicksPerSecond)
  <1> DEFINE n == RetryAfter(h, wall)
             s == SecondsToToken(h)
             d == SecondsToUtcMidnight(wall)
             S == TicksPerSecond
             R == RefillPerTick
             rest == TicksPerDay - (wall % TicksPerDay)
             p == mono + n * S
  <1>1. /\ mono \in Nat /\ wall \in Nat /\ h.tokens \in Nat
        /\ S \in Nat \ {0} /\ R \in Nat \ {0} /\ Cost \in Nat
        /\ R * S \in Nat \ {0}
    <2>1. mono \in Nat /\ wall \in Nat /\ h.tokens \in Nat
      BY FullType DEF Coherent, TypeOK, Sound, BucketState
    <2>2. R * S \in Nat /\ R * S # 0
      BY Parameters, ProductNat
    <2>3. QED
      BY <2>1, <2>2, Parameters
  <1>2. ASSUME h.tokens < Cost
        PROVE  /\ s \in Nat \ {0} /\ s * (R * S) >= Cost - h.tokens
               /\ (s - 1) * (R * S) < Cost - h.tokens
    <2>1. Cost - h.tokens \in Nat \ {0}
      BY <1>1, <1>2
    <2>2. QED
      BY <1>1, <2>1, RoundedUp DEF SecondsToToken
  <1>3. /\ d \in Nat \ {0} /\ d * S >= rest /\ (d - 1) * S < rest
        /\ rest \in Nat \ {0} /\ wall + rest = DayEnd(h)
    <2>1. rest \in Nat \ {0} /\ wall + rest = DayEnd(h)
      BY <1>1, DateBounds DEF DayEnd
    <2>2. QED
      BY <1>1, <2>1, RoundedUp DEF SecondsToUtcMidnight
  <1>4. /\ h.tokens < Cost => n >= s
        /\ h.daily_exceeded => n >= d
        /\ n \in Nat \ {0}
        /\ (h.tokens < Cost /\ n = s) \/ (h.daily_exceeded /\ n = d)
    <2>1. h.tokens < Cost \/ h.daily_exceeded
      BY <1>1, AdmissibleOf
    <2>2. n = Larger(IF h.tokens < Cost THEN s ELSE 1, IF h.daily_exceeded THEN d ELSE 1)
      BY DEF RetryAfter
    <2> HIDE DEF n, s, d
    <2>3. QED
      BY <1>2, <1>3, <2>1, <2>2 DEF Larger
  <1> HIDE DEF n, s, d, rest
  <1>5. ASSUME NEW i \in Nat
        PROVE  /\ i * S \in Nat
               /\ Potential(h, mono + i * S) = h.tokens + i * (R * S)
               /\ WallAt(mono + i * S) = wall + i * S
    <2>1. i * S \in Nat
      BY <1>1, ProductNat
    <2>2. (mono + i * S) - h.last_refill_ts = i * S
      BY <1>1, <2>1
    <2>3. (i * S) * R = i * (R * S)
      BY <1>1
    <2>4. Potential(h, mono + i * S) = h.tokens + i * (R * S)
      BY <2>2, <2>3 DEF Potential
    <2>5. QED
      BY <1>1, <2>1, <2>4 DEF WallAt
  <1>6. Suffices(h, p)
    <2>1. Potential(h, p) >= Cost
      <3>1. Potential(h, p) = h.tokens + n * (R * S) /\ n * (R * S) \in Nat
        BY <1>1, <1>4, <1>5, ProductNat
      <3>2. CASE h.tokens < Cost
        <4>1. s * (R * S) <= n * (R * S) /\ s * (R * S) \in Nat
          BY <1>1, <1>2, <1>4, <3>2, ProductMonotone, ProductNat
        <4>2. QED
          BY <1>1, <1>2, <3>1, <3>2, <4>1
      <3>3. CASE ~(h.tokens < Cost)
        BY <1>1, <3>1, <3>3
      <3>4. QED
        BY <3>2, <3>3
    <2>2. ASSUME h.daily_exceeded PROVE WallAt(p) >= DayEnd(h)
      <3>1. d * S <= n * S /\ d * S \in Nat /\ n * S \in Nat
        BY <1>1, <1>3, <1>4, <2>2, ProductMonotone, ProductNat
      <3>2. WallAt(p) = wall + n * S
        BY <1>4, <1>5
      <3>3. QED
        BY <1>1, <1>3, <3>1, <3>2
    <2>3. QED
      BY <2>1, <2>2 DEF Suffices
  <1>7. TooEarly(h, p - S)
    <2>1. p - S = mono + (n - 1) * S /\ n - 1 \in Nat
      <3>1. n * S = (n - 1) * S + S /\ (n - 1) * S \in Int
        BY <1>1, <1>4
      <3>2. QED
        BY <1>1, <1>4, <3>1
    <2>2. CASE h.tokens < Cost /\ n = s
      <3>1. Potential(h, p - S) = h.tokens + (n - 1) * (R * S)
        BY <1>5, <2>1
      <3>2. (n - 1) * (R * S) < Cost - h.tokens /\ (n - 1) * (R * S) \in Nat
        BY <1>1, <1>2, <2>1, <2>2, ProductNat
      <3>3. QED
        BY <1>1, <3>1, <3>2 DEF TooEarly
    <2>3. CASE h.daily_exceeded /\ n = d
      <3>1. WallAt(p - S) = wall + (n - 1) * S
        BY <1>5, <2>1
      <3>2. (n - 1) * S < rest /\ (n - 1) * S \in Nat
        BY <1>1, <1>3, <2>1, <2>3, ProductNat
      <3>3. WallAt(p - S) < DayEnd(h)
        BY <1>1, <1>3, <3>1, <3>2
      <3>4. QED
        BY <2>3, <3>3 DEF TooEarly
    <2>4. QED
      BY <1>4, <2>2, <2>3
  <1>8. h.daily_date * TicksPerDay <= wall
    BY <1>1, DateBounds
  <1>9. QED
    BY <1>6, <1>7, <1>8 DEF Kept, n

(* A promise that is not yet due stays as good when its client is looked   *)
(* at again.                                                               *)
LEMMA PromiseOutlivesRetry ==
  ASSUME Coherent, NEW k \in Survivors, NEW p \in Nat, mono < p, Kept(store[k], p)
  PROVE  Kept(Held(k), p)
  <1> DEFINE b == store[k]
             h == Held(k)
  <1>1. /\ mono \in Nat /\ wall \in Nat /\ Cost \in Nat /\ Full \in Nat /\ Cost <= Full
        /\ TicksPerSecond \in Nat /\ RefillPerTick \in Nat
    BY FullType, Parameters DEF Coherent, TypeOK
  <1>2. /\ Sound(b, mono) /\ Sound(h, mono)
        /\ h.tokens = Smaller(Full, Potential(b, mono))
        /\ h.last_refill_ts = mono /\ h.daily_date = Date(wall)
        /\ h.daily_exceeded <=> b.daily_exceeded /\ b.daily_date = Date(wall)
    BY HeldOfSurvivor
  <1>3. b.daily_date * TicksPerDay <= wall /\ Suffices(b, p) /\ TooEarly(b, p - TicksPerSecond)
    BY DEF Kept
  <1>4. h.daily_exceeded => DayEnd(h) = DayEnd(b)
    BY <1>2 DEF DayEnd
  <1> HIDE DEF b, h
  <1>5. ASSUME NEW t \in Int, mono <= t
        PROVE  /\ (t - mono) * RefillPerTick \in Nat
               /\ Potential(h, t) = h.tokens + (t - mono) * RefillPerTick
               /\ Potential(b, t) = Potential(b, mono) + (t - mono) * RefillPerTick
    <2>1. t - mono \in Nat
      BY <1>1, <1>5
    <2>2. (t - mono) * RefillPerTick \in Nat
      BY <1>1, <2>1, ProductNat
    <2>3. Potential(b, t) = Potential(b, mono) + (t - mono) * RefillPerTick
      BY <1>1, <1>2, <1>5, PotentialGrows
    <2>4. QED
      BY <1>2, <2>2, <2>3 DEF Potential
  <1>6. Potential(b, mono) \in Int
    BY <1>1, <1>2, PotentialType
  <1>7. Suffices(h, p)
    <2>1. Potential(h, p) >= Cost
      <3>1. Potential(b, p) >= Cost
        BY <1>3 DEF Suffices
      <3>2. QED
        BY <1>1, <1>2, <1>5, <1>6, <3>1 DEF Smaller
    <2>2. h.daily_exceeded => WallAt(p) >= DayEnd(h)
      BY <1>2, <1>3, <1>4 DEF Suffices
    <2>3. QED
      BY <2>1, <2>2 DEF Suffices
  <1>8. TooEarly(h, p - TicksPerSecond)
    <2> DEFINE t == p - TicksPerSecond
    <2>1. SUFFICES ASSUME mono <= t
                   PROVE  Potential(h, t) < Cost \/ (h.daily_exceeded /\ WallAt(t) < DayEnd(h))
      BY DEF TooEarly
    <2>2. t \in Int
      BY <1>1
    <2> HIDE DEF t
    <2>3. Potential(b, t) < Cost \/ (b.daily_exceeded /\ WallAt(t) < DayEnd(b))
      BY <1>3, <2>1 DEF TooEarly, t
    <2>4. CASE Potential(b, t) < Cost
      BY <1>1, <1>2, <1>5, <1>6, <2>1, <2>2, <2>4 DEF Smaller
    <2>5. CASE b.daily_exceeded /\ WallAt(t) < DayEnd(b)
      <3>1. b.daily_date \in Nat /\ (b.daily_date + 1) * TicksPerDay \in Nat
        BY <1>2, Parameters, ProductNat DEF Sound, BucketState
      <3>2. wall < (b.daily_date + 1) * TicksPerDay
        BY <1>1, <2>1, <2>2, <2>5, <3>1 DEF WallAt, DayEnd
      <3>3. b.daily_date = Date(wall)
        BY <1>1, <1>3, <3>1, <3>2, SameDate
      <3>4. QED
        BY <1>2, <1>4, <2>5, <3>3
    <2>6. QED
      BY <2>3, <2>4, <2>5
  <1>9. h.daily_date * TicksPerDay <= wall
    BY <1>1, <1>2, DateBounds
  <1>10. QED
    BY <1>7, <1>8, <1>9 DEF Kept, h

(* A refused client has a bucket, so its refusal evicts nobody.            *)
LEMMA RefusedHasBucket ==
  ASSUME Coherent, NEW k \in Keys, ~Admissible(Held(k))
  PROVE  k \in Survivors
  <1>1. SUFFICES ASSUME k \notin Survivors PROVE FALSE
    OBVIOUS
  <1>2. Held(k).tokens = Full /\ Held(k).daily_count = 0
    BY <1>1, HeldSound
  <1>3. QED
    BY <1>2, FullType, Parameters DEF Admissible

LEMMA RejectKeeps ==
  ASSUME Coherent, PromisesKept, NEW k \in Keys, Reject(k)
  PROVE  promise'[k] \in Nat \ {0} /\ Kept(Held(k), promise'[k])
  <1> DEFINE comeBack == mono + RetryAfter(Held(k), wall) * TicksPerSecond
  <1>1. ~Admissible(Held(k)) /\ k \in Survivors
    BY RefusedHasBucket DEF Reject
  <1>2. Kept(Held(k), comeBack)
    BY <1>1, HeldOfSurvivor, RefusalPromises
  <1>3. comeBack \in Nat \ {0}
    <2>1. mono \in Nat /\ wall \in Nat
      BY DEF Coherent, TypeOK
    <2>2. RetryAfter(Held(k), wall) \in Nat \ {0}
      BY <2>1, HeldSound, RetryAfterType
    <2>3. RetryAfter(Held(k), wall) * TicksPerSecond \in Nat \ {0}
      <3>1. RetryAfter(Held(k), wall) * TicksPerSecond \in Nat
        BY <2>2, Parameters, ProductNat
      <3>2. RetryAfter(Held(k), wall) * TicksPerSecond # 0
        BY <2>2, Parameters
      <3>3. QED
        BY <3>1, <3>2
    <2>4. QED
      BY <2>1, <2>3
  <1>4. promise'[k] = IF promise[k] = 0 THEN comeBack ELSE Smaller(promise[k], comeBack)
    BY DEF Reject, Coherent, TypeOK
  <1> HIDE DEF comeBack
  <1>5. promise[k] \in Nat
    BY DEF Coherent, TypeOK
  <1>6. CASE promise'[k] = comeBack
    BY <1>2, <1>3, <1>6
  <1>7. CASE promise'[k] = promise[k] /\ promise[k] # 0
    <2>1. Kept(store[k], promise[k])
      BY <1>1, <1>5, <1>7 DEF PromisesKept, Survivors
    <2>2. mono < promise[k]
      <3>1. SUFFICES ASSUME promise[k] <= mono PROVE FALSE
        BY <1>5 DEF Coherent, TypeOK
      <3>2. Admissible(Held(k))
        BY <1>1, <1>5, <2>1, <3>1, DueIsAdmitted DEF Kept
      <3>3. QED
        BY <1>1, <3>2
    <2>3. Kept(Held(k), promise[k])
      BY <1>1, <1>5, <2>1, <2>2, PromiseOutlivesRetry
    <2>4. QED
      BY <1>5, <1>7, <2>3
  <1>8. QED
    BY <1>4, <1>6, <1>7 DEF Smaller

LEMMA NextPromisesKept == Coherent /\ PromisesKept /\ [Next]_vars => PromisesKept'
  <1> SUFFICES ASSUME Coherent, PromisesKept, [Next]_vars,
                      NEW x \in DOMAIN store', 0 < promise'[x]
               PROVE  Kept(store[x], promise[x])'
    BY DEF PromisesKept
  <1> USE DEF Kept, Suffices, TooEarly, Potential, WallAt, DayEnd
  <1>1. ASSUME UNCHANGED <<mono, wall>>, x \in DOMAIN store,
               store'[x] = store[x], promise'[x] = promise[x]
        PROVE  Kept(store[x], promise[x])'
    BY <1>1 DEF PromisesKept
  <1>2. ASSUME NEW k \in Keys, Admit(k) PROVE Kept(store[x], promise[x])'
    <2>1. Sound(Charge(Held(k)), mono) /\ Write(k, Charge(Held(k)))
      BY <1>2, HeldSound, ChargeSound DEF Admit, Coherent, TypeOK
    <2>2. promise' = [promise EXCEPT ![k] = 0] /\ UNCHANGED <<mono, wall>>
      BY <1>2 DEF Admit
    <2>3. x \in Keys /\ x \in Survivors \cup {k} /\ (x # k => store'[x] = store[x])
      BY <2>1, WriteKeeps
    <2>4. x # k /\ promise'[x] = promise[x]
      BY <2>2, <2>3 DEF Coherent, TypeOK
    <2>5. QED
      BY <1>1, <2>2, <2>3, <2>4 DEF Survivors
  <1>3. ASSUME NEW k \in Keys, Reject(k) PROVE Kept(store[x], promise[x])'
    <2>1. Sound(Held(k), mono) /\ Write(k, Held(k))
      BY <1>3, HeldSound DEF Reject
    <2>2. UNCHANGED <<mono, wall>> /\ (\A y \in Keys : y # k => promise'[y] = promise[y])
      BY <1>3 DEF Reject, Coherent, TypeOK
    <2>3. /\ x \in Keys /\ x \in Survivors \cup {k}
          /\ store'[x] = IF x = k THEN Held(k) ELSE store[x]
      BY <2>1, WriteKeeps
    <2>4. CASE x = k
      <3> DEFINE h == Held(k)
                 p == promise'[k]
      <3>1. Kept(h, p)
        BY <1>3, RejectKeeps
      <3>2. store'[x] = h /\ promise'[x] = p
        BY <2>3, <2>4
      <3> HIDE DEF h, p
      <3>3. QED
        BY <2>2, <3>1, <3>2
    <2>5. CASE x # k
      BY <1>1, <2>2, <2>3, <2>5 DEF Survivors
    <2>6. QED
      BY <2>4, <2>5
  <1>4. CASE Tick
    <2>1. /\ UNCHANGED <<store, promise>> /\ mono' = mono + 1 /\ wall' = wall + 1
          /\ mono \in Nat /\ wall \in Nat /\ TicksPerSecond \in Nat
      BY <1>4, Parameters DEF Tick, Coherent, TypeOK
    <2>2. /\ Kept(store[x], promise[x]) /\ x \in DOMAIN store
          /\ promise[x] \in Nat /\ store[x].daily_date \in Nat
      BY <2>1 DEF PromisesKept, Coherent, TypeOK, BucketState
    <2>3. \A t \in Int : WallAt(t)' = WallAt(t)
      BY <2>1
    <2>4. /\ store[x].daily_date * TicksPerDay \in Nat
          /\ store[x].daily_date * TicksPerDay <= wall'
      BY <2>1, <2>2, Parameters, ProductNat
    <2>5. /\ Potential(store[x], promise[x]) >= Cost
          /\ store[x].daily_exceeded =>
               WallAt(promise[x])' >= DayEnd(store[x])
      BY <2>1, <2>2
    <2>6. mono' <= promise[x] - TicksPerSecond =>
             \/ Potential(store[x], promise[x] - TicksPerSecond) < Cost
             \/ /\ store[x].daily_exceeded
                /\ WallAt(promise[x] - TicksPerSecond)' < DayEnd(store[x])
      BY <2>1, <2>2
    <2>7. QED
      BY <2>1, <2>4, <2>5, <2>6
  <1>5. ASSUME NEW d \in ClockSteps, StepWall(d) PROVE Kept(store[x], promise[x])'
    <2>1. promise' = [k \in Keys |-> 0] /\ x \in Keys
      BY <1>5 DEF StepWall, Coherent, TypeOK
    <2>2. QED
      BY <2>1
  <1>6. CASE Restart
    BY <1>6 DEF Restart, EmptyStore
  <1>7. CASE UNCHANGED vars
    BY <1>1, <1>7 DEF vars
  <1>8. QED
    BY <1>2, <1>3, <1>4, <1>5, <1>6, <1>7 DEF Next

LEMMA SpecPromisesKept == Spec => []PromisesKept
  <1>1. Init => PromisesKept
    BY DEF Init, EmptyStore, PromisesKept
  <1>2. QED
    BY <1>1, NextPromisesKept, SpecCoherent, PTL DEF Spec

(* A refused client that waits the shortest Retry-After it was given is    *)
(* admitted, for every rate, limit and TTL, and whatever other clients,    *)
(* sweeps, evictions and restarts do meanwhile.                            *)
THEOREM RetryAfterSufficesHolds == Spec => []RetryAfterSuffices
  <1>1. Coherent /\ PromisesKept => RetryAfterSuffices
    <2> SUFFICES ASSUME Coherent, PromisesKept, NEW k \in Keys,
                        0 < promise[k], promise[k] <= mono
                 PROVE  Admissible(Held(k))
      BY DEF RetryAfterSuffices, WouldAdmit
    <2>1. SUFFICES ASSUME k \in Survivors PROVE Admissible(Held(k))
      BY RefusedHasBucket
    <2>2. promise[k] \in Nat /\ Suffices(store[k], promise[k])
      BY <2>1 DEF PromisesKept, Kept, Survivors, Coherent, TypeOK
    <2>3. QED
      BY <2>1, <2>2, DueIsAdmitted
  <1>2. QED
    BY <1>1, SpecCoherent, SpecPromisesKept, PTL

(* And it is told no longer than it must: a second before that time it     *)
(* would still be refused, as long as it has a bucket.                     *)
THEOREM RetryAfterIsLeast == Spec => []RetryAfterNotTooLong
  <1>1. Coherent /\ PromisesKept => RetryAfterNotTooLong
    <2> SUFFICES ASSUME Coherent, PromisesKept, NEW k \in Survivors,
                        0 < promise[k], mono <= promise[k] - TicksPerSecond
                 PROVE  ~Admissible(Held(k))
      BY DEF RetryAfterNotTooLong, WouldAdmit
    <2>1. promise[k] \in Nat /\ Kept(store[k], promise[k])
      BY HeldOfSurvivor DEF PromisesKept, Coherent, TypeOK
    <2>2. promise[k] - TicksPerSecond \in Int
      BY <2>1, Parameters
    <2>3. QED
      BY <2>1, <2>2, EarlyIsRefused DEF Kept
  <1>2. QED
    BY <1>1, SpecCoherent, SpecPromisesKept, PTL
=============================================================================
