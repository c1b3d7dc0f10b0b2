---------------------------- MODULE RateLimiter ----------------------------
(***************************************************************************)
(* RateLimitMiddleware (core/middleware/rate_limit.py): a store of lazily  *)
(* refilled token buckets with a per-UTC-date counter, a time-gated idle   *)
(* sweep and a batch eviction when the store is full.                      *)
(*                                                                         *)
(* The decision of __call__ has no await before it, so a request is one    *)
(* action.  Two clocks drive it: time.monotonic (mono) for tokens and      *)
(* idleness, datetime.now(UTC) (wall) for the date.  Both are counted in   *)
(* ticks, TicksPerSecond to a second, and tokens in units, Cost to a       *)
(* token, so that fractional tokens and Retry-After's rounding are exact.  *)
(* The store is in memory: a restart of the server empties it.             *)
(***************************************************************************)
EXTENDS Integers, FiniteSets

CONSTANTS
  Keys,             \* client keys: what ip._normalize_ip_key returns
  Burst,            \* config.RATE_BURST, in tokens
  Cost,             \* units in a token
  RefillPerTick,    \* config.RATE_SUSTAINED_PER_SECOND, in units per tick
  TicksPerSecond,
  DailyLimit,       \* config.RATE_DAILY_LIMIT
  StoreCap,         \* config.RATE_STORE_CAP
  IdleTtl,          \* config.RATE_IDLE_TTL_SECONDS, in ticks
  SweepInterval,    \* sweep_interval_seconds, in ticks
  TicksPerDay,
  MaxTime,          \* bound: the last tick of a behaviour
  MaxServed,        \* bound: admissions of one client on one date
  ClockSteps,       \* bound: by how much the wall clock may be stepped
  MaxClockSteps,    \* bound: how often
  MaxRestarts       \* bound: restarts of the server

ASSUME LimiterParameters ==
  /\ IsFiniteSet(Keys)
  /\ {Burst, Cost, RefillPerTick, TicksPerSecond} \subseteq Nat \ {0}
  /\ {DailyLimit, StoreCap, TicksPerDay} \subseteq Nat \ {0}
  /\ {IdleTtl, SweepInterval, MaxTime, MaxServed, MaxClockSteps, MaxRestarts} \subseteq Nat
  /\ ClockSteps \subseteq Int
  /\ TicksPerDay % TicksPerSecond = 0

VARIABLES
  store,      \* _store: key -> BucketState
  lastSweep,  \* _last_sweep_ts
  mono,       \* time.monotonic()
  wall,       \* datetime.now(UTC)
  steps,      \* how often the wall clock was stepped
  restarts,   \* how often the server was restarted
  \* History: what clients were served and told, read by no guard.
  since,      \* the value of mono when the date last changed
  served,     \* requests of k admitted since then
  forgotten,  \* keys whose bucket was deleted since then
  lost,       \* how often the cap or a restart took k's bucket since then
  promise     \* the earliest time a refused k was told to come back, or 0

vars == <<store, lastSweep, mono, wall, steps, restarts, since, served, forgotten, lost, promise>>

-----------------------------------------------------------------------------
(* The arithmetic of a bucket.                                             *)

Full == Burst * Cost

Larger(a, b) == IF a >= b THEN a ELSE b
Smaller(a, b) == IF a <= b THEN a ELSE b
CeilDiv(a, b) == (a + b - 1) \div b

Date(w) == w \div TicksPerDay

BucketState ==
  [tokens: 0 .. Full, last_refill_ts: Nat, daily_count: 0 .. DailyLimit,
   daily_date: Nat, last_seen_ts: Nat, daily_exceeded: BOOLEAN]

FreshBucket(m, w) ==
  [tokens |-> Full, last_refill_ts |-> m, daily_count |-> 0,
   daily_date |-> Date(w), last_seen_ts |-> m, daily_exceeded |-> FALSE]

RollDate(b, w) ==
  IF b.daily_date = Date(w) THEN b
  ELSE [b EXCEPT !.daily_count = 0, !.daily_date = Date(w), !.daily_exceeded = FALSE]

RefilledTokens(b, m) ==
  Smaller(Full, b.tokens + (m - b.last_refill_ts) * RefillPerTick)

(* Variant: last_refill_ts is not advanced, so time is counted twice.      *)
RefillUnstamped(b, m) ==
  IF m > b.last_refill_ts THEN [b EXCEPT !.tokens = RefilledTokens(b, m)] ELSE b

Refill(b, m) ==
  IF m > b.last_refill_ts
  THEN [b EXCEPT !.tokens = RefilledTokens(b, m), !.last_refill_ts = m]
  ELSE b

Touched(b, m, w) == [Refill(RollDate(b, w), m) EXCEPT !.last_seen_ts = m]

(* Variant: one request too many.                                          *)
AdmissibleAtLimit(b) == b.tokens >= Cost /\ b.daily_count <= DailyLimit

Admissible(b) == b.tokens >= Cost /\ b.daily_count < DailyLimit

Charge(b) ==
  [b EXCEPT !.tokens = @ - Cost, !.daily_count = @ + 1,
            !.daily_exceeded = @ \/ b.daily_count + 1 >= DailyLimit]

SecondsToUtcMidnight(w) ==
  Larger(1, CeilDiv(TicksPerDay - (w % TicksPerDay), TicksPerSecond))

SecondsToToken(b) ==
  Larger(1, CeilDiv(Cost - b.tokens, RefillPerTick * TicksPerSecond))

(* Variants: the first active window only; the windows added up.           *)
RetryAfterFirst(b, w) ==
  IF b.tokens < Cost THEN SecondsToToken(b) ELSE SecondsToUtcMidnight(w)

RetryAfterSum(b, w) ==
  (IF b.tokens < Cost THEN SecondsToToken(b) ELSE 0) +
  (IF b.daily_exceeded THEN SecondsToUtcMidnight(w) ELSE 0)

RetryAfter(b, w) ==
  LET burst == IF b.tokens < Cost THEN SecondsToToken(b) ELSE 1
      daily == IF b.daily_exceeded THEN SecondsToUtcMidnight(w) ELSE 1
  IN  Larger(burst, daily)

-----------------------------------------------------------------------------
(* Eviction: the idle sweep and the cap.                                   *)

EffectiveTtl(b, w) ==
  IF b.daily_exceeded
  THEN Larger(IdleTtl, SecondsToUtcMidnight(w) * TicksPerSecond)
  ELSE IdleTtl

(* Variant: a bucket expires at its TTL rather than after it.              *)
IsExpiredEarly(b, m, w) == m - b.last_seen_ts >= EffectiveTtl(b, w)

IsExpired(b, m, w) == m - b.last_seen_ts > EffectiveTtl(b, w)

SweepDue == mono - lastSweep > SweepInterval

(* The keys left in the store once the sweep of this request, if any, ran. *)
Survivors ==
  {k \in DOMAIN store : SweepDue => ~IsExpired(store[k], mono, wall)}

LastSeen(x) == IF x \in Survivors THEN store[x].last_seen_ts ELSE mono

EvictCount(n) == Larger(1, n \div 100)

(* Variant: a descending sort.                                             *)
NewestBatches(grown, k) ==
  {E \in SUBSET grown :
     /\ Cardinality(E) = EvictCount(Cardinality(grown))
     /\ \A x \in E, y \in grown \ E : LastSeen(x) >= LastSeen(y)}

(* _enforce_cap: the sort is stable and k is the newest entry, so among    *)
(* entries last seen together k goes last; the others are not told apart.  *)
OldestBatches(grown, k) ==
  {E \in SUBSET grown :
     /\ Cardinality(E) = EvictCount(Cardinality(grown))
     /\ \A x \in E, y \in grown \ E :
          LastSeen(x) < LastSeen(y) \/ (LastSeen(x) = LastSeen(y) /\ x # k)}

(* Variant: the store is only trimmed once it exceeds the cap.             *)
CapVictimsLate(k) ==
  LET grown == Survivors \cup {k}
  IN  IF k \in Survivors \/ Cardinality(grown) <= StoreCap
      THEN {{}} ELSE OldestBatches(grown, k)

CapVictims(k) ==
  LET grown == Survivors \cup {k}
  IN  IF k \in Survivors \/ Cardinality(grown) < StoreCap
      THEN {{}} ELSE OldestBatches(grown, k)

-----------------------------------------------------------------------------
(* A request.                                                              *)

(* The bucket the decision looks at.                                       *)
Held(k) ==
  Touched(IF k \in Survivors THEN store[k] ELSE FreshBucket(mono, wall), mono, wall)

Write(k, b) ==
  \E E \in CapVictims(k) :
    /\ store' = [x \in (Survivors \cup {k}) \ E |-> IF x = k THEN b ELSE store[x]]
    /\ lastSweep' = IF SweepDue THEN mono ELSE lastSweep
    /\ forgotten' = forgotten \cup (DOMAIN store \ Survivors) \cup E
    /\ lost' = [x \in Keys |-> IF x \in E THEN lost[x] + 1 ELSE lost[x]]

Admit(k) ==
  /\ served[k] < MaxServed
  /\ Admissible(Held(k))
  /\ Write(k, Charge(Held(k)))
  /\ served' = [served EXCEPT ![k] = @ + 1]
  /\ promise' = [promise EXCEPT ![k] = 0]
  /\ UNCHANGED <<mono, wall, steps, restarts, since>>

Reject(k) ==
  LET comeBack == mono + RetryAfter(Held(k), wall) * TicksPerSecond
  IN  /\ ~Admissible(Held(k))
      /\ Write(k, Held(k))
      /\ promise' = [promise EXCEPT ![k] = IF @ = 0 THEN comeBack ELSE Smaller(@, comeBack)]
      /\ UNCHANGED <<mono, wall, steps, restarts, since, served>>

-----------------------------------------------------------------------------
(* The clocks.                                                             *)

DateHistory ==
  IF Date(wall') = Date(wall)
  THEN UNCHANGED <<since, served, forgotten, lost>>
  ELSE /\ since' = mono' /\ served' = [k \in Keys |-> 0]
       /\ forgotten' = {} /\ lost' = [k \in Keys |-> 0]

Tick ==
  /\ mono < MaxTime
  /\ mono' = mono + 1
  /\ wall' = wall + 1
  /\ DateHistory
  /\ UNCHANGED <<store, lastSweep, steps, restarts, promise>>

(* The host's UTC clock is corrected; what clients were told is void.      *)
StepWall(d) ==
  /\ steps < MaxClockSteps
  /\ wall + d >= 0
  /\ wall' = wall + d
  /\ steps' = steps + 1
  /\ promise' = [k \in Keys |-> 0]
  /\ UNCHANGED <<store, lastSweep, mono, restarts>>
  /\ DateHistory

-----------------------------------------------------------------------------
EmptyStore == [k \in {} |-> FreshBucket(0, 0)]

(* The server is restarted, by a deployment or after a crash, on a host    *)
(* whose monotonic clock runs on.                                          *)
Restart ==
  /\ restarts < MaxRestarts
  /\ restarts' = restarts + 1
  /\ store' = EmptyStore
  /\ lastSweep' = 0
  /\ forgotten' = forgotten \cup DOMAIN store
  /\ lost' = [k \in Keys |-> IF k \in DOMAIN store THEN lost[k] + 1 ELSE lost[k]]
  /\ UNCHANGED <<mono, wall, steps, since, served, promise>>

Init ==
  /\ store = EmptyStore
  /\ lastSweep = 0
  /\ mono = 0
  /\ wall \in 0 .. TicksPerDay - 1
  /\ steps = 0
  /\ restarts = 0
  /\ since = 0
  /\ served = [k \in Keys |-> 0]
  /\ forgotten = {}
  /\ lost = [k \in Keys |-> 0]
  /\ promise = [k \in Keys |-> 0]

Next ==
  \/ \E k \in Keys : Admit(k) \/ Reject(k)
  \/ Tick
  \/ \E d \in ClockSteps : StepWall(d)
  \/ Restart

Spec == Init /\ [][Next]_vars
=============================================================================
