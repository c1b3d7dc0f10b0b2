----------------------- MODULE RateLimiterProperties -----------------------
(***************************************************************************)
(* What RateLimitMiddleware must guarantee, and what its documentation     *)
(* says of it.                                                             *)
(***************************************************************************)
EXTENDS RateLimiter

(* Every bucket holds between zero and BURST tokens and at most            *)
(* DAILY_LIMIT admissions, whatever the order of requests, sweeps and      *)
(* clock steps (BucketState, _check_bucket).                               *)
TypeOK ==
  /\ DOMAIN store \subseteq Keys
  /\ \A k \in DOMAIN store : store[k] \in BucketState
  /\ {mono, wall, lastSweep, since, steps, restarts} \subseteq Nat
  /\ served \in [Keys -> Nat]
  /\ forgotten \subseteq Keys
  /\ lost \in [Keys -> Nat]
  /\ promise \in [Keys -> Nat]

(* The timestamps of the code never run ahead of the clock; a bucket is    *)
(* refilled whenever it is seen; daily_exceeded says exactly that the      *)
(* counter has reached the limit.                                          *)
BucketsCoherent ==
  /\ lastSweep <= mono /\ since <= mono
  /\ \A k \in DOMAIN store :
       /\ store[k].last_refill_ts = store[k].last_seen_ts
       /\ store[k].last_seen_ts <= mono
       /\ store[k].daily_exceeded <=> store[k].daily_count = DailyLimit

(* What every request relies on, and what the proofs start from.           *)
Coherent == TypeOK /\ BucketsCoherent

(* _enforce_cap evicts as soon as the store reaches its cap, so between    *)
(* requests it is always strictly below it (RATE-04).                      *)
StoreBelowCap == Cardinality(DOMAIN store) < StoreCap

(* Unless its bucket was deleted since midnight, a client is never         *)
(* admitted more than DAILY_LIMIT times on one UTC date, however requests, *)
(* sweeps, restarts, clock steps and other clients' evictions interleave.  *)
DailyCeilingUnlessForgotten ==
  \A k \in Keys : served[k] > DailyLimit => k \in forgotten

(* What a request of k would be answered now.                              *)
WouldAdmit(k) == Admissible(Held(k))

(* A refused client that waits the Retry-After it was first given is then  *)
(* admitted, whatever refused retries, other clients' requests, sweeps and *)
(* evictions happen in between (D7-02: the maximum of the active waits),   *)
(* and whether or not the server is restarted.                             *)
RetryAfterSuffices ==
  \A k \in Keys : 0 < promise[k] /\ promise[k] <= mono => WouldAdmit(k)

(* Retry-After is the least number of seconds that suffices: one second    *)
(* earlier the client would still be refused, unless its bucket is gone.   *)
RetryAfterNotTooLong ==
  \A k \in Survivors :
    0 < promise[k] /\ mono <= promise[k] - TicksPerSecond => ~WouldAdmit(k)

(* The requests a client was served since any moment the date changed are  *)
(* bounded by what the refill rate yields since then, plus a full burst    *)
(* and another for each time the cap or a restart took its bucket:         *)
(* deleting an idle bucket and starting a full one gains nothing.          *)
RateConformance ==
  \A k \in Keys :
    served[k] * Cost <= Full + Full * lost[k] + RefillPerTick * (mono - since)

(* After an admission the charged bucket is in the store: the cap never    *)
(* drops the entry that was just created (for StoreCap > 1).               *)
AdmissionIsRecorded ==
  [][\A k \in Keys : served'[k] > served[k] =>
       /\ k \in DOMAIN store'
       /\ store'[k].last_seen_ts = mono /\ store'[k].tokens < Full]_vars

(* The tokens a client has now, were the store refilled eagerly.           *)
Level ==
  [k \in Keys |-> IF k \in DOMAIN store THEN RefilledTokens(store[k], mono) ELSE Full]

TB == INSTANCE TokenBucket
        WITH level <- Level, MayForget <- Cardinality(Keys) >= StoreCap

(* What the idle sweep relies on: a bucket idle for longer than IdleTtl    *)
(* would be full again (config.py: 900 s at 1 token/s against BURST 20).  *)
TtlCoversRefill == (IdleTtl + 1) * RefillPerTick >= Full

(* The lazy, swept store implements the token bucket of the documentation: *)
(* laziness and the idle sweep are invisible to clients.                   *)
ImplementsTokenBucket == TB!Spec

(* _effective_ttl's docstring: a daily-locked bucket "cannot be evicted by *)
(* the idle sweep before its daily counter resets at the UTC date roll".   *)
IdleSweepKeepsLocked ==
  [][\A k \in DOMAIN store :
       store[k].daily_exceeded /\ store[k].daily_date = Date(wall)
         => k \in DOMAIN store' /\ store'[k].daily_exceeded]_store
=============================================================================
