\* Two clients, half-second ticks: two-token bursts at one token per two ticks,
\* three requests per six-tick day, an idle TTL just long enough to refill a
\* bucket, no cap pressure.  The wall clock is stepped once, by three ticks
\* either way, across midnights, and the server is restarted once.
CONSTANTS
  Keys = {k1, k2}
  Burst = 2
  Cost = 2
  RefillPerTick = 1
  TicksPerSecond = 2
  DailyLimit = 3
  StoreCap = 3
  IdleTtl = 3
  SweepInterval = 1
  TicksPerDay = 6
  MaxTime = 6
  MaxServed = 9
  ClockSteps <- BackAndForth
  MaxClockSteps = 1
  MaxRestarts = 1
SPECIFICATION Spec
SYMMETRY ClientSymmetry
INVARIANTS
  DailyCeilingUnlessForgotten
  RetryAfterSuffices
  RetryAfterNotTooLong
  RateConformance
PROPERTY ImplementsTokenBucket
