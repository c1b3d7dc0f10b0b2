\* Two clients, no cap pressure: one is locked for the day, the other's requests trigger the sweeps.
CONSTANTS
  Keys = {k1, k2}
  Burst = 2
  Cost = 1
  RefillPerTick = 1
  TicksPerSecond = 1
  DailyLimit = 2
  StoreCap = 3
  IdleTtl = 2
  SweepInterval = 1
  TicksPerDay = 8
  MaxTime = 8
  MaxServed = 9
  ClockSteps <- NoSteps
  MaxClockSteps = 0
  MaxRestarts = 0
SPECIFICATION Spec
PROPERTY IdleSweepKeepsLocked
