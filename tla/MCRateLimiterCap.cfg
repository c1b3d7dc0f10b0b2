\* Three clients and a store that is full with three buckets: every third client evicts.
CONSTANTS
  Keys = {k1, k2, k3}
  Burst = 2
  Cost = 1
  RefillPerTick = 1
  TicksPerSecond = 1
  DailyLimit = 2
  StoreCap = 3
  IdleTtl = 2
  SweepInterval = 1
  TicksPerDay = 4
  MaxTime = 5
  MaxServed = 3
  ClockSteps <- NoSteps
  MaxClockSteps = 0
  MaxRestarts = 0
SPECIFICATION Spec
SYMMETRY ClientSymmetry
INVARIANT StoreBelowCap
PROPERTY AdmissionIsRecorded
\* Behaviours end at the bounds on time and on admissions.
CHECK_DEADLOCK FALSE
