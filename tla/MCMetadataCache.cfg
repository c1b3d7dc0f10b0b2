\* Three concurrent requests, a TTL of two ticks, three upstream versions, on
\* a host that has just booted and on one up for longer than the TTL.
CONSTANTS
  Callers = {c1, c2, c3}
  NoOne = NoOne
  Ttl = 2
  Uptimes <- FreshBootOrLongUp
  MaxTime = 4
  MaxVersion = 3
SPECIFICATION Spec
INVARIANTS
  SingleFlight
  NoneOnlyAfterFailure
  StaleOnlyWhileRefreshing
  ForceRefetchesWhenClear
PROPERTIES
  ImplementsFairLock
  DataNeverRegresses
  CallsReturn
