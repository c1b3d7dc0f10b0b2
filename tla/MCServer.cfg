\* Two requests, the second perhaps pipelined behind the first; the process is
\* started twice, and stopped or killed at any moment.
CONSTANTS
  Requests = {r1, r2}
  NoId = NoId
  Kinds <- SomeKinds
  MaxTime = 2
  MaxBoots = 2
SPECIFICATION Spec
INVARIANTS
  OwnRequestId
  LinesTellTheCalls
  RetrievedAtIsCallStart
  CallsHaveTheirClient
  WaitersHaveTheirCall
PROPERTY EverythingEnds
