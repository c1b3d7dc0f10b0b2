\* A client walks documents of two and one fragments, under two spellings of
\* one URL, with three requests; another only looks them up; one changes.
CONSTANTS
  u = u
  v = v
  c1 = c1
  Callers = {c1, c2}
  NoOne = NoOne
  Urls = {u, v}
  normalize <- TwoSpellings
  Parents = {1, 2}
  Ttl = 1
  MaxTime = 1
  MaxChanges = 1
  Fragments <- SomeFragments
  Requests <- WalkerAndOther
  NoRequest = NoRequest
  JoinCap = 2
  rowid <- InsertionOrder
SPECIFICATION Spec
INVARIANT SingleFlight
PROPERTIES
  ResolutionIsRecent
  WalkIsExact
  CursorBindsFilters
  InvalidCursorMeansOtherRequest
  CallsReturn
