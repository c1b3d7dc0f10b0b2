\* One spelling of a URL has a document, another has none.
CONSTANTS
  u = u
  v = v
  c1 = c1
  Callers = {c1, c2}
  NoOne = NoOne
  Urls = {u, v}
  normalize <- TwoSpellings
  Parents = {1, 2}
  Ttl = 1
  MaxTime = 1
  MaxChanges = 1
  Fragments <- SomeFragments
  Requests <- WalkerAndOther
  NoRequest = NoRequest
  JoinCap = 2
  rowid <- InsertionOrder
SPECIFICATION Spec
PROPERTIES
  NoMatchIsReal
