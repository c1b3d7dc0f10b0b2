\* One client changes the sort between the pages of a document.
CONSTANTS
  u = u
  v = v
  c1 = c1
  Callers = {c1}
  NoOne = NoOne
  Urls = {u, v}
  normalize <- TwoSpellings
  Parents = {1, 2}
  Ttl = 1
  MaxTime = 1
  MaxChanges = 1
  Fragments <- SomeFragments
  Requests <- TwoSorts
  NoRequest = NoRequest
  JoinCap = 2
  rowid <- InsertionOrder
SPECIFICATION Spec
PROPERTIES
  CursorBindsSort
