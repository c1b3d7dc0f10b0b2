\* Two tables of one database.
CONSTANTS
  t1 = t1
  t2 = t2
  t3 = t3
  TablesOf <- TwoDatabases
  Requests <- OneDatabase
  MaxLimit = 3
  Permits = 2
  InitialKinds <- AllSearchable
  MaxHits = 1
  MaxChanges = 0
SPECIFICATION Spec
INVARIANT FanOutNeverRaises
