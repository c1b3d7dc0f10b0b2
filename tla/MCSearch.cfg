\* Three tables of two databases, any of which may be unsearchable and one of
\* which changes during the call; two slots for the fan-out.
CONSTANTS
  t1 = t1
  t2 = t2
  t3 = t3
  TablesOf <- TwoDatabases
  Requests <- AllCalls
  MaxLimit = 3
  Permits = 2
  InitialKinds <- AnyKind
  MaxHits = 3
  MaxChanges = 1
SPECIFICATION Spec
INVARIANTS
  InvalidQueryMeansBadQuery
  PartialResults
  NoRowOfHiddenTable
  NoFakeHits
  SlotsConserved
  MergeIsFair
  NothingLost
  TotalsAreTrue
PROPERTY CallEnds
