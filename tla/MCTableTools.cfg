\* Two changes fall anywhere between a call's reads: one may hide or drop its
\* table after it was found, the other put it back.
CONSTANTS
  DatabaseOf <- TwoDatabases
  HiddenTables = {"internal"}
  UrlKeyed = {"keyed", "internal"}
  HiddenColumns <- Hidden
  LightColumns <- Light
  HeavyColumns = {"text"}
  FallbackTypes <- DateIsInteger
  MaxLimit = 2
  Requests <- Calls
  TableStates <- States3
  Gone = Gone
  MaxChanges = 2
SPECIFICATION Spec
INVARIANTS
  NoSideChannel
  NoHiddenColumn
  AnswersAreSnapshots
  ErrorsAreTrue
PROPERTY CallEnds
