\* One read of a database's summary that fails is enough.
CONSTANTS
  DatabaseOf <- TwoDatabases
  HiddenTables = {"internal"}
  UrlKeyed = {"keyed", "internal"}
  HiddenColumns <- Hidden
  LightColumns <- Light
  HeavyColumns = {"text"}
  FallbackTypes <- DateIsInteger
  MaxLimit = 2
  Requests <- Calls
  TableStates <- States3
  Gone = Gone
  MaxChanges = 1
SPECIFICATION Spec
INVARIANT ErrorsAreCataloged
