SPECIFICATION Spec
CONSTANTS
  Tables <- MCTables
  Warehouse <- MCWarehouse
  Added <- MCAdded
  MaxRows = 2
  MaxInserts = 2
  MaxTime = 2
  MaxRequests = 1
  MaxFaults = 1
  None = None
  Unparsable = Unparsable
INVARIANTS TypeOK CountedIsCopied NeverPartial
PROPERTIES StreamKept  PendingPickedUp
