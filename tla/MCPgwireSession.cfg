SPECIFICATION Spec
CONSTANTS
  Names = {"s"}
  SQLs = {"q"}
  KeyOwner <- MCKeyOwner
  Databases <- MCDatabases
  Server <- MCServer
  MaxFrames = 4
  MaxAhead = 2
  None = None
INVARIANT HandledForKeyOwner
PROPERTY ImplementsRequestReply
CHECK_DEADLOCK FALSE
