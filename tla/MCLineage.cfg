SPECIFICATION Spec
CONSTANTS
  Statements <- MCStatements
  Queries <- MCQueries
  Schema <- MCSchema
  Diffs <- MCDiffs
  QueueCap = 1
  Depths = {0, 1, 2}
  None = None
INVARIANTS WalksExact QueriesSound
