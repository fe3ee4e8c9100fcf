SPECIFICATION Spec
CONSTANTS
  Templates <- MCTemplates
  First <- MCFirst
  Hash <- MCHash
  Foreign <- MCForeign
  MaxCount <- MCMaxCount
  Deadline = TRUE
  PromptCache = TRUE
  HistoryLimit = 1
  MaxTakeOvers = 2
  MaxScales = 1
  MaxRevision = 3
  MaxDeletes = 1
  MaxFaults = 1
INVARIANTS
  TypeOK
  OneSetPerTemplate
PROPERTIES
  CollisionIsReal
  RevisionsRecorded
  NewSetAppears
