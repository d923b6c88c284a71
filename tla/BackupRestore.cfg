SPECIFICATION OperationsSpec
CONSTANTS
  b1 = b1
  b2 = b2
  r1 = r1
  old = old
  newer = newer
  Damaged = Damaged
  Nothing = Nothing
  Backups = {b1, b2}
  Restores = {r1}
  Snapshots = {old, newer}
  SchemaVersion <- MCSchemaVersion
  CodeVersion = 1
  Suites <- MCSuites
  LoadReplies <- MCLoadReplies
  FaultSettings <- MCFaultSettings
  MaxDurationRequests = 2
  MaxRequests = 3
  MaxTokens = 6
  MaxCost = 9
  InputPrice = 1
  OutputPrice = 2
  Bounds = {0, 1, 2, 3}
  MaxDepth = 2
  x1 = x1
  x2 = x2
  x3 = x3
  Exchanges = {x1, x2, x3}
  KeyOf <- MCKeyOf
  Kinds = {"dify", "asyncDify", "reference", "asyncReference"}
  NoConversation = NoConversation
SYMMETRY Symmetry
INVARIANTS
  OperationsTypeOK
  AlonePublished
  RestoreSound
  PassMeansRecovered
  BudgetHolds
  ConversationKept
