SPECIFICATION FairSpec
CONSTANTS
  e1 = e1
  d1 = d1
  Nodes <- MCNodes
  Edges <- MCEdges
  Entry = "ap"
  Kind <- MCKind
  JoinOf <- MCJoinOf
  ForkOf <- MCForkOf
  Needs <- MCNeeds
  CancelRemaining = {"j"}
  Selects <- MCSelects
  Requests = {d1}
  ReceiptAware = {"p", "u", "x"}
  MaxRetries <- MCMaxRetries
  Errors = {"retryable", "nonretryable"}
  Executors = {e1}
  Overlap = TRUE
  MaxAttempts = 3
  MaxResumes = 1
  MaxLosses = 1
  DurationGuard = TRUE
INVARIANT RunSafe
PROPERTIES NothingUndone RunEndsOnce
CHECK_DEADLOCK FALSE
