SPECIFICATION LiveSpec
CONSTANTS
  c1 = c1  c2 = c2  s1 = s1  s2 = s2
  legal = legal  finance = finance
  Clients = {c1, c2}
  Sweepers = {s1, s2}
  Expirer = expirer
  NoTxn = NoTxn
  Stages <- TwoStages
  Proposed = proposed
  Edits = {edit}
  NoEdit = NoEdit
  MaxAttempts = 2
  BackgroundJobs = TRUE
  Faults = {"raise", "disconnect"}
  MaxRequests = 3
  MaxCrashes = 1
INVARIANT ApprovalSafe
PROPERTIES DecisionStands OrphanResolved
CHECK_DEADLOCK FALSE
