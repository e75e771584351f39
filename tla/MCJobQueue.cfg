SPECIFICATION FairSpec
CONSTANTS
  Jobs = {j1}
  Workers = {w1, w2}
  NoOne = NoOne
  MaxAttempts = 3
  BatchSize = 1
  LeaseSeconds = 2
  HandlerTimeout = 1
  DispatchSlack = 1
  BaseDelay = 1
  MaxDelay = 2
  RetentionAge = 0
  MaxVersion = 7
INVARIANT JobsSafe
PROPERTIES
  OnlyClaimantSettles
  ImplementsLifecycle
  WorkFinishes
