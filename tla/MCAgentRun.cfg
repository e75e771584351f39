SPECIFICATION FairSpec
CONSTANTS
    Calls = {c1, c2, c3}
    Flagged = {c2}
    Banned = {c3}
    MaxIter = 2
    MaxRefl = 1
    MaxAttempts = 2
    MaxResumes = 2
INVARIANTS
    ConversationAnswered
    FlaggedNeedsApproval
    BudgetsHold
PROPERTY RunEnds
CHECK_DEADLOCK FALSE
