SPECIFICATION Spec
CHECK_DEADLOCK FALSE
CONSTANTS
    None = None
    c1 = c1
    c2 = c2
    k1 = k1
    Graphs <- MCGraphs
    Clients = {c1, c2}
    Keys = {k1}
    MaxNodes = 4
    MaxBranches = 2
    PluginTypes = {"p"}
    MaxVersion = 2
    MaxOps = 4
    MaxCrashes = 1
SYMMETRY MCSymmetry
INVARIANT ApprovalPrecedes
INVARIANT DecisionHasEdge
INVARIANT LaunchedOnce
