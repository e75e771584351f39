SPECIFICATION LifespanFairSpec
CONSTANTS
    Candidates <- MCCandidates
    PluginId <- MCPluginId
    Allowlist = {}
    Offers <- MCOffers
    CoreTools = {"web_search"}
    Servers = {"denied", "a"}
    EnvServers <- MCEnvServers
    AllowedServers = {"a"}
    AllowedTools <- MCAllowedTools
    Tools = {"b.t"}
    Prefixed <- MCPrefixed
    Callers = {c1, c2}
    MaxStaged <- MCMaxStaged
    MaxMessages = 4
INVARIANTS PluginsAllOrNothing AnswerIsOwn NoStrayServer
PROPERTY StartsAndStops
CHECK_DEADLOCK FALSE
