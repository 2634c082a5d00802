CONSTANTS
    Clients = {c1}
    ScrollIds = {s1, s2}
    NoScroll = NoScroll
    a = a
    b = b
    d = d
    AgentConfigs <- MCAgentConfigs
    MaxRev = 1
    Index <- MCIndex
    SearchSize = 1
SPECIFICATION FairSpec
PROPERTIES RefreshTerminates CancelStops FetchReturns EventuallyFresh
