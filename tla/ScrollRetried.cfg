CONSTANTS
    Clients = {c1}
    ScrollIds = {s1, s2}
    NoScroll = NoScroll
    a = a
    b = b
    AgentConfigs <- MCAgentConfigs
    MaxRev = 0
    Index <- MCIndex
    SearchSize = 1
SPECIFICATION RetrySpec
INVARIANT RefreshKeepsEveryPage
