CONSTANTS
    Clients = {c1, c2}
    ScrollIds = {s1, s2}
    NoScroll = NoScroll
    a = a
    b = b
    d = d
    AgentConfigs <- MCAgentConfigs
    MaxRev = 2
    Index <- MCIndex
    SearchSize = 1
SYMMETRY Symmetry
SPECIFICATION Spec
INVARIANTS TypeOK AnswersAreSnapshots PublishedIsFresh NoUnexplainedLeak
PROPERTIES NeverRefusedAfterServed KeepsPromise
