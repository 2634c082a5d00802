CONSTANTS
    Names <- MCNames
    Envs <- MCEnvs
    Empty = ""
    AgentNames <- MCAgentNames
    Etags <- MCEtags
    EtagSentinel = "-"
    SettingKeys <- MCSettingKeys
    Unrestricted <- MCUnrestricted
    AgentConfigs <- MCAgentConfigs
    Queries <- MCInsecureQueries
    MaxLen = 1
SPECIFICATION Spec
INVARIANT InsecureAgentsRestricted
CHECK_DEADLOCK FALSE
