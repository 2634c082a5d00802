CONSTANTS
    Names <- MCNames
    Envs <- MCEnvs
    Empty = ""
    AgentNames <- MCAgentNames
    Etags <- MCEtags
    EtagSentinel = "-"
    SettingKeys <- MCSettingKeys
    Unrestricted <- MCUnrestricted
    AgentConfigs <- MCAgentConfigs
    Queries <- MCQueries
    MaxLen = 3
SPECIFICATION Spec
INVARIANTS TypeOK MostSpecificWins TieBreak
CHECK_DEADLOCK FALSE
