SPECIFICATION Spec
CONSTANTS
    Labels <- MCLabels
    Configs <- MCConfigs
    Default = "ots_config"
    Runs <- MCRuns
    MaxBoots = 2
    Faults = {}
INVARIANT
    SentAsRequested
CHECK_DEADLOCK FALSE
