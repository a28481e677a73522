SPECIFICATION FairSpec
CONSTANTS
    Labels <- MCLabels
    Configs <- MCConfigs
    Default = "ots_config"
    Runs <- MCRuns
    MaxBoots = 2
    Faults = {"boot", "prepare", "bookkeep", "check", "init", "save", "files", "start", "lost"}
INVARIANTS
    TypeOK
    OwnDocuments
    RecordMatches
    RecordIsFinished
PROPERTIES
    RecordsKept
    ConfigEnds
CHECK_DEADLOCK FALSE
