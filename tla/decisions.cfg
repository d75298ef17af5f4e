SPECIFICATION Spec
CONSTANTS
    Catalog <- MCCatalog
    Stranger = "made_up"
    Rules <- MCRules
    EmbTop = 2
    LastDirect = 1
    LastHedged = 2
    LastKept = 3
    MaxChunks = 2
    MaxChars = 5
    Length <- MCLength
    HedgeChars = 1
    Keys <- MCKeys
    Embs <- MCEmbs
    Raised <- MCRaised
    Confs <- MCConfs
    Chunks = {1, 2, 3}
    MaxNamed = 3
    MaxRetries = 2
INVARIANTS TwoVoices StickyBreaksTies RerankLosesNothing CitedIsPrefix RetriesAreTransient
PROPERTIES EveryJobEnds
