CONSTANTS
    Query = {q}
    User = {u, v}
    Other = {"transfer", "burn", "announce", "dust"}
    MaxTx = 3
    MaxOther = 1
    MaxTip = 4
    MaxReorg = 1
    MinConf = 2
    Place <- MCPlace
    MaxScan = 2
    MaxHops = 1
    OwnerTTL = 2
    NotFoundTTL = 1
    Timeout = 1
    None = None
SPECIFICATION Spec
SYMMETRY Symmetry
INVARIANTS TypeOK AnswersJustified NotFoundJustified CacheRecent
PROPERTIES WinnerStays OnlyTheHolderRebinds
CHECK_DEADLOCK FALSE
