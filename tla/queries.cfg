CONSTANTS
    q1 = q1
    q2 = q2
    q3 = q3
    o1 = o1
    o2 = o2
    Query = {q1, q2, q3}
    Owner = {o1, o2}
    FirstOwner = o1
    Endpoints = 2
    StartAt = 1
    MaxInflight = 2
    Calls = 2
    Timeout = 1
    ChainTimeout = 2
    OwnerTTL = 2
    RecordTTL = 1
    MaxChanges = 1
    NoOwner = NoOwner
    Nobody = Nobody
    NoConn = NoConn
    Broken = Broken
SPECIFICATION Spec
INVARIANT TypeOK
PROPERTIES OwnersRecent FailuresJustified ShedOnlyWhenFull LookupsGoForward EveryQueryAnswered
CHECK_DEADLOCK FALSE
