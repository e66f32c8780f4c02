\* Pushes and fetches of all four sets, which expire, by two writers.
CONSTANTS
    m = m
    n = n
    a = a
    b = b
    Blob <- MCBlob
    Manifest <- MCManifest
    Size <- MCSize
    Wanted = {m, n, a, b}
    LegacyBlobs <- NoBlobs
    Writer = {w1, w2}
    NoRoot = NoRoot
    HostBudget = 4
    MaxPushSize = 4
    HostTTL = 1
    EvictionProtection = 1
    MaxNow = 2
    Traffic = {"push", "fetch"}
    IndexMayFail = FALSE
    DiskMayFail = FALSE
    MayCrash = FALSE
SPECIFICATION Spec
SYMMETRY Symmetry
INVARIANT OverrunBounded
PROPERTY EvictsOnlyWhatIsNeeded
CHECK_DEADLOCK FALSE
