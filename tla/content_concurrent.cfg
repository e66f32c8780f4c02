\* Pushes and publishes side by side: no fetch, no crash.
CONSTANTS
    m = m
    n = n
    a = a
    b = b
    Blob <- MCBlob
    Manifest <- MCManifest
    Size <- MCSize
    Wanted = {m, a, b}
    LegacyBlobs <- NoBlobs
    Writer = {w1, w2}
    NoRoot = NoRoot
    HostBudget = 4
    MaxPushSize = 4
    HostTTL = 0
    EvictionProtection = 1
    MaxNow = 1
    Traffic = {"push", "publish"}
    IndexMayFail = FALSE
    DiskMayFail = FALSE
    MayCrash = FALSE
SPECIFICATION Spec
SYMMETRY Symmetry
INVARIANTS TypeOK SetsComplete NoOrphans WithinBudget PromisesFit
PROPERTY ImplementsContentStore
CHECK_DEADLOCK FALSE
