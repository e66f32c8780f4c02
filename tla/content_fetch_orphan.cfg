\* A fetched set that is evicted while its chunks are still coming in.
CONSTANTS
    m = m
    n = n
    a = a
    b = b
    Blob <- MCBlob
    Manifest <- MCManifest
    Size <- MCSize
    Wanted = {m, a, b}
    LegacyBlobs <- NoBlobs
    Writer = {w1, w2}
    NoRoot = NoRoot
    HostBudget = 4
    MaxPushSize = 4
    HostTTL = 0
    EvictionProtection = 1
    MaxNow = 1
    Traffic = {"fetch", "push"}
    IndexMayFail = FALSE
    DiskMayFail = FALSE
    MayCrash = FALSE
SPECIFICATION Spec
SYMMETRY Symmetry
INVARIANT NoOrphans
CHECK_DEADLOCK FALSE
