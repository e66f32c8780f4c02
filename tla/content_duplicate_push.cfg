\* Two pushes of the same set.
CONSTANTS
    m = m
    n = n
    a = a
    b = b
    Blob <- MCBlob
    Manifest <- MCManifest
    Size <- MCSize
    Wanted = {n, a}
    LegacyBlobs <- NoBlobs
    Writer = {w1, w2}
    NoRoot = NoRoot
    HostBudget = 4
    MaxPushSize = 4
    HostTTL = 0
    EvictionProtection = 1
    MaxNow = 1
    Traffic = {"push"}
    IndexMayFail = FALSE
    DiskMayFail = FALSE
    MayCrash = FALSE
SPECIFICATION Spec
SYMMETRY Symmetry
PROPERTY EvictsOnlyForRoom
CHECK_DEADLOCK FALSE
