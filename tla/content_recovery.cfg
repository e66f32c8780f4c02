\* All traffic, failing writes, crashes and restarts, on a directory that may hold old blobs.
CONSTANTS
    m = m
    n = n
    a = a
    b = b
    Blob <- MCBlob
    Manifest <- MCManifest
    Size <- MCSize
    Wanted = {m, b}
    LegacyBlobs = {m, a}
    Writer = {w1, w2}
    NoRoot = NoRoot
    HostBudget = 4
    MaxPushSize = 4
    HostTTL = 0
    EvictionProtection = 0
    MaxNow = 0
    Traffic = {"push", "publish", "fetch"}
    IndexMayFail = TRUE
    DiskMayFail = TRUE
    MayCrash = TRUE
SPECIFICATION Spec
SYMMETRY Symmetry
INVARIANTS Accounting OwnedComplete
PROPERTIES RecordedBytesKept OwnedDurable
CHECK_DEADLOCK FALSE
