\* Calls of fitLocked on every index over three blobs.
CONSTANTS
    m = m
    a = a
    b = b
    Blob <- MCBlob
    Manifest <- MCManifest
    Size <- MCSize
    HostBudget = 4
    MaxPushSize = 4
    HostTTL = 1
    EvictionProtection = 1
    IndexMayFail = TRUE
    Asked = {1, 3, 5}
    Promised = {1}
    Directories <- MCDirectories
    Claims <- MCClaims
    Now = 2
SPECIFICATION Spec
INVARIANTS TypeOK CallIsOnePass PassesStayOpen DryRunTells DeathsForeseen
PROPERTIES StepsRunOut
