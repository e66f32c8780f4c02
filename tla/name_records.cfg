\* Two publications with the service, or one with the command line.
CONSTANTS
    Client = {s1, s2, c1}
    Locked = {s1, s2}
    Peer = {p}
    Body = {1, 2}
    MaxSeq = 4
    RecordTTL = 3
    MaxAge = 2
    RepublishInterval = 1
    Overlap = FALSE
    MaxNow = 4
    None = None
SPECIFICATION Spec
SYMMETRY Symmetry
INVARIANTS TypeOK OwnedIsNewest NewestIsHeld BuildsOnNewest
PROPERTY PublicationsSupersede
CHECK_DEADLOCK FALSE
