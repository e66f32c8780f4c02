\* Two command lines that publish at the same time.
CONSTANTS
    Client = {c1, c2}
    Locked = {}
    Peer = {p}
    Body = {1}
    MaxSeq = 5
    RecordTTL = 4
    MaxAge = 2
    RepublishInterval = 1
    Overlap = TRUE
    MaxNow = 5
    None = None
SPECIFICATION Spec
INVARIANT NewestIsHeld
CHECK_DEADLOCK FALSE
