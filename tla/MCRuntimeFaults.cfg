CONSTANTS
    a = a
    b = b
    NoBuf = NoBuf
    Bufs <- MCOneBuf
    Calls <- MCHalfRuns
    MaxChunks = 4
    MaxEvents = 4
    MaxRuns = 2
    MaxMapped = 1
    MayFailLaunch = TRUE
    MayFailDevice = TRUE
    InOrder = TRUE
    Polite = TRUE
SPECIFICATION RtFairSpec
INVARIANTS HalfRunUnreadable
PROPERTIES EverythingCompletes
CHECK_DEADLOCK FALSE
