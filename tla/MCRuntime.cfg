CONSTANTS
    a = a
    b = b
    NoBuf = NoBuf
    Bufs <- MCBufs
    Calls <- MCCalls
    MaxChunks = 5
    MaxEvents = 4
    MaxRuns = 2
    MaxMapped = 1
    MayFailLaunch = FALSE
    MayFailDevice = FALSE
    InOrder = FALSE
    Polite = TRUE
SPECIFICATION RtSpec
INVARIANTS MapSeesLogical NoConflict KernelMemoryHeld
CHECK_DEADLOCK FALSE
