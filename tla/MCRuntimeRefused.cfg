CONSTANTS
    a = a
    b = b
    NoBuf = NoBuf
    Bufs <- MCBufs
    Calls <- MCCalls
    MaxChunks = 5
    MaxEvents = 3
    MaxRuns = 2
    MaxMapped = 2
    MayFailLaunch = TRUE
    MayFailDevice = FALSE
    InOrder = FALSE
    Polite = TRUE
SPECIFICATION RtSpec
INVARIANTS KernelMemoryHeld
CHECK_DEADLOCK FALSE
