CONSTANTS
    m1 = m1
    i1 = i1
    cancel = cancel
    free = free
    MapRequests <- MCMapRequests
    Rundowns <- MCRundowns
    Closers <- MCClosers
    Freers <- MCFreers
SPECIFICATION MapFairSpec
INVARIANTS TypeOK FinalizedIsQuiescent CallbackAtMostOnce FreeQuiesces CancelTargetAlive
PROPERTIES ImplementsAbstractGate EveryRequestAnswered FreeTerminates
CHECK_DEADLOCK FALSE
