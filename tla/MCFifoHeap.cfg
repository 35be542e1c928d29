CONSTANTS
    MaxSteps = 5
    MaxCount = 2
    NoStep = NoStep
    Steps <- MCSteps
SPECIFICATION MCSpec
INVARIANTS HeapTypeOK HeapOrdered IteratorComplete
PROPERTIES ImplementsPending
CHECK_DEADLOCK FALSE
