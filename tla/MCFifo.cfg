CONSTANTS
    Kernels = 3
    Sizes = {1, 3}
    Groups = {1, 2}
    Programs <- AllPrograms
    SizeGoals <- MCGoals
    Alignment = 2
    GoalGroups = 2
    MaxInputDeltatime = 3
    Wrap = 16
    NoAlloc = NoAlloc
SPECIFICATION FifoSpec
INVARIANTS MemoryExclusive ValuesFit BudgetKept NoEmptyTurn ComputesProgram ResultValidates
PROPERTIES WithinBudgetFirst
