CONSTANTS
  Functions <- OneChain
  Programs <- NoPrograms
  Lists <- LosingLists
  AnyBlock = TRUE
SPECIFICATION Spec
INVARIANTS SameResults
CHECK_DEADLOCK FALSE
