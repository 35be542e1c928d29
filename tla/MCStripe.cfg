CONSTANTS
  Functions <- AllFunctions
  Programs <- AllPrograms
  Lists <- AllLists
  AnyBlock = FALSE
SPECIFICATION Spec
INVARIANTS SameResults OnlyForgottenUnordered TilesFit TileIsCheapest
CHECK_DEADLOCK FALSE
