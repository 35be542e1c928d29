SPECIFICATION Spec
CONSTANTS
  Programs <- SomePrograms
  MemBytes = {2, 3, 4, 5}
  Alignment = 1
  AnyPlan = FALSE
INVARIANTS SameOutputs DepsPointBack EntriesDisjoint
