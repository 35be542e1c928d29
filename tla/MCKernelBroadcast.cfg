SPECIFICATION Spec
CONSTANTS
  Width_ = 1000
  SelectThreshold = 32
  MaxThreads = 4
  Jobs <- MCBroadcastJobs
INVARIANTS SameValues
