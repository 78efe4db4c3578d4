CONSTANTS
  Run = {r1, r2}
  Foreign = {f1}
  Nobody = Nobody
  MaxFaults = 2
SPECIFICATION Spec
INVARIANT GitlabInv
PROPERTIES RemovedIsCopied QueueMoves
CHECK_DEADLOCK FALSE
