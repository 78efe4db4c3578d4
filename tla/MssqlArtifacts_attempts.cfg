CONSTANTS
  Operation = {o1, o2}
  Sweep = {s1, s2}
  Nobody = Nobody
  MaxFaults = 3
SPECIFICATION Spec
INVARIANTS MssqlInv CleanedIsGone
PROPERTIES RemovedIsRetrieved
CHECK_DEADLOCK FALSE
