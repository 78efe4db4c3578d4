CONSTANTS
  Profile = {p1, p2}
  Admin = {a1}
  Session = {s1, s2}
  Kinds = {"remote", "gitlab"}
  Nothing = Nothing
  MaxOperations = 2
SPECIFICATION Spec
INVARIANTS CatalogueInv QueuedIsCurrent
PROPERTIES RootJoinedAtCreation OperationsEnd
CHECK_DEADLOCK FALSE
