CONSTANTS
  r1 = r1
  r2 = r2
  prof = prof
  Run = {r1}
  Profile = {prof}
  ProfileOf <- OneProfile
  Proc = {p1, p2}
  NoProc = NoProc
  Build = {b1}
  NoBuild = NoBuild
  NoRun = NoRun
  Lane = {l1}
  Stalling <- NoProcess
SPECIFICATION Spec
INVARIANTS NoStrandedDelivery
SYMMETRY Symmetry
CHECK_DEADLOCK FALSE
