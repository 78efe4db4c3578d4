CONSTANTS
  r1 = r1
  r2 = r2
  prof = prof
  Run = {r1, r2}
  Profile = {prof}
  ProfileOf <- OneProfile
  Proc = {p1, p2}
  NoProc = NoProc
  Build = {b1}
  NoBuild = NoBuild
  NoRun = NoRun
  Lane = {l1}
  Stalling = {p1}
SPECIFICATION Spec
CHECK_DEADLOCK FALSE
INVARIANTS OneActivePerProfile LeaseMeansActive
CONSTRAINT OneAtWork
