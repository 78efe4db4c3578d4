CONSTANTS
  r1 = r1
  prof = prof
  Run = {r1}
  Profile = {prof}
  ProfileOf <- OneProfile
  Proc = {p1}
  NoProc = NoProc
  Build = {b1}
  NoBuild = NoBuild
  NoRun = NoRun
  Lane = {l1}
  Stalling = {p1}
  Admin = {1, 2}
  Super = {2}
  Parts = 1
  MaxAttempts = 2
SPECIFICATION DeliverySpec
PROPERTY ImplementsLifecycle
CHECK_DEADLOCK FALSE
