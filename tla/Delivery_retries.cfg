CONSTANTS
  r1 = r1
  prof = prof
  Run = {r1}
  Profile = {prof}
  ProfileOf <- OneProfile
  Proc = {p1, p2}
  NoProc = NoProc
  Build = {b1}
  NoBuild = NoBuild
  NoRun = NoRun
  Lane = {l1}
  Stalling <- NoProcess
  Admin = {1}
  Super = {}
  Parts = 2
  MaxAttempts = 2
SPECIFICATION FairDelivery
INVARIANTS DeliveryInv ProgressIsReal
PROPERTIES NotResent PendingSettles
CHECK_DEADLOCK FALSE
