CONSTANTS
  r1 = r1
  r2 = r2
  prof = prof
  Run = {r1}
  Profile = {prof}
  ProfileOf <- OneProfile
  Proc = {p1, p2}
  NoProc = NoProc
  Build = {b1, b2}
  NoBuild = NoBuild
  NoRun = NoRun
  Lane = {l1, l2}
  Stalling <- NoProcess
SPECIFICATION FairSpec
INVARIANTS TypeOK SingleExecutor RunConsistent
CHECK_DEADLOCK FALSE
PROPERTIES TerminalIsFinal CancelCompletes AcquisitionSettles RefinesContract
