CONSTANTS
  p1 = p1
  utc = utc
  dst = dst
  never = never
  Profile = {p1}
  Zone = {utc, dst}
  Offset <- DstOffset
  MaxOffset = 2
  DayLength = 4
  WeekLength = 2
  MonthStarts <- Months
  Never = never
  LastInstant = 40
  Schedules <- AllKinds
  Nobody = Nobody
  Horizon = 11
  MaxEdits = 2
SPECIFICATION FairSpec
INVARIANTS SchedulerInv NextIsNext
PROPERTIES OnlySinceRegistered NoCatchUp DueIsServed
CHECK_DEADLOCK FALSE
