------------------------------ MODULE Calendar ------------------------------
(***************************************************************************)
(* next_scheduled_time (src/application/scheduling.py): the UTC instant at *)
(* which a schedule is due next, computed through the wall clock of the    *)
(* Backup Timezone.                                                        *)
(*                                                                         *)
(* Instants and wall-clock readings are natural numbers of one unit.  A    *)
(* day has DayLength units, a week WeekLength days, and months begin on    *)
(* the days MonthStarts.  A zone is its offset from UTC at every           *)
(* instant; where the offset falls, wall readings repeat and the second    *)
(* pass has fold 1 (PEP 495); where it rises, readings are left out.       *)
(***************************************************************************)
EXTENDS Integers, FiniteSets, FiniteSetsExt

CONSTANTS
    Zone,           \* the timezones that may be configured
    Offset(_, _),   \* Offset(z, t): what the clocks of z add to the instant t
    MaxOffset,      \* a bound of all offsets
    DayLength, WeekLength,
    MonthStarts,    \* the days on which months begin, from day 0 to past the horizon
    Never,          \* next_scheduled_at IS NULL
    LastInstant     \* bound: the clocks are known up to it

ASSUME CalendarAssumption ==
    /\ MaxOffset \in Nat
    /\ DayLength \in Nat \ {0} /\ WeekLength \in Nat \ {0}
    /\ MonthStarts \subseteq Nat /\ 0 \in MonthStarts
    /\ Never \notin Nat
    /\ LastInstant \in Nat /\ \A m \in MonthStarts : m * DayLength <= LastInstant

IntervalKinds == {"EVERY_N_MINUTES", "EVERY_N_HOURS", "EVERY_N_DAYS"}
CalendarKinds == {"DAILY", "WEEKLY", "MONTHLY"}
ScheduleKind  == {"MANUAL", "ONCE", "CRON"} \union IntervalKinds \union CalendarKinds

-----------------------------------------------------------------------------
(* Wall clocks: datetime.astimezone in both directions.                    *)

Wall(z, t) == t + Offset(z, t)

\* The instants at which the clocks of z show w.
Showing(z, w) == {t \in (w - MaxOffset) .. w : t >= 0 /\ Wall(z, t) = w}

\* local.fold: the clocks of z have shown this reading before.
Fold(z, t) == \E u \in Showing(z, Wall(z, t)) : u < t

\* candidate.astimezone(UTC).  A reading that the clocks leave out is taken
\* with the offset from before the gap, or with fold with the one after it.
FromWall(z, w, fold) ==
    IF Showing(z, w) # {}
    THEN IF fold THEN Max(Showing(z, w)) ELSE Min(Showing(z, w))
    ELSE LET first == Min({t \in (w - MaxOffset) .. w : t >= 0 /\ Wall(z, t) > w})
         IN w - Offset(z, IF fold THEN first ELSE first - 1)

\* Calendar fields of a reading: its day, weekday(), the first day of its
\* month and of the next, and schedule_time on a day.
DayOf(w)     == w \div DayLength
Weekday(w)   == DayOf(w) % WeekLength
MonthOf(w)   == Max({m \in MonthStarts : m <= DayOf(w)})
NextMonth(m) == Min({n \in MonthStarts : n > m})
At(d, s)     == d * DayLength + s.at

\* monthday, or the last day of a shorter month.
MonthDay(m, s) == m + Min({s.day, NextMonth(m) - m}) - 1

\* 28, the longest monthday that every month has.
ShortestMonth == Min({NextMonth(m) - m : m \in MonthStarts \ {Max(MonthStarts)}})

Instants == 0 .. LastInstant

\* What is assumed of the zones (the tz database).  Where clocks fall back,
\* every reading is shown on both sides of the fall, all of them on one day.
FallsRepeat(z) ==
    \A t, u \in Instants : t < u /\ Wall(z, t) > Wall(z, u) =>
        /\ DayOf(Wall(z, t)) = DayOf(Wall(z, u))
        /\ \A w \in Wall(z, u) .. Wall(z, t) :
              /\ \E v \in 0 .. t : Wall(z, v) = w
              /\ \E v \in u .. LastInstant : Wall(z, v) = w

\* Clocks that have fallen back do not leap ahead so soon that they leave the
\* fall out again, and fall back again after a whole month at the earliest.
ChangesAreApart(z) ==
    \A u, t \in Instants : u < t /\ Fold(z, u) =>
        /\ u < t - (Offset(z, t) - Offset(z, t - 1))
        /\ Fold(z, t) /\ (\E v \in u .. t : ~Fold(z, v)) =>
              MonthOf(Wall(z, t)) > NextMonth(MonthOf(Wall(z, u)))

\* Offsets of a zone differ by a day at most.
OffsetsAreClose(z) ==
    \A t, u \in -1 .. LastInstant :
        Offset(z, t) \in 0 .. MaxOffset /\ Offset(z, t) - Offset(z, u) <= DayLength

ASSUME ClockAssumption ==
    \A z \in Zone : FallsRepeat(z) /\ ChangesAreApart(z) /\ OffsetsAreClose(z)

\* ScheduleConfig.validate and the check constraints: the columns a kind uses.
\* every is the interval in units, at the time of day, day the weekday
\* (from 0) or the monthday (from 1); columns that are NULL are 0.
ValidSchedule(s) ==
    /\ s.kind \in ScheduleKind
    /\ s.every \in Nat /\ (s.every > 0 <=> s.kind \in IntervalKinds)
    /\ s.at \in 0 .. DayLength - 1 /\ (s.at # 0 => s.kind \in CalendarKinds \union {"CRON"})
    /\ CASE s.kind = "WEEKLY"  -> s.day \in 0 .. WeekLength - 1
         [] s.kind = "MONTHLY" -> s.day \in 1 .. ShortestMonth
         [] OTHER              -> s.day = 0

-----------------------------------------------------------------------------
(* next_scheduled_time by kind of schedule; after is the current cursor.   *)

NextInterval(s, after) == after + s.every

\* local.replace keeps the fold of local, adding a timedelta drops it.
NextDaily(s, after, z) ==
    LET local == Wall(z, after)
        today == At(DayOf(local), s)
    IN IF today > local THEN FromWall(z, today, Fold(z, after))
                        ELSE FromWall(z, today + DayLength, FALSE)

\* local + timedelta(days) drops the fold even if days is 0.
NextWeekly(s, after, z) ==
    LET local == Wall(z, after)
        days  == (s.day - Weekday(local)) % WeekLength
        first == At(DayOf(local) + days, s)
    IN FromWall(z, IF first > local THEN first ELSE first + WeekLength * DayLength, FALSE)

NextMonthly(s, after, z) ==
    LET local == Wall(z, after)
        month == MonthOf(local)
        first == At(MonthDay(month, s), s)
        later == At(MonthDay(NextMonth(month), s), s)
    IN FromWall(z, IF first > local THEN first ELSE later, Fold(z, after))

\* croniter.get_next: the first instant after the cursor whose reading
\* matches; both passes of a repeated reading do, and a reading that is left
\* out is moved to one that exists.  Patterns here are one time of the day.
NextCron(s, after, z) ==
    LET day     == DayOf(Wall(z, after))
        matches == {FromWall(z, At(d, s), fold) : d \in day .. day + 2, fold \in BOOLEAN}
    IN Min({t \in matches : t > after})

next_scheduled_time(s, after, z) ==
    CASE s.kind \in {"MANUAL", "ONCE"} -> Never
      [] s.kind \in IntervalKinds      -> NextInterval(s, after)
      [] s.kind = "CRON"               -> NextCron(s, after, z)
      [] s.kind = "DAILY"              -> NextDaily(s, after, z)
      [] s.kind = "WEEKLY"             -> NextWeekly(s, after, z)
      [] s.kind = "MONTHLY"            -> NextMonthly(s, after, z)

-----------------------------------------------------------------------------
(* What a schedule means, said without reference to the algorithm.         *)

\* The readings at which a schedule is due.
Due(s, w) ==
    /\ w % DayLength = s.at
    /\ s.kind = "WEEKLY"  => Weekday(w) = s.day
    /\ s.kind = "MONTHLY" => DayOf(w) = MonthDay(MonthOf(w), s)

\* t is the instant of such a reading, shown or left out by the clocks.
Occurs(s, z, t) ==
    \E w \in t .. t + 2 * MaxOffset, fold \in BOOLEAN : Due(s, w) /\ FromWall(z, w, fold) = t

\* t is one of two instants with the same reading.
Repeats(z, t) == Cardinality(Showing(z, Wall(z, t))) > 1
=============================================================================
