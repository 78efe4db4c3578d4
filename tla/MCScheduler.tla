---------------------------- MODULE MCScheduler -----------------------------
(* A small instance of Scheduler for TLC: days of four units, weeks of two   *)
(* days, months of two and three days.  In the zone dst the readings 4 and 5 *)
(* (the first two hours of day 1) come twice and 8 and 9 (those of day 2)    *)
(* not at all.                                                               *)
EXTENDS Scheduler

CONSTANTS p1, utc, dst, never

DstOffset(z, t) == IF z = dst /\ (t < 4 \/ t >= 8) THEN 2 ELSE 0

Months == {0, 2, 5, 7, 10}

Plan(kind, every, at, day) == [kind |-> kind, every |-> every, at |-> at, day |-> day]

AllKinds ==
    {Plan("MANUAL", 0, 0, 0), Plan("ONCE", 0, 0, 0), Plan("EVERY_N_HOURS", 3, 0, 0),
     Plan("DAILY", 0, 1, 0), Plan("WEEKLY", 0, 1, 1), Plan("MONTHLY", 0, 0, 2),
     Plan("CRON", 0, 1, 0)}
=============================================================================
