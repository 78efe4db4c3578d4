----------------------------- MODULE Scheduler ------------------------------
(***************************************************************************)
(* Schedule cursors: Scheduler.tick (src/pipeline/schedule.py) run by the  *)
(* worker's loop, beside the bot's edits of profiles (BackupService), its  *)
(* change of the Backup Timezone (SettingsService) and manual runs.        *)
(*                                                                         *)
(* Every operation that writes cursors first locks the settings row, so    *)
(* such an operation is one action; an edit is two, because the profile is *)
(* read after that lock is taken and its own row is locked only later, and *)
(* archiving or a manual run needs the row alone.                          *)
(*                                                                         *)
(* A run is abstracted to the fact that its profile has an active one      *)
(* (RunRows has its life); rows of scheduled runs stay as slots.           *)
(***************************************************************************)
EXTENDS Calendar

CONSTANTS
    Profile,
    Schedules,  \* the schedule configurations that are entered
    Nobody,     \* the settings row is not locked
    Horizon,    \* bound: time goes up to it
    MaxEdits    \* bound: edits, new timezones and manual runs of a behaviour

ASSUME SchedulerAssumption ==
    /\ \A s \in Schedules : ValidSchedule(s)
    /\ Nobody \notin Profile
    /\ Horizon \in Nat /\ MaxEdits \in Nat
    /\ Horizon + MaxOffset + 3 * (WeekLength * DayLength) <= LastInstant
    /\ \E m, n \in MonthStarts : m < n /\ Horizon + MaxOffset < m * DayLength

VARIABLES
    now,       \* utc_now()
    zone,      \* system_settings.backup_timezone
    profile,   \* backup_profiles: the columns the scheduler reads
    slots,     \* scheduled_for of the SCHEDULED rows of a profile
    active,    \* profiles with a queued or running run
    editor,    \* the profile whose edit holds the settings row, or Nobody
    seen,      \* its column enabled as the edit read it
    edits,     \* how many operations of the bot have happened
    since,     \* history: when the profile's schedule was last registered
    once       \* history: slots since the schedule became ONCE

vars == <<now, zone, profile, slots, active, editor, seen, edits, since, once>>

NoSchedule == [kind |-> "MANUAL", every |-> 0, at |-> 0, day |-> 0]

Row == [exists : BOOLEAN, enabled : BOOLEAN, archived : BOOLEAN,
        schedule : Schedules \union {NoSchedule}, cursor : Nat \union {Never}]

SchedulerTypeOK ==
    /\ now \in 0 .. Horizon
    /\ zone \in Zone
    /\ profile \in [Profile -> Row]
    /\ slots \in [Profile -> SUBSET (0 .. now)]
    /\ active \subseteq Profile
    /\ editor \in Profile \union {Nobody}
    /\ seen \in BOOLEAN
    /\ edits \in 0 .. MaxEdits
    /\ since \in [Profile -> Nat]
    /\ once \in [Profile -> Nat]

Init ==
    /\ now = 0
    /\ zone \in Zone
    /\ profile = [p \in Profile |-> [exists |-> FALSE, enabled |-> FALSE, archived |-> FALSE,
                                     schedule |-> NoSchedule, cursor |-> Never]]
    /\ slots = [p \in Profile |-> {}]
    /\ active = {}
    /\ editor = Nobody
    /\ seen = FALSE
    /\ edits = 0
    /\ since = [p \in Profile |-> 0]
    /\ once = [p \in Profile |-> 0]

-----------------------------------------------------------------------------
Live(p)      == profile[p].exists /\ ~profile[p].archived
Kind(p)      == profile[p].schedule.kind
OnCalendar(s) == s.kind \in CalendarKinds \union {"CRON"}

\* The query of tick.
Scheduled(p) == Live(p) /\ profile[p].enabled /\ Kind(p) # "MANUAL"

IsDue(p) == profile[p].cursor # Never /\ profile[p].cursor <= now

\* next_scheduled_time as a table, for the cursors that occur.
NextTime == [s \in Schedules |-> [after \in 0 .. Horizon |-> [z \in Zone |->
                next_scheduled_time(s, after, z)]]]

\* An operation of the bot takes place.
Operates == edits < MaxEdits /\ edits' = edits + 1

\* _register_schedule on a profile as it is about to be: cron waits for its
\* next match, everything else is due at once.
Registered(row) ==
    IF row.schedule.kind = "MANUAL" \/ ~row.enabled THEN Never
    ELSE IF row.schedule.kind = "CRON" THEN NextTime[row.schedule][now][zone]
    ELSE now

-----------------------------------------------------------------------------
(* The worker.                                                             *)

\* Seeded bug: the next time is counted from the slot that was due.
MovedFromSlot(p) == profile[p].cursor

\* A due cursor moves on from the present, not from the slot, so that missed
\* occurrences are not replayed.
MovedFrom(p) == Max({profile[p].cursor, now})

\* Seeded bug: the cursor of a ONCE profile is not cleared.
TickedKeepsOnce(p) ==
    IF Scheduled(p) /\ Kind(p) # "ONCE" /\ IsDue(p)
    THEN NextTime[profile[p].schedule][MovedFrom(p)][zone]
    ELSE profile[p].cursor

\* tick: the cursor of a profile after it.
TickedCursor(p) ==
    LET s == profile[p].schedule
    IN IF ~Scheduled(p) THEN profile[p].cursor
       ELSE IF profile[p].cursor = Never
       THEN IF s.kind = "ONCE" THEN Never ELSE NextTime[s][now][zone]
       ELSE IF ~IsDue(p) THEN profile[p].cursor
       ELSE IF s.kind = "ONCE" THEN Never
       ELSE NextTime[s][MovedFrom(p)][zone]

\* The profiles that tick queues or skips: enqueue_scheduled finds an
\* existing row for a slot that it has had.
Served == {p \in Profile : Scheduled(p) /\ IsDue(p) /\ profile[p].cursor \notin slots[p]}

\* One transaction for all profiles.  A served profile with an active run
\* gets a SKIPPED row and stays as it is, another one a QUEUED row.
Tick ==
    /\ editor = Nobody
    /\ profile' = [p \in Profile |-> [profile[p] EXCEPT !.cursor = TickedCursor(p)]]
    /\ slots' = [p \in Profile |->
                    IF p \in Served THEN slots[p] \union {profile[p].cursor} ELSE slots[p]]
    /\ active' = active \union Served
    /\ once' = [p \in Profile |-> IF p \in Served THEN once[p] + 1 ELSE once[p]]
    /\ UNCHANGED <<now, zone, editor, seen, edits, since>>

\* External: the run ends in some way.
RunEnds(p) ==
    /\ p \in active
    /\ active' = active \ {p}
    /\ UNCHANGED <<now, zone, profile, slots, editor, seen, edits, since, once>>

Advance ==
    /\ now < Horizon
    /\ now' = now + 1
    /\ UNCHANGED <<zone, profile, slots, active, editor, seen, edits, since, once>>

-----------------------------------------------------------------------------
(* The bot.                                                                *)

\* _create_configured: validation, then the settings row is locked, the
\* profile inserted with its first cursor and all of it committed.
Create(p, s) ==
    /\ ~profile[p].exists
    /\ editor = Nobody
    /\ Operates
    /\ LET row == [exists |-> TRUE, enabled |-> TRUE, archived |-> FALSE,
                   schedule |-> s, cursor |-> Never]
       IN profile' = [profile EXCEPT ![p] = [row EXCEPT !.cursor = Registered(row)]]
    /\ since' = [since EXCEPT ![p] = now]
    /\ UNCHANGED <<now, zone, slots, active, editor, seen, once>>

\* edit, update_configuration: the settings row is locked and the profile
\* found not archived.
BeginEdit(p) ==
    /\ editor = Nobody
    /\ Live(p)
    /\ Operates
    /\ editor' = p
    /\ seen' = profile[p].enabled
    /\ UNCHANGED <<now, zone, profile, slots, active, since, once>>

\* A rejected value, an exception, or an edit of name or description only.
EndEdit ==
    /\ editor # Nobody
    /\ editor' = Nobody
    /\ seen' = FALSE
    /\ UNCHANGED <<now, zone, profile, slots, active, edits, since, once>>

\* Seeded bug: disabling keeps the cursor, and enabling believes it.
ToggledKeeping(p, on) == profile[p].cursor

\* The cursor that edit(enabled=on) leaves.
ToggledCursor(p, on) ==
    LET s == profile[p].schedule
    IN IF s.kind = "MANUAL" \/ (~on /\ s.kind # "ONCE") THEN Never
       ELSE IF ~profile[p].enabled /\ s.kind # "ONCE"
       THEN Registered([profile[p] EXCEPT !.enabled = on])
       ELSE profile[p].cursor

\* edit, its end: the row is locked and read again, but not archived_at
\* tested again.
Toggle(on) ==
    /\ editor # Nobody
    /\ profile' = [profile EXCEPT ![editor] =
                     [@ EXCEPT !.enabled = on, !.cursor = ToggledCursor(editor, on)]]
    /\ since' = IF on /\ ~profile[editor].enabled /\ Kind(editor) # "ONCE"
                THEN [since EXCEPT ![editor] = now] ELSE since
    /\ editor' = Nobody
    /\ seen' = FALSE
    /\ UNCHANGED <<now, zone, slots, active, edits, once>>

\* Seeded bug: an update keeps the cursor that is there.
UpdatedKeeping(p, s, on) == IF s.kind = "MANUAL" \/ ~on THEN Never ELSE profile[p].cursor

\* The cursor that update_configuration leaves: ONCE to ONCE keeps a slot
\* that is consumed consumed.
UpdatedCursor(p, s, on) ==
    IF s.kind = "MANUAL" THEN Never
    ELSE IF s.kind = "ONCE" THEN IF Kind(p) = "ONCE" THEN profile[p].cursor ELSE now
    ELSE Registered([profile[p] EXCEPT !.schedule = s, !.enabled = on])

\* update_configuration writes the column only if it differs from what it read.
UpdatedEnabled(p, on) == IF on = seen THEN profile[p].enabled ELSE on

\* update_configuration, its end; archived_at is not read again either.
Update(s, on) ==
    /\ editor # Nobody
    /\ profile' = [profile EXCEPT ![editor] =
                     [@ EXCEPT !.enabled = UpdatedEnabled(editor, on), !.schedule = s,
                               !.cursor = UpdatedCursor(editor, s, on)]]
    /\ IF s.kind = "ONCE" /\ Kind(editor) = "ONCE"
       THEN UNCHANGED <<since, once>>
       ELSE /\ since' = [since EXCEPT ![editor] = now]
            /\ once' = [once EXCEPT ![editor] = 0]
    /\ editor' = Nobody
    /\ seen' = FALSE
    /\ UNCHANGED <<now, zone, slots, active, edits>>

\* delete: takes no lock on the settings and leaves the cursor.
Archive(p) ==
    /\ Live(p)
    /\ profile' = [profile EXCEPT ![p].enabled = FALSE, ![p].archived = TRUE]
    /\ UNCHANGED <<now, zone, slots, active, editor, seen, edits, since, once>>

\* Seeded bug: only cron profiles are moved.
RezonedCron == {p \in Profile : Live(p) /\ profile[p].enabled /\ Kind(p) = "CRON"}

\* The profiles whose cursors a new timezone moves.
Rezoned == {p \in Profile : Live(p) /\ profile[p].enabled /\ OnCalendar(profile[p].schedule)}

\* set_backup_timezone: every cursor that depends on it is computed again.
SetTimezone(z) ==
    /\ editor = Nobody
    /\ Operates
    /\ zone' = z
    /\ profile' = [p \in Profile |->
                     IF p \in Rezoned
                     THEN [profile[p] EXCEPT
                             !.cursor = NextTime[profile[p].schedule][now][z]]
                     ELSE profile[p]]
    /\ since' = [p \in Profile |-> IF p \in Rezoned THEN now ELSE since[p]]
    /\ UNCHANGED <<now, slots, active, editor, seen, once>>

\* enqueue_manual on a profile without an active run; with one it changes nothing.
RunManually(p) ==
    /\ Live(p) /\ profile[p].enabled
    /\ p \notin active
    /\ Operates
    /\ active' = active \union {p}
    /\ UNCHANGED <<now, zone, profile, slots, editor, seen, since, once>>

-----------------------------------------------------------------------------
BotActs ==
    \/ \E p \in Profile : BeginEdit(p) \/ Archive(p) \/ RunManually(p)
    \/ \E p \in Profile, s \in Schedules : Create(p, s)
    \/ \E z \in Zone \ {zone} : SetTimezone(z)

EditCommits ==
    \/ EndEdit
    \/ \E on \in BOOLEAN : Toggle(on)
    \/ \E s \in Schedules, on \in BOOLEAN : Update(s, on)

Next ==
    \/ Tick \/ Advance
    \/ BotActs \/ EditCommits
    \/ \E p \in Profile : RunEnds(p)

Spec == Init /\ [][Next]_vars

\* The worker polls, a transaction ends, and time passes.
FairSpec == Spec /\ WF_vars(Tick) /\ WF_vars(EndEdit) /\ WF_vars(Advance)
-----------------------------------------------------------------------------
(* Properties.                                                             *)

\* A live profile that recurs and is enabled always knows when it is due next,
\* and one that is manual or disabled is never due: over edits that meet ticks,
\* timezone changes and each other (_register_schedule, edit, tick).
CursorMatchesSchedule ==
    \A p \in Profile :
        Live(p) /\ Kind(p) # "ONCE" =>
            (profile[p].cursor # Never <=> profile[p].enabled /\ Kind(p) # "MANUAL")

\* A cursor that lies ahead is an occurrence of the schedule in the timezone
\* that is stored now, and no earlier occurrence is jumped over: no cursor of
\* an earlier timezone or schedule survives (set_backup_timezone, tick).  A
\* reading that clocks leave out may be jumped over, as may a second pass.
NextIsNext ==
    \A p \in Profile :
        LET s == profile[p].schedule
            c == profile[p].cursor
        IN Live(p) /\ OnCalendar(s) /\ c # Never /\ c > now =>
            /\ Occurs(s, zone, c)
            /\ \A t \in now + 1 .. c - 1 : ~(Due(s, Wall(zone, t)) /\ ~Fold(zone, t))

\* "Once" is once: until the schedule is changed to another kind, a ONCE
\* profile is queued or skipped for one slot at most, whatever is edited.
OnceIsOnce == \A p \in Profile : Kind(p) = "ONCE" => once[p] <= 1

\* The cursors are of the right type and kind, and ONCE is once.
SchedulerInv == SchedulerTypeOK /\ CursorMatchesSchedule /\ OnceIsOnce

\* In the second pass of a repeated reading a weekly cursor may fall back to
\* the first one.
FellBack(p) == Kind(p) = "WEEKLY" /\ profile[p].cursor # Never /\ Repeats(zone, profile[p].cursor)

\* A slot that is queued or skipped is not older than the registration of the
\* schedule in force: nothing is owed from before an edit, an enabling or a
\* change of timezone.
OnlySinceRegistered ==
    [][\A p \in Profile : FellBack(p) \/ \A t \in slots'[p] \ slots[p] : t >= since[p]]_vars

\* However long the worker was away, a tick serves a profile for one slot and
\* leaves it due in the future: missed occurrences are not caught up.
NoCatchUp ==
    [][\A p \in Profile : slots'[p] # slots[p] => ~IsDue(p)' \/ FellBack(p)']_vars

\* A due profile is served, disabled, archived or edited in the end.
DueIsServed ==
    \A p \in Profile : (Scheduled(p) /\ IsDue(p)) ~> ~(Scheduled(p) /\ IsDue(p))
=============================================================================
