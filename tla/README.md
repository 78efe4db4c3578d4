# A verification development for backup-telebot

backup-telebot makes backups of databases, files and GitLab instances on a
schedule or on request and delivers them to Telegram users. A *bot* process
talks to operators and writes rows; a *worker* process claims rows, builds
artifacts and uploads them; both share a PostgreSQL database, and the worker
owns two directory trees, the work root and the spool of finalized artifacts.

This directory holds TLA+ modules of that program, the TLC configurations that
check them on small instances, and theorems that TLAPS proves for every
instance. Paths below are relative to the repository's root; `pipeline/…`,
`bootstrap/…`, `application/…` stand for `src/pipeline/…` and so on.

    tlc -config RunLifecycle_recovery.cfg MCRunLifecycle     (and so on, see Runs)
    tlapm Delivery_proofs.tla                                (and so on, see Proofs)

## 1. Inventory

### The parts

| Part | State | Operations | Talks to | Module |
|---|---|---|---|---|
| Run table and `RunService` (`pipeline/jobs.py`, `database/models/backup_run.py`) | one row per run: status, cancel flag, lease (owner, expiry), workspace path, pending directory, final metadata; delivery rows | enqueue (manual, scheduled, skipped), request_cancel, retry_failed, purge, claim, claim_cancel_requested, finalize_cancel_requested, renew | everybody; row locks, conditional updates and a partial unique index | RunRows |
| Worker process (`bootstrap/worker.py`) | task set, owner string | start-up cleanup, poll loop, claim, shutdown | run table, runner, scheduler, transport | RunLifecycle, Transport |
| `PipelineRunner` (`pipeline/worker.py`) | per task: run object of its session, heartbeat, deadline | load, resume, build, publish, record, deliver, cancel, fail | run table, work root, spool, Telegram | RunLifecycle |
| Finalisation (`pipeline/finalize.py`, `workspace.py`, `cooperative.py`) | workspace and spool directories | create, move, split, publish manifest, verify, remove | file system, from threads that cannot be killed | RunLifecycle |
| Recovery and retention (`pipeline/recovery.py`, `failed_artifacts.py`) | none | finish recorded cleanups, expire failed artifacts, retry MSSQL cleanups | run table, file system, SQL Server hosts | RunLifecycle, MssqlArtifacts |
| Delivery (`pipeline/delivery.py`) | delivery rows: status, next part, attempts, next attempt time | select recipients, upload parts, record, give up, skip, finish | run table, users, Telegram | Delivery |
| Telegram transport (`infrastructure/telegram/transport.py`) | client, session lock, bootstrap marker | prepare, send, retire, close | Telegram | Transport |
| Scheduler (`pipeline/schedule.py`, `application/scheduling.py`, `settings_service.py`) | cursor `next_scheduled_at` per profile, timezone | tick, register, set_backup_timezone | profiles, settings, run table | Scheduler, Calendar |
| Profile, administration and server services (`application/backup_service.py`, `admin_service.py`, `server_service.py`) | profiles and their source rows, assignments, users, servers | create, reconfigure, edit, archive, assign, enable, delete | database rows under locks | Catalogue |
| Profile dialogue (`presentation/telegram/wizards.py`, `runtime/fsm.py`, `application/profile_config.py`) | conversation: state, history, draft, options; secrets | answer, back, confirm, leave, expire | profile service | Wizard |
| Files acquisition (`pipeline/acquisition/local_files.py`, `remote_files.py`, `sqlite.py`) | walk, budget, archive; a snapshot on a server | validate, walk, copy, snapshot, download, remove | file system others write to, SSH | FilesAcquisition |
| GitLab acquisition and helper (`pipeline/acquisition/gitlab.py`, `bootstrap/gitlab_helper.py`) | helper's execution lock, lock file, native and staged files | request, list, run, detect, settle, copy, remove, collect | a socket, the GitLab container, the backup root | GitlabAcquisition |
| SQL Server acquisition and cleanup (`pipeline/acquisition/mssql.py`, parts of `worker.py`, `recovery.py`) | cleanup records, files on the server | record, back up, retrieve, remove, sweep | SQL Server, its host, run table | MssqlArtifacts |

Parts without a protocol between actors (acquisition of PostgreSQL and MySQL,
transforms, health, logging, command line, configuration, migrations, texts) are
listed with the reason in `PROJECT.json` and in section 7.

### What is hard here

* **Leases.** A run belongs to whoever's name is in `lease_owner` until
  `lease_expires_at`. A crash leaves the lease behind; a stall of the event
  loop lets it run out under a task that is still going to write.
* **Commits that are fenced and commits that are not.** Boundaries re-read
  owner and cancel flag, some under the row lock of the write that follows,
  some in an earlier transaction, some not at all (`_resume_finalized`, `_fail`,
  the selection of recipients, giving up, skipping, completing).
* **Files and rows.** No transaction spans both. The order of "name it", "make
  it", "record it", "remove it", "forget it" decides what a crash leaves. The
  same holds for files on other machines: SQL Server backups, GitLab backups,
  SQLite snapshots.
* **Cancellation.** It may hit any step, its handler included, and arrives by
  way of a flag that a heartbeat polls.
* **Telegram.** Uploads are not idempotent, acknowledgments get lost, and one
  session file tolerates one client.
* **Several statements, one decision.** READ COMMITTED lets another transaction
  commit between two statements; a session does not reread what it has loaded.
* **Sources that change while they are read**, and requests whose sender has
  stopped waiting.
* **Wall clocks** that repeat and skip readings, under cursors kept in UTC.
* **Going back.** A draft keeps what was answered on a branch that was left.

The hazards, each at its line and with the properties that watch it, are in
`PROJECT.json`.

### What makes each part correct

* Run table: one active run per profile; a lease only on an active run;
  terminal states are final but for an operator's retry.
* Worker and runner: one task per run; a run waiting for delivery has its
  artifact; whatever is in the spool is named by a row; queued and running runs
  settle; cancellations complete.
* Delivery: recorded progress was accepted by Telegram; it lags by one part at
  most; recorded parts are not sent again; uploads are within the budget;
  pending recipients settle; a success leaves nobody pending or failed.
* Scheduler: a cursor is the next occurrence in the timezone in force; nothing is
  owed from before a registration; missed occurrences are not caught up; a due
  profile is served.
* Catalogue: what a run is queued with was one configuration; a root has one
  GitLab profile; operations end.
* Dialogue: what is saved is what was last answered, with its own secrets.
* Transport: one client writes the session file; an acknowledged upload is
  reported; a revoked session stays revoked; every call ends.
* Files: one version of each file, whole directories, the validated source, the
  budget; a snapshot stays on a server only if its removal failed or was prevented.
* GitLab: a native backup goes only when its copy exists; a run gets its own; the
  helper's queue moves.
* SQL Server: every file that may be removed is recorded; "cleaned" is true; only
  what was retrieved is removed.

## 2. The modules around a run

```
RunRows  ------->  RunLifecycle  ------->  Delivery  ------->  MCDelivery
                     |    \                   `---------->  Delivery_proofs
                     |     `------------->  MCRunLifecycle
                     `-- implements ----->  RunContract

Calendar -> Scheduler -> MCScheduler,        Scheduler_proofs
MssqlArtifacts  ---->  MCMssqlArtifacts,    MssqlArtifacts_proofs
GitlabAcquisition  ->  MCGitlabAcquisition, GitlabAcquisition_proofs
Catalogue        ---->  MCCatalogue,         Catalogue_proofs
Transport        ---->  MCTransport,         Transport_proofs
FilesAcquisition ---->  MCFilesAcquisition,  FilesAcquisition_proofs
Wizard           ---->  MCWizard,            Wizard_proofs
```

**RunRows** is the table and `RunService`. `row[r]` has the columns that
decide anything; `dlv` is the *set* of statuses of the run's delivery rows, and
`final` says that size, hash, file name and artifact rows are recorded. A lease
is an owner and a flag `live` for "expires in the future". `spool[r][b]` is a
directory on disk: absent, without its manifest, or complete. One action is one
committed transaction. `retry_failed` is two, because between its check
and its conditional update another transaction can make a run of the profile
active; the row it holds `FOR UPDATE` meanwhile is `locked`. The unique index is
the operator `IndexAllows`.

**RunLifecycle** adds the processes. A *slot* is one of the
`MAX_CONCURRENT_BACKUPS` tasks of a process, `job[s]` what its task knows: the
run, a program counter, the pending directory cached in its session, in the
cancellation handler whether the row returned a workspace path, and whether its
heartbeat still runs. `ws[r]` says whose files are in the run's workspace. Every
transaction and every file system step is an action; between two of them anyone
may act. The counter follows `execute`:

| `pc` | code |
|---|---|
| load | `execute` reads the row, `worker.py` 109-128 |
| recover, adopt | `_resume_finalized`: examine the recorded directory, then commit, 580-652 |
| start, workspace, record | `_build` up to the recorded workspace, 299-323 |
| building, finalize | stages of the build, 325-481; naming the directory, 482-496 |
| publish, commit, sweep | `finalize_artifact`; metadata commit 514-552; workspace removal 558-561 |
| deliver, select, sending, cleanup | `DeliveryService.attempt`, `delivery.py` 285-622 |
| cancelling, cancelled | handler of `CancelledError`, `worker.py` 129-135, 693-738 |
| failing, fail, failed (rejecting, reject) | handler of other exceptions, 136-152, 740-791; the second pair carries an error code that ends a finalized run |

Exceptions are the action `Raise`, enabled wherever the code can raise. The
heartbeat is four actions that cut into any step of its task. `Stalling` names
the processes whose event loop may stall beyond a lease: only their leases run
out under a working task.

**RunContract** is what an operator is promised, without workers, leases,
files and crashes: accepted once per profile, ready only with the artifact
retained, retained until the run ended, retried only from a retained artifact.
RunLifecycle implements it under `st <- Stage[status]` and
`kept <- RetainedArtifactVerifies`.

**Delivery** is the loop of `DeliveryService.attempt` in place of the set
`dlv`. It adds the delivery rows (`rcp`), what a task remembers (`task`: phase,
session copies of the rows, recipients left, part in hand), who is entitled now,
and, for the properties, what Telegram accepted (`got`) and how often a part
went out (`sent`). Every other step is a step of RunLifecycle under `Keep`.
`ImplementsLifecycle` states that the loop is a refinement of RunLifecycle's
summary of it. The run's end is judged by the session copies, as in the code.

**MCRunLifecycle**, **MCDelivery** are instances for TLC.
**Delivery_proofs** holds the theorems about RunLifecycle, first those that any
worker keeps, then those that need workers which do not outlive their leases, and,
built on them, those about the loop.

### Modelling decisions

* Autoflush makes `Start` and `CommitArtifact` write before the boundary's
  refresh in the same transaction, so ownership check and write are atomic
  there. `Adopt` has no check. The ORM writes only changed attributes, so
  `CommitArtifact` does not write an unchanged `pending_directory`.
* A graceful stop is a crash: both cancel the tasks, and what the handlers still
  do is a prefix of what the model does.
* Incarnations are bounded by `Proc`: a process that died is replaced by the
  next and the last one does not die. Directory names carry a time and are fresh;
  `Build` bounds how many builds a run may have.
* Directory removals succeed. Start-up recovery is one commit, preceded, when
  interrupted, by any part of its removals; a workspace removal and the commit
  that clears its path are one step (`SweepWorkspace`), since removing again is
  harmless.
* Capacity, claim order, error texts and the stage column are left out. Due
  times exist in Delivery as a flag.
* One retry at a time holds a row lock: retries of two runs of one profile would
  meet at the index as retry and enqueue do.
* `Attempt` merges the commit that counts an attempt with the beginning of the
  upload, so `sent` over-counts a crash in between.
* That a profile is disabled or archived only prevents `Enqueue`; Scheduler and
  Catalogue have what disables and archives.

## 3. The other modules

Each stands for one protocol, with the rest of the system as its environment;
its header lists what it abstracts.

### Calendar and Scheduler

`next_scheduled_time` as an operator over instants that are natural numbers.
A day has `DayLength` units, a week `WeekLength` days, months begin where
`MonthStarts` says, and a zone is a function from instants to offsets, so that
wall readings may repeat (`fold`) or be left out. `Due` and `Occurs` are the reference definition
(which readings a schedule names); the invariant `NextIsNext` compares the
two on every cursor that comes up. A cron expression is a daily time, since
croniter is a library. How clocks may change is `ClockAssumption`, about the tz
database: the readings that a fall repeats are of one day and are shown on both
sides of it; clocks that have fallen leap ahead only after they have shown those readings,
and fall again after a whole month at the earliest; the offsets of a zone differ by a day at most. `LastInstant` bounds the instants it
speaks of and lies far enough behind the horizon for every cursor to be before it.

Everything that writes cursors locks the settings row first, so `Tick`,
`Create` and `SetTimezone` are one action each. An edit is two (`BeginEdit`, then
`Toggle`, `Update` or `EndEdit`), because the profile is read under that lock and
locked itself only later, and archiving or a manual run needs the profile's row
alone. A run is the fact that its profile has an active one. History variables:
`since` (when the schedule was registered), `once` (slots since it is ONCE).

### Catalogue

The services as concurrent transactions. An operation is a sequence of
*statements*, listed by `Statements`: the name of a row is `SELECT … FOR UPDATE`
of it (or an `UPDATE` that changes nothing), the other words are reads and
checks. `Begin` picks an operation, the actions `Lock`, `ReadsColumns`,
`ReadsSource`, `Validates`, … execute its next statement, and a `Commit…` action
writes and gives the locks back. What a session has loaded stays in `session[s]`
and is not refreshed by a later `SELECT` unless the code asks for it, which only
`BackupService.edit` does. `set_timezone` has the locks of
`SettingsService.set_backup_timezone`, whose effect on the cursors is in Scheduler.
`LocksSeveral` takes the rows of one statement in any order: the statements have no
`ORDER BY`. `Aborts` is PostgreSQL's deadlock
detection. A configuration is a version number with a kind of source; one remote
server is modelled.

### Wizard

One action per step of the profile dialogue, with the conversation's `state`,
`history`, `draft`, `options` and `secrets`. `Advance` is `FSMStore.transition`,
`Back` pops the state and *keeps the draft*. The history variable `clean` has for
every state of the path the draft as the answers that stand would give it; the
properties compare what is saved with it. Free texts are "set" or absent.

### Transport

`TelegramUploadTransport`, a step from one `await` to the next: `at[t]` is the
await at which a task is, `lock` who holds `_lock`, `closing` the state of the one
disconnect a client gets, `writers` how many clients of the process may still
write the session file. `Start` takes the file lock, `Kill` drops it, `Exit` and
`close` give it back. `Disconnect` may end, fail or (since nothing makes it fair)
hang; `Connects`, `SignsIn` and `RequestFails` may take effect although the answer
is lost; `Revoke` is what an operator does in Telegram.

### GitlabAcquisition

`run[r]` is where a run is in `acquire_gitlab`, `job[r]` what the helper (or, for
a remote GitLab, the run itself) has done for it: listing, command, detection,
settling, copy, removal. They are separate because the requester stops at its
deadline and the helper does not. `commands` are native commands still going on
in the container, also after the helper died. `native[m]` is the revision of the
file that maker m has put into the root; makers are the runs and backups nobody
here asked for (`ForeignBackup`).

### MssqlArtifacts

Attempts at one run, by operation id, and sweeps. A file on the server is
absent, partial, the backup, or something else that was written over it. Records
are committed before the server is asked (`Records`, `AsksForBackup`), get the
size and checksum after the copy (`RecordsRetrieval`), and are marked cleaned
after a removal (`CommitsRemoval`, `SweepCommits`). `Removals` are the ways a
removal can end, the lost answer of an SSH command and the `OSError` that is
reported as a missing file among them. `Owns` compares `lease_owner`, which names a
worker process (`worker.py:198-203`): the attempts here are of different processes.
Two slots of one process, one of which has lost the run to the other, would pass each
other's boundaries; RunLifecycle has that case, this module has not.

### FilesAcquisition

One acquisition step by step, system call by system call where others can come
between: `Validate`, `StatRoot`, `OpenRoot`, `List`, `StatEntry`, `OpenEntry`,
`CopyBegins`, `Reads`, `CopyEnds`, `LeaveDirectory`, `VerifyPath`. `Rewrite`, `Protect` and
`Relocate` are the other processes: they change content, permissions and
names, and every change advances the inode's stamp. The remote half has the
connection, the snapshot script, rsync and the `finally` blocks; `ConnectionLost`,
`DeadlinePasses` and `Killed` may happen at any step. The removal of a snapshot has
three ends: `RemoveSnapshot`; `RemovalFails`, which the code suppresses, so that it goes
on to the next path or with the exception it had; and `RemovalTooLate`, when the
deadline has passed and no `rm` is sent. The history variable `excused` records for
which path, and why, a snapshot may be left. `Downloaded` takes any number of files,
none included, that can have the bytes rsync wrote (`MayHold`).

## 4. Runs

All configurations allow the system to stop (`CHECK_DEADLOCK FALSE`): runs end,
and incarnations, operations, faults and time are bounded.

| Run | Instance | Checks | Shows |
|---|---|---|---|
| recovery | RunLifecycle: 1 run, 2 incarnations x 2 slots, 2 builds, `FairSpec` | TypeOK, SingleExecutor, RunConsistent, TerminalIsFinal, CancelCompletes, AcquisitionSettles, RefinesContract | the life of a run over crashes, cancellations, retries and retention, and the abstract promise |
| profile | 2 runs of a profile, 2 processes x 1 slot, one stalling, 1 build; work on one run (`OneAtWork`) | OneActivePerProfile, LeaseMeansActive | competition for the profile's place, and what unfenced commits of a stale worker can do to rows |
| retries | Delivery: 1 recipient, 2 parts, 2 attempts, 2 incarnations, `FairDelivery` | DeliveryInv, ProgressIsReal, NotResent, PendingSettles | the budget over crashes and operators' retries, and that nobody waits for ever |
| recipients | 2 recipients, one a superadmin, 1 part, 2 attempts, 1 process that stalls | ImplementsLifecycle | selections and outcomes of several people refine the summary |
| cursors | Scheduler: 1 profile, 2 zones, 7 kinds of schedule, 11 units of time, 2 operations of the bot, `FairSpec` | SchedulerInv, NextIsNext, OnlySinceRegistered, NoCatchUp, DueIsServed | cursors over edits, downtime, a change of timezone and irregular clocks |
| dialogue | Wizard: 1 server, 2 administrators, a new profile or one of 2, 1 stretch of Back, 2 invalid inputs | WizardInv, SavedIsAnswered, NoSecretOfAnother | what is saved after going back |
| sessions | Catalogue: 2 profiles, 1 administrator, remote and GitLab sources, 2 concurrent operations of any kind | CatalogueInv, QueuedIsCurrent, RootJoinedAtCreation, OperationsEnd | pairs of operations, statement by statement |
| transport | 2 workers, 2 uploads begun, 3 faults | TransportInv, OneWriter, RevocationIsNotMasked, EveryCallEnds | one session file over drops, hangs, kills and a revocation |
| gitlab | 2 runs, 1 foreign backup, 2 faults, local or remote | GitlabInv, RemovedIsCopied, QueueMoves | requester and helper that lose each other |
| mssql | 2 attempts, 2 sweeps, 3 faults | MssqlInv, CleanedIsGone, RemovedIsRetrieved | files on a server and the records that fence them |
| files | a tree of 2 directories and 2 files, 3 changes, local or remote, 1 or 2 paths, none, one or both SQLite | FilesInv, CopiedIsOneVersion, DirectoryIsWhole, SourceIsTheValidated | an acquisition beside writers |
| stranded | 1 run, 2 processes x 1 slot | NoStrandedDelivery (violated) | section 6 |

`RunConsistent`, `DeliveryInv`, `SchedulerInv`, `WizardInv`, `CatalogueInv`,
`TransportInv`, `GitlabInv`, `MssqlInv` and `FilesInv` are conjunctions of named
invariants; the modules define the parts, each with what it says.

**Why these bounds.** *Runs and delivery.* Two incarnations give every crash
point a successor; two slots let one process hold, or wrongly claim, a run
twice; two builds are the first and the one after a lost or vanished directory.
A profile's competition is pairwise. Two parts distinguish first, next and last;
two attempts a retry from the last attempt; two recipients with different roles
selected, revoked and served. The *recipients* run has one process with one slot, whose task may
stall but has no successor: two workers that write the rows of one run's recipients
are beyond TLC's reach there. The theorem `DeliveryImplements`, which holds for all
processes and slots, covers them, and *profile* does for the run's own row. With a
stall one slot per process suffices for two workers on one run; in *profile* the second run is enqueued, skipped, cancelled,
retried and purged beside the first but not worked on, which the competition for
the row does not need. *Cursors.* The horizon of 11 covers months of two and
three days, two weeks, both irregularities of the zone (readings 4 and 5 come twice, 8
and 9 never), and downtime longer than a period; two operations are one that interferes
with another, or with a tick. *Dialogue.* A stretch of Back goes back any number
of steps once, from anywhere: enough to leave one branch and enter another, with
both branches' answers in the draft. *Sessions.* Anomalies of READ COMMITTED and
lock circles are between two transactions; two profiles are needed for the
circle and for two roots. *Transport.* Two workers, since the second takes over
a file; two uploads, since one waits for the lock while another fails; three faults
are a drop, a kill and a revocation. *GitLab and SQL Server.* The second run or
attempt meets what the first left; two sweeps race each other and an attempt.
*Files.* A nested directory, a file inside and one outside; three changes move
an entry away and another in, or write a file before and after it is read. The
limits are smaller than the tree, so that budgets are exceeded too. Two SQLite paths
let an acquisition go on, and succeed, after the removal of its first snapshot failed.

**Fairness.** `FairSpec` of RunLifecycle assumes that the loop of a live worker
polls, that its tasks are scheduled, that time passes for leases and retention,
that a dead worker is restarted (the compose file does), and that a retry that
holds its lock goes on. Nothing is assumed of operators, of crashes, of
exceptions or of the heartbeat's renewals. `HandlerCancels` is strongly fair: a
heartbeat first looks a second after its task began, so it does not cut short
*every* attempt of the handler. Heartbeat sessions may fail any number of times
but not for ever. `FairDelivery` adds that backoffs run out, that an upload ends
(it has a timeout), and that *unexpected* exceptions stop in the end: such an
exception returns the lease without counting anything, so an endless series
keeps a run pending for ever, and no fairness of the code excludes it.

Scheduler: the worker polls, transactions end, time passes. Catalogue: a session
that can execute its next statement does, and PostgreSQL grants a lock that is
free or ends a deadlock; no session is assumed to begin. Transport: only what is
guarded by a timeout (`connect_timeout`, `close_timeout`, the upload's) or is
about to run is fair; no disconnect, connection or upload is assumed to end.
GitlabAcquisition: a live helper does its steps, the native command ends, and a
run's deadline passes; nothing is assumed of restarts. Wizard, MssqlArtifacts and
FilesAcquisition have no fairness: their users, servers and sweeps may stop anywhere.

## 5. Proofs

Eight modules hold proofs, one each for MssqlArtifacts, GitlabAcquisition,
FilesAcquisition, Transport, Catalogue, Wizard and Scheduler, and one for RunLifecycle
and Delivery; `tlapm Wizard_proofs.tla` checks one of them. They assume only the named
assumptions of the modules they are about, so they hold for any sets of runs, profiles,
processes, slots, recipients, parts, attempts, sweeps, sessions, uploads, steps back,
schedules or zones, any calendar, and any bound on faults or time. The assumptions that
say something: in GitLab the runs and foreign backups, and in Catalogue the profiles,
are finitely many (the code counts new files; a statement locks a finite list of rows);
in Delivery recipients are identified by numbers, since they are visited in that order;
in FilesAcquisition inodes are of one kind each, names are ordered, and no inode has two
places at first (the model has no hard links, here or in `Relocate`); in Wizard "no
value" is none of the answers; in Scheduler `ClockAssumption`, and that the bounds leave
room for the month after the horizon. Zones keep `ClockAssumption` today: clocks fall
back about once a year, by at most two hours, at an hour that does not straddle
midnight. Some in the past did not (Newfoundland fell from 00:01 until 2011, Egypt twice
within two months in 2010), which schedules do not meet.

| Module | Theorem | States |
|---|---|---|
| Delivery_proofs | `Invariant` | `Spec => []IInv` |
| | `TypeCorrect` | `Spec => []TypeOK` |
| | `OneActive` | `Spec => []OneActivePerProfile` |
| | `LeasesEnd` | `Spec => []LeaseMeansActive` |
| | `Consistency` | `Spec => []CInv`, where `Stalling = {}` |
| | `OneTask` | `Spec => []SingleExecutor`, where `Stalling = {}` |
| | `Consistent` | `Spec => []RunConsistent`, where `Stalling = {}` |
| | `EndedStaysEnded` | `Spec => TerminalIsFinal`, where `Stalling = {}` |
| | `Implements` | `Spec => RefinesContract`, where `Stalling = {}` |
| | `DeliveryInvariant` | `DeliverySpec => []DState` |
| | `DeliveryImplements` | `DeliverySpec => ImplementsLifecycle` |
| | `RealProgress` | `DeliverySpec => []ProgressIsReal` |
| | `DeliveryIsSound` | `DeliverySpec => []DeliveryInv`, where `Stalling = {}` |
| | `NeverResent` | `DeliverySpec => NotResent`, where `Stalling = {}` |
| Transport_proofs | `Invariant` | `Spec => []IInv` |
| | `OneWriterAlways` | `Spec => []OneWriter` |
| | `TransportIsSound` | `Spec => []TransportInv` |
| | `RevocationStays` | `Spec => RevocationIsNotMasked` |
| Catalogue_proofs | `Invariant` | `Spec => []IInv` |
| | `QueuedAsCommitted` | `Spec => []QueuedIsCurrent` |
| | `Sound` | `Spec => []CatalogueInv` |
| | `JoinedOnlyAtCreation` | `Spec => RootJoinedAtCreation` |
| MssqlArtifacts_proofs | `Invariant` | `Spec => []IInv` |
| | `FilesRecorded` | `Spec => []MssqlInv` |
| | `Cleaned` | `Spec => []CleanedIsGone` |
| | `Removed` | `Spec => RemovedIsRetrieved` |
| FilesAcquisition_proofs | `Invariant` | `Spec => []IInv` |
| | `BudgetAndFence` | `Spec => [](FilesTypeOK /\ WithinBudget /\ SnapshotIsFenced)` |
| | `VersionIsOne` | `Spec => []CopiedIsOneVersion` |
| | `DirectoriesAreWhole` | `Spec => DirectoryIsWhole` |
| | `SourceIsChecked` | `Spec => SourceIsTheValidated` |
| Wizard_proofs | `Invariant` | `Spec => []IInv` |
| | `WizardIsSound` | `Spec => []WizardInv` |
| | `SavedAsAnswered` | `Spec => SavedIsAnswered` |
| | `OwnSecretsOnly` | `Spec => NoSecretOfAnother` |
| Scheduler_proofs | `NextIsGood` | `next_scheduled_time` returns a later occurrence and jumps over none |
| | `Invariant` | `Spec => []IInv` |
| | `CursorsAreRight` | `Spec => []SchedulerInv` |
| | `CursorIsTheNext` | `Spec => []NextIsNext` |
| | `OwedSinceRegistered` | `Spec => OnlySinceRegistered` |
| | `NoneIsCaughtUp` | `Spec => NoCatchUp` |
| GitlabAcquisition_proofs | `Invariant` | `Spec => []IInv` |
| | `OwnBackupOnly` | `Spec => []GitlabInv` |
| | `Removed` | `Spec => RemovedIsCopied` |

**RunLifecycle.** `IInv` is `RowsInv` (the table is typed, leases are on active
runs, one active run per profile) and `RestInv` (the other variables are typed,
and a busy slot has a run). Why the parts are needed together: *LeaseMeansActive*
is what allows a claim or a renewal to keep its own shape, and a renewal compares
nothing but the owner, so without it a renewal could refresh a lease on an ended
run. Almost every step writes one row. The lemma `WriteKeeps` says that writing a
record to row r keeps `RowsInv` if the record is *admissible*: typed, leased
only if active, and active only if r was active or the index allows it. Each
action then owes just one fact about the record it writes; steps that write many
rows (start-up recovery) or none have lemmas of their own. `StepKeeps` collects
them, one step per action.

**RunLifecycle without stalls.** `Stalling = {}` says that a live worker renews a lease before
it runs out (`JOB_LEASE_SECONDS` against a heartbeat of a third of it). It is an
assumption on the environment and needed: with a stalled worker TLC refutes
SingleExecutor at once, since its successor claims the run, and the unfenced commits
of `_fail` and `_resume_finalized` refute the other three (section 6). Crashes,
restarts, adoption, exceptions, and heartbeats that die with their session are all
still there. `CInv` adds to `IInv` what ties the variables to each other.
`RowsAreSound`: whatever lies in a run's spool is named by its row, a run that
waits for delivery has its artifact. `TasksFollow`: a task's row still is what the
task found, by stage of the counter: owned and leased until the stages that only
clear up, unfinalized with the cached directory while it publishes, and so on.
`SingleExecutor` makes it inductive: no other task writes the row. A heartbeat that
takes a run away cuts its task off in the same step, and a crash ends every task of
its process, so recovery and claims meet rows that nobody follows.
`LockedIsRetained` is about a retry between its verification and its update, which
retention must pass over. Each action then shows that it is *Lawful*: one of nine
ways in which a row and its directories may be replaced, from which two lemmas
(`LawfulIsPromised`, `LawfulIsFinal`) draw the promise of RunContract and that no
ended run is reopened. Start-up recovery moves many runs and has a lemma of its own.

**Delivery.** Two invariants. `Wellformed` holds *with* stalls: the set `dlv`
summarizes the recipients' rows, possibly with a PENDING of nobody (a retry
may find its failed recipients overwritten by a stale worker); rows tell no more
than Telegram accepted, and what a session remembers is true of Telegram even
where it is no longer true of the row. `ImplementsLifecycle` and ProgressIsReal
follow without any assumption about leases, and with the first of them every
theorem about RunLifecycle carries over to Delivery. `Exact` needs `Stalling = {}` and rests on
`CInv`: `dlv` is the set of statuses, the session's copies are the rows, the part
in hand is the next one, and the uploads of the next part are within the attempts
counted (`Budgeted`), which is what a crash between count and upload must not break.
Steps of RunLifecycle that do not deliver leave all this alone for one reason,
stated once: they keep a row's summary, a sending task's run and stage, and the
retry's lock (`RowKept`, `TaskKept`, `HoldKept`).

**Transport.** A worker's record is `Coherent`: one writer while there is a client
whose disconnect has not finished, tasks wait or hold the lock, nobody uses a client
that is closing, only `_prepare` with the marker or without a key may log in,
no client is closed under an upload, no acknowledgment is lost. The methods are
functions on that record, and each is shown to keep it for a task that holds the
lock (`Held`), so an action owes little beside the record it passes on. `Shared`
is the rest: at most one worker holds the session file's lock, a worker with a
client is the one, a half-done login has its marker. OneWriter needs both: the lock gives one worker, coherence one
writer in it. RevocationIsNotMasked follows from the marker and the key of a
verified session never coming back.

**Catalogue.** Per session, `Fits` says what an operation still has to do, holds and has read:
its remaining statements are `Ordered` by a rank (settings, sweeps, profiles, the
two reads of a snapshot, server, the checks that need a lock), the locks it holds
rank before what is left, and a lock its operation needs is either held or still
to come. `ReadsHold` says what of the things read is still committed: a run's
source since the profile's lock, its server since the server's, a free root
since the settings'. That is kept by *other* sessions because a commit writes only
what its locks protect, or a profile that did not exist (`Proceeds`, `Concludes`,
`Writes`), and two sessions hold no common lock. The order gives the theorem about
deadlocks: in a circle somebody waits for a lock of no higher rank than one it
holds; only profiles share a rank, and only a sweep holds one while it waits
for another; that one of the sweeps is an assignment is because ticks and changes of
the timezone exclude each other by the settings. Proving it corrected the property, which had called *every*
session of the circle a sweep: a third one may wait for a profile that one of
the deadlocked sweeps holds, which two sessions cannot show.

**MssqlArtifacts.** CleanedIsGone alone is not inductive: a file that is gone
would come back if the server could still write it. `IInv` therefore says how far
an attempt has come by what its record holds. Its core is `Retrieved`: once a
record says what was copied, its operation is past every step that writes the
file or the copy. `WorkIsRetrieved` says that attempts and sweeps take up such
records only, and `MarkedIsGone` carries "gone" from the removal to the commit,
between which a sweep or a late attempt may step in. The lemma `RemoveEffect`
states what one removal does, for the attempt and for the sweep; `StepKeeps`
proves, with the invariant, that a file goes only when it is what was copied.

**GitlabAcquisition.** Why a run gets its own backup although anyone's may appear
(`OwnIsFound`): its own file is not in its first listing (`Owned`), is there once
its command has ended, and is removed by nobody else (`Stages`); so if exactly
one file is new, that is it. A command that outlives its request is why `Stages`
must speak of requests that failed or were lost with the helper. `Rewrites` bounds
the revisions by the faults, which typing needs.

**FilesAcquisition.** What the walk knows of a directory it has listed is true only
as long as nobody has touched it, and it finds out at the end. So each level of
the stack is `Faithful`: *if* its stamp still is the first one (`Still`), every name
in it is yet to be visited, in hand or taken (`Covers`), and the archive has no
other name of it (`Visited`). Other processes keep that because a change of an entry
advances the stamp of its directory (`Moves`, `Evolves`); once the stamps differ they differ for
good, since a stamp that was read is never ahead of the present one. A step at the innermost
directory leaves the outer ones alone for one reason: what it adds below them has
the name they have in hand (`LowerLevel`, with `Routed`, that a path is the names on
the way). When a directory is left, what its parent has in hand is a directory,
which the property excepts (`PopKeeps`). `Numbered` and `InWork` make a new path new,
so that the files counted are the files archived (`Counted`). `CopyFollows` puts
every stamp read between the first and the present one; equal ends leave one
version. `Fenced` says of every snapshot on the server that its path is the one in
work, whose removal is still to come, or that it may stay (`MayStay`: its `rm` failed, or
the acquisition is failing at that path for a recorded reason). One part of FilesInv,
`BytesAreCounted`, is a sum over a set, whose order does not matter only by induction;
it stays with TLC.

**Wizard.** What is saved depends on every answer of a path, so the invariant has to say
of each field that it *has been* asked. `Rank` orders the states so that every path
passes them upwards (`Ordered`), and `Asks` gives each field its place. `Reached` says
that every field which the standing answers ask for is answered once its place is
passed; at the end that is all of them. `Stands` ties the draft, which keeps more, to the
answers: whatever stands is in the draft as it was given, a local GitLab has neither
server nor path left in it, and a password is kept only where the engine is that of the
original. A step forward has to `Fit`: it leads to a state of higher rank and answers
every field asked in between (`AdvanceKeeps`; `RewriteKeeps` for the steps that ask for
one more path and stay). `BackKeeps` needs nothing of the fields: Back shortens the path
and what holds of every prefix still does. What remains of other branches matters only
when a profile is saved, and there `AcceptedIsAnswered` shows that the validators refuse
every remnant which the standing answers do not explain.

**Scheduler.** Two halves. The first is about `next_scheduled_time` alone. From readings
to instants: if w is later than what the clocks show at u, the instant that `FromWall`
finds for w is after u, unless u is in the second pass of a repeated hour
(`UpcomingInstant`, with `FallShows` and `NoMoreThanBefore`, which say where clocks that
fell back can be). On the calendar: the reading a daily, weekly, monthly or cron
schedule takes is due and none between is (`DailyIsUpcoming` and its like; months are
told apart by `SameMonth` and `NextMonthIs`). Together these give `NextIsGood`, with one
case excepted, the weekly branch in a second pass, since that one drops `fold` (section
6). Where a daily or monthly branch keeps the fold of its cursor, `ChangesAreApart` is
what makes the kept fold right. The second half is an invariant of each profile's row,
`Fit`: its cursor was computed by `next_scheduled_time` from some moment up to now, and
in the timezone and for the schedule of now, so that nothing between *that moment* and
it is due; it is not older than the registration; a ONCE row with a cursor has had no
slot. NextIsNext alone would not do, since it says nothing of a cursor once it is due.
`SeenIsEnabled` says that what an edit read of `enabled` still is in the row, unless the
profile is archived meanwhile: it is why `UpdatedEnabled`, which writes relative to that
reading, agrees with the cursor that is registered. `RowKeeps` reduces an operation on
one profile to its row's `Fit`; ticks and changes of timezone write all rows and are
done by `TickMoves` and in `SetTimezoneKeeps`.

Model-checked only: `BytesAreCounted`, and
every liveness property (CancelCompletes, AcquisitionSettles, PendingSettles,
DueIsServed, OperationsEnd, EveryCallEnds, QueueMoves). Liveness under fairness and
induction over data are beyond the prover used here and stay with TLC.

## 6. Where the code and its documents part, and what the code does not keep

One run is expected to be violated and is the finding in `PROJECT.json`:
**stranded** (NoStrandedDelivery): a crash after the last recipient's commit leaves
a run no worker claims, and its profile blocked.

The others below were met while modelling. The models have the behaviour, and a
property that would exclude it is either not stated or weakened by the exception
that its comment names.

*Runs and delivery*

* A workspace created but not yet recorded (`worker.py:321`) survives a crash
  followed by a cancellation: no cleanup knows of it.
* The heartbeat takes the lease that success gave back for a lost one
  (`worker.py:670`) and cancels the removal of the delivered artifact, which then
  waits for the next start of a worker (`README.md:80`, `README.md:237`).
* An artifact published and not recorded (`worker.py:514`, an exception in
  between) is refused by retention, purge and retry, and never expires
  (`README.md:191`).
* `_fail` compares the owner, awaits the removal of the workspace and then writes
  without a fence (`worker.py:769`): after a stall longer than the lease it ends
  its successor's run.
* The re-check of a superadmin (`delivery.py:441`) reads an object cached since the
  selection (`README.md:88`).
* With a stall longer than `JOB_LEASE_SECONDS` (120 s by default) a stale selection
  commits delivery rows into a run that ended (`delivery.py:401`), and a stale adoption revives one
  (`worker.py:597`): SuccessIsSettled and TerminalIsFinal hold without stalls only.

*Schedules*

* The weekly branch of `next_scheduled_time` drops `fold` (`scheduling.py:47-52`): in
  the second pass of a repeated hour the cursor falls back into the first, and the
  profile is served for a slot that has passed (`FellBack`; `README.md:104-105`).

*Dialogue*

* Back from the administrators to a server step shows the administrators'
  identifiers under the server's prompt (`wizards.py:1213`, `985-997`); a choice then
  names a server by an administrator's id, if there is one.
* "None" at the server of an SQL Server backup keeps an earlier choice
  (`wizards.py:358`): SavedIsAnswered leaves `artifact_server` out.
* Remnants that make the validator refuse right answers: files on a server taken
  back for local ones, a container or another engine taken back, a kept
  passphrase followed by another mode (`backup_service.py:466-469`). Only GitLab's
  step forgets (`GitlabIsAccepted`).

*Transactions*

* `retry_failed` loads the profile's columns with the run's details (`jobs.py:96-102`);
  the later `SELECT … FOR UPDATE` does not refresh them (`jobs.py:140-152`). The
  new snapshot may mix two configurations (`README.md:86-87`): QueuedIsCurrent
  exempts a retry's columns.
* `archived_at` is not tested again after the row lock of an edit or a
  reconfiguration; creation reads that a GitLab root is free and administrators
  are enabled before it takes a lock, so two creations may share a root
  (RootJoinedAtCreation); a reconfiguration writes `enabled` relative to what it
  read.
* An assignment locks several profiles without an order, and so do a tick, a change of
  the timezone (`settings_service.py:24-40`) and another assignment: with any of these it
  may deadlock, and PostgreSQL aborts one of them. Among the operations of Catalogue
  this is the only way to wait in a circle (`DeadlockNeedsTwoSweeps`).

*Telegram transport*

* A disconnect that *failed* stays in `_closing`, so the transport refuses uploads
  until the process restarts.
* A cancellation that arrives together with the acknowledgment loses the
  acknowledgment: AcknowledgedIsReported is about errors only.

*Sources*

* GitLab: the helper goes on with an abandoned request, and nobody collects the
  staged file; `os.stat` or `unlink` failing after the copy leaves the staged
  file; a remote `unlink` whose answer is lost loses both copies, the native one
  by the removal and the downloaded one by the failing run (`README.md:145-147`).
* SQL Server: a record that was never retrieved is never cleaned, on purpose
  (`tests/integration/test_mssql_artifact_cleanup.py:274`); any `OSError` of the
  examination counts as MISSING and marks the record cleaned (`mssql.py:358-363`),
  which CleanedIsGone exempts.
* Files: an `rm` of a snapshot that exits with an error, cannot be started, loses its
  connection or takes longer than a minute is suppressed (`remote_files.py:150-156`): the
  acquisition goes on, and may succeed with the snapshot in `/tmp` of the server. When
  the deadline has passed, the `finally` block raises before `rm` is sent
  (`deadline.py:23-33`), and when the script is given up before it wrote, it may write
  after the `rm`. SnapshotIsFenced names these three reasons and no other. A kill
  leaves the snapshot too, and no later run looks for it. A file moved from a directory not yet visited to
  one that is finished is missed (`README.md:242`): DirectoryIsWhole is about each
  directory when it is left.

## 7. What is not modelled, and the plan

Not modelled, with the reason: acquisition of PostgreSQL and MySQL (one external
dump process, whose failure is `Raise`), archiving, compression and encryption
(sequential transformations of data whose only effect on the protocol is success
or failure), local source validation (path checks behind a socket), texts, menus
and keyboards, health reports, metrics and logging, migrations and the one-off
transfer, start-up wiring, command line, configuration and the encryption of stored
secrets. Left out of modelled parts: disk capacity, claim order, file reuse
between recipients, proxies and file permissions, confinement of paths, probing
a new server, renaming and languages of administrators, drafts (`create_draft`,
which nothing calls).

Modelling that is left: one-time callbacks and rate limits; concurrent handlers of
one user's conversation; the dialogues for administrators and servers; Catalogue
composed with Delivery, so that entitlement changes by its operations.

Proofs that are left: `BytesAreCounted` and liveness, as said in section 5.
