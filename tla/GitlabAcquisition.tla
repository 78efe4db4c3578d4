------------------------- MODULE GitlabAcquisition --------------------------
(***************************************************************************)
(* Acquiring a native GitLab backup (pipeline/acquisition/gitlab.py and    *)
(* bootstrap/gitlab_helper.py).  For a local GitLab a worker holds the     *)
(* lock on backup.lock and asks the helper, which serves one request at a  *)
(* time: it lists the backup root, runs the native command, lists again,   *)
(* accepts exactly one new backup, waits until it is stable, copies it to  *)
(* staging, verifies the copy and removes the native file last.  The       *)
(* worker then moves the staged file into its workspace.  For a remote     *)
(* GitLab the worker does the same over SSH, with no lock and no staging.  *)
(*                                                                         *)
(* The run stops waiting at its deadline, and may die; the helper neither  *)
(* learns of it nor stops.  The helper may die, and the native command it  *)
(* started goes on.  Backups nobody here asked for appear at any time.     *)
(* Not modelled: empty files and files older than the request (never       *)
(* candidates), and the instant between the last check of a native file    *)
(* and its removal, two adjacent system calls.                             *)
(***************************************************************************)
EXTENDS Naturals, Sequences, FiniteSets, SequencesExt

CONSTANTS
    Run,        \* runs that acquire a GitLab source
    Foreign,    \* backups made by GitLab's own schedule or an operator
    Nobody,     \* no run, no file
    MaxFaults   \* bound: deaths, broken steps and rewritten files

ASSUME GitlabAssumption ==
    /\ IsFiniteSet(Run) /\ IsFiniteSet(Foreign)
    /\ Run \intersect Foreign = {} /\ Nobody \notin Run \union Foreign
    /\ MaxFaults \in Nat

Maker == Run \union Foreign

VARIABLES
    location,   \* of the source: "local" or "remote_server"
    up,         \* the helper process runs
    queue,      \* requests waiting for the helper's _EXECUTION_LOCK
    lock,       \* run that holds the lock on backup.lock
    run,        \* where each run is in acquire_gitlab
    job,        \* the work done for each run: at, before, seen and copy
    commands,   \* runs whose native command is executing in the container
    native,     \* revision of each maker's file in the backup root, 0: no file
    taken,      \* the artifact each run has received
    faults      \* faults so far

vars == <<location, up, queue, lock, run, job, commands, native, taken, faults>>

File == [by : Maker, rev : 1 .. 1 + MaxFaults]
Local == location = "local"

\* before: makers with a file in the first listing.  seen: the FileState accepted.
\* copy: the staged file, or the downloaded one of a remote run.
NoJob == [at |-> "none", before |-> {}, seen |-> Nobody, copy |-> Nobody]

Job == [at : {"none", "queued", "running", "exited", "detected", "stable", "copied", "removed",
              "failed", "lost"},
        before : SUBSET Maker, seen : File \union {Nobody}, copy : File \union {Nobody}]

\* A request waits once, and only while the helper is there to serve it.
QueueOK ==
    /\ queue \in Seq(Run) /\ IsInjective(queue)
    /\ \A r \in Range(queue) : Local /\ up /\ job[r].at = "queued"

GitlabTypeOK ==
    /\ location \in {"local", "remote_server"} /\ up \in BOOLEAN
    /\ QueueOK
    /\ lock \in Run \union {Nobody}
    /\ \A r \in Run : lock = r <=> Local /\ run[r] \in {"waiting", "collecting"}
    /\ run \in [Run -> {"idle", "waiting", "collecting", "done", "failed"}]
    /\ job \in [Run -> Job]
    /\ commands \subseteq Run
    /\ native \in [Maker -> 0 .. 1 + MaxFaults]
    /\ taken \in [Run -> File \union {Nobody}]
    /\ faults \in 0 .. MaxFaults

Init ==
    /\ location \in {"local", "remote_server"} /\ up = TRUE
    /\ queue = <<>> /\ lock = Nobody
    /\ run = [r \in Run |-> "idle"] /\ job = [r \in Run |-> NoJob]
    /\ commands = {} /\ taken = [r \in Run |-> Nobody]
    /\ native = [m \in Maker |-> 0] /\ faults = 0

-----------------------------------------------------------------------------
(* The worker's side. *)

\* Whether r finds the lock or the helper's socket unusable.
Unavailable == Local /\ (lock # Nobody \/ ~up)

\* GITLAB_BUSY, or GITLAB_HELPER_FAILED because nothing listens.
Refused(r) ==
    /\ run[r] = "idle" /\ Unavailable
    /\ run' = [run EXCEPT ![r] = "failed"]
    /\ UNCHANGED <<location, up, queue, lock, job, commands, native, taken, faults>>

\* The lock is taken and the request is sent; a remote run connects.
Asks(r) ==
    /\ run[r] = "idle" /\ ~Unavailable
    /\ run' = [run EXCEPT ![r] = "waiting"]
    /\ job' = [job EXCEPT ![r].at = "queued"]
    /\ lock' = IF Local THEN r ELSE lock
    /\ queue' = IF Local THEN Append(queue, r) ELSE queue
    /\ UNCHANGED <<location, up, commands, native, taken, faults>>

Released(r) == IF lock = r THEN Nobody ELSE lock

\* The run is over for r.  The helper keeps what it has; what a remote run downloaded
\* goes with its workspace, and its native command stays behind.
Leaves(r) ==
    /\ run' = [run EXCEPT ![r] = "failed"]
    /\ lock' = Released(r)
    /\ job' = IF Local THEN job ELSE [job EXCEPT ![r].at = "lost", ![r].copy = Nobody]
    /\ UNCHANGED <<location, up, queue, commands, native, taken>>

\* The deadline of the run has come, or the connection to a dead helper ends.
GivesUp(r) == run[r] = "waiting" /\ Leaves(r) /\ UNCHANGED faults

\* The worker is killed or the run is cancelled; or the staged file cannot be copied.
Dies(r) ==
    /\ run[r] \in {"waiting", "collecting"} /\ faults < MaxFaults
    /\ faults' = faults + 1 /\ Leaves(r)

\* The helper has reported a failure, or a step of a remote run has raised.
LearnsOfFailure(r) ==
    /\ run[r] = "waiting" /\ job[r].at = "failed"
    /\ Leaves(r) /\ UNCHANGED faults

\* The answer names the staged file.
LearnsOfFile(r) ==
    /\ Local /\ run[r] = "waiting" /\ job[r].at = "removed"
    /\ run' = [run EXCEPT ![r] = "collecting"]
    /\ UNCHANGED <<location, up, queue, lock, job, commands, native, taken, faults>>

\* _acquire_staged: copied to the workspace, verified, and unlinked from staging.  A
\* remote run has its file in the workspace already.
Collects(r) ==
    /\ \/ run[r] = "collecting"
       \/ ~Local /\ run[r] = "waiting" /\ job[r].at = "removed"
    /\ run' = [run EXCEPT ![r] = "done"]
    /\ taken' = [taken EXCEPT ![r] = job[r].copy]
    /\ job' = [job EXCEPT ![r].copy = Nobody]
    /\ lock' = Released(r)
    /\ UNCHANGED <<location, up, queue, commands, native, faults>>

-----------------------------------------------------------------------------
(* The work itself, done by the helper or by a remote run. *)

\* Stages during which _EXECUTION_LOCK is held.  Seeded bug: until the answer is taken.
InServiceUntilTaken(r) ==
    job[r].at \in {"running", "exited", "detected", "stable", "copied", "removed", "failed"}
InService(r) == job[r].at \in {"running", "exited", "detected", "stable", "copied"}

\* Whoever does the work of r is there to do it.
Driven(r) == IF Local THEN up ELSE run[r] = "waiting"

To(r, stage) == job' = [job EXCEPT ![r].at = stage]

Listing == {m \in Maker : native[m] # 0}

\* The root is listed and the native command is started.
Begins(r) ==
    /\ job[r].at = "queued" /\ Driven(r)
    /\ Local => queue # <<>> /\ r = Head(queue) /\ \A s \in Run : ~InService(s)
    /\ queue' = IF Local THEN Tail(queue) ELSE queue
    /\ job' = [job EXCEPT ![r].at = "running", ![r].before = Listing]
    /\ commands' = commands \union {r}
    /\ UNCHANGED <<location, up, lock, run, native, taken, faults>>

\* GitLab has written the backup; whoever waits for the command is told.
CommandEnds(r) ==
    /\ r \in commands /\ commands' = commands \ {r}
    /\ native' = [native EXCEPT ![r] = 1]
    /\ IF job[r].at = "running" THEN To(r, "exited") ELSE UNCHANGED job
    /\ UNCHANGED <<location, up, queue, lock, run, taken, faults>>

\* The command exits with an error, for example because another one is running.
CommandFails(r) ==
    /\ r \in commands /\ commands' = commands \ {r}
    /\ IF job[r].at = "running" THEN To(r, "failed") ELSE UNCHANGED job
    /\ UNCHANGED <<location, up, queue, lock, run, native, taken, faults>>

\* Seeded bug: the first new backup is accepted.
AcceptsAny(new) == new # {}
Accepts(new) == Cardinality(new) = 1

Detects(r) ==
    /\ job[r].at = "exited" /\ Driven(r)
    /\ LET new == Listing \ job[r].before
       IN  IF Accepts(new)
           THEN \E m \in new :
                   job' = [job EXCEPT ![r].at = "detected",
                                      ![r].seen = [by |-> m, rev |-> native[m]]]
           ELSE To(r, "failed")
    /\ UNCHANGED <<location, up, queue, lock, run, commands, native, taken, faults>>

\* Two listings in a row agree: the file as it is now is the one to take.
Settles(r) ==
    /\ job[r].at = "detected" /\ Driven(r)
    /\ native[job[r].seen.by] # 0
    /\ job' = [job EXCEPT ![r].at = "stable", ![r].seen.rev = native[job[r].seen.by]]
    /\ UNCHANGED <<location, up, queue, lock, run, commands, native, taken, faults>>

\* The file is still the one that was seen.
Unchanged(r) == native[job[r].seen.by] = job[r].seen.rev

Copies(r) ==
    /\ job[r].at = "stable" /\ Driven(r)
    /\ IF Unchanged(r)
       THEN job' = [job EXCEPT ![r].at = "copied", ![r].copy = job[r].seen]
       ELSE To(r, "failed")
    /\ UNCHANGED <<location, up, queue, lock, run, commands, native, taken, faults>>

\* Seeded bug: the native file is removed without looking at it again.
RemovesUnseen(r) ==
    /\ job[r].at = "copied" /\ Driven(r)
    /\ native' = [native EXCEPT ![job[r].seen.by] = 0] /\ To(r, "removed")
    /\ UNCHANGED <<location, up, queue, lock, run, commands, taken, faults>>

\* The copy has been read again and matches; the native file goes last.
Removes(r) ==
    /\ job[r].at = "copied" /\ Driven(r)
    /\ IF Unchanged(r)
       THEN native' = [native EXCEPT ![job[r].seen.by] = 0] /\ To(r, "removed")
       ELSE job' = [job EXCEPT ![r].at = "failed", ![r].copy = Nobody] /\ UNCHANGED native
    /\ UNCHANGED <<location, up, queue, lock, run, commands, taken, faults>>

\* A step raises.  Some of these paths leave the copy where it is.
Breaks(r) ==
    /\ InService(r) /\ Driven(r) /\ faults < MaxFaults /\ faults' = faults + 1
    /\ \E c \in {job[r].copy, Nobody} : job' = [job EXCEPT ![r].at = "failed", ![r].copy = c]
    /\ UNCHANGED <<location, up, queue, lock, run, commands, native, taken>>

-----------------------------------------------------------------------------
(* The helper process and the world. *)

\* Requests that were queued or in service are gone with the process.
HelperDies ==
    /\ Local /\ up /\ faults < MaxFaults /\ faults' = faults + 1
    /\ up' = FALSE /\ queue' = <<>>
    /\ job' = [r \in Run |-> IF InService(r) \/ job[r].at = "queued"
                             THEN [job[r] EXCEPT !.at = "lost"] ELSE job[r]]
    /\ UNCHANGED <<location, lock, run, commands, native, taken>>

HelperStarts ==
    /\ ~up /\ up' = TRUE
    /\ UNCHANGED <<location, queue, lock, run, job, commands, native, taken, faults>>

ForeignBackup(m) ==
    /\ native[m] = 0 /\ native' = [native EXCEPT ![m] = 1]
    /\ UNCHANGED <<location, up, queue, lock, run, job, commands, taken, faults>>

\* A file in the root changes under the acquisition.
Rewritten(m) ==
    /\ native[m] # 0 /\ faults < MaxFaults /\ faults' = faults + 1
    /\ native' = [native EXCEPT ![m] = @ + 1]
    /\ UNCHANGED <<location, up, queue, lock, run, job, commands, taken>>

Next ==
    \/ \E r \in Run :
          \/ Refused(r) \/ Asks(r) \/ GivesUp(r) \/ Dies(r)
          \/ LearnsOfFailure(r) \/ LearnsOfFile(r) \/ Collects(r)
          \/ Begins(r) \/ CommandEnds(r) \/ CommandFails(r) \/ Detects(r)
          \/ Settles(r) \/ Copies(r) \/ Removes(r) \/ Breaks(r)
    \/ HelperDies \/ HelperStarts
    \/ \E m \in Foreign : ForeignBackup(m)
    \/ \E m \in Maker : Rewritten(m)

\* A live helper does its steps and gitlab-backup ends; the deadline of a run is
\* asyncio.timeout.  Nothing is assumed of deaths, restarts and other backups.
Fairness ==
    \A r \in Run :
       /\ WF_vars(Begins(r) \/ Detects(r) \/ Settles(r) \/ Copies(r) \/ Removes(r))
       /\ WF_vars(CommandEnds(r) \/ CommandFails(r))
       /\ WF_vars(GivesUp(r) \/ LearnsOfFailure(r) \/ LearnsOfFile(r) \/ Collects(r))

Spec == Init /\ [][Next]_vars /\ Fairness

-----------------------------------------------------------------------------
(* Properties *)

\* What a run receives is the backup its own request made, whatever other backups appear
\* in the root while it works: the "exactly one" of detect_new_backup decides it.
OwnBackup == \A r \in Run : taken[r] # Nobody => taken[r].by = r

\* A run that has succeeded, with "source_cleanup": "succeeded" in its metadata, has left
\* neither a native file nor a staged one.
SourceIsCleaned == \A r \in Run : run[r] = "done" => native[r] = 0 /\ job[r].copy = Nobody

\* A run takes its own backup only, and leaves nothing behind when it succeeds.
GitlabInv == GitlabTypeOK /\ OwnBackup /\ SourceIsCleaned

\* A native backup is removed only as it is in a verified copy, also when it was
\* rewritten meanwhile: _stage_verified and the remote unlink look at it again.
RemovedIsCopied ==
    [][\A m \in Maker : native[m] # 0 /\ native'[m] = 0 =>
          \E r \in Run : job[r].copy = [by |-> m, rev |-> native[m]]]_vars

\* A request that waits for the helper is served, or is told that the helper is gone,
\* although the run of the request before it stopped waiting or died.
QueueMoves == \A r \in Run : job[r].at = "queued" ~> job[r].at # "queued"
=============================================================================
