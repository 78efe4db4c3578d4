---------------------------- MODULE RunLifecycle ----------------------------
(***************************************************************************)
(* The life of a backup run: worker processes claim rows under leases,     *)
(* build the artifact in a workspace, publish it in the spool, deliver it, *)
(* and clean up; the bot enqueues, cancels, retries and purges meanwhile;  *)
(* processes crash and their successors recover.                           *)
(*                                                                         *)
(* Grain: one action per database transaction or filesystem step of        *)
(* src/pipeline/worker.py, delivery.py, recovery.py and bootstrap/worker.py*)
(* Between two actions any other actor may run: that is where the code     *)
(* awaits.  What deliveries do inside one attempt is reduced to the set of *)
(* statuses of the run's delivery rows (dlv).                              *)
(*                                                                         *)
(* A slot is one of the MAX_CONCURRENT_BACKUPS tasks of a process.  Its    *)
(* job holds what PipelineRunner.execute keeps in memory: the run, where   *)
(* it is, the pending directory its session cached (dir), in the           *)
(* cancellation handler whether a workspace path was returned (wsp), and   *)
(* whether its heartbeat still runs (beat).                                *)
(***************************************************************************)
EXTENDS RunRows

CONSTANTS
    Lane,      \* task slots of a process
    Stalling   \* processes whose event loop may stall for longer than a lease

ASSUME StallingAssumption == Stalling \subseteq Proc

VARIABLES
    proc,   \* proc[p]: "new", "up" or "dead"
    ws,     \* ws[r]: the slot whose files are in run r's workspace, or NoSlot
    job     \* job[s]: the task in slot s

Slot   == Proc \X Lane
NoSlot == <<NoProc, NoProc>>
Owner(s) == s[1]

vars == <<row, spool, locked, proc, ws, job>>

PC == {"idle", "load", "recover", "adopt", "start", "workspace", "record",
       "building", "finalize", "publish", "commit", "sweep", "deliver", "select",
       "sending", "cleanup", "cancelling", "cancelled", "failing", "rejecting", "fail", "reject",
       "failed"}

Job  == [run : Run \union {NoRun}, pc : PC, dir : Build \union {NoBuild}, wsp : BOOLEAN,
         beat : BOOLEAN]
Idle == [run |-> NoRun, pc |-> "idle", dir |-> NoBuild, wsp |-> FALSE, beat |-> FALSE]

Init ==
    /\ RowsInit
    /\ proc = [p \in Proc |-> "new"]
    /\ ws = [r \in Run |-> NoSlot]
    /\ job = [s \in Slot |-> Idle]

TypeOK ==
    /\ RowsTypeOK
    /\ proc \in [Proc -> {"new", "up", "dead"}]
    /\ ws \in [Run -> Slot \union {NoSlot}]
    /\ job \in [Slot -> Job]

-----------------------------------------------------------------------------
At(s, pc) == job[s].pc = pc
Goto(s, pc) == job' = [job EXCEPT ![s].pc = pc]
Finish(s)   == job' = [job EXCEPT ![s] = Idle]

RunOf(s) == job[s].run
Mine(s)  == row[RunOf(s)].owner = Owner(s)

\* _ownership_boundary and _cancel_boundary let the task go on.
InCharge(s) == Mine(s) /\ ~row[RunOf(s)].cancel

\* The task reads the row and claims or continues; only job moves.
OnlyJob == UNCHANGED <<row, spool, locked, proc, ws>>

-----------------------------------------------------------------------------
(* Processes                                                               *)

\* recover_recorded_filesystem: the rows it finishes and what it removes.
Recovers(r) == IsTerminal(r) /\ (row[r].wsp \/ row[r].pend # NoBuild)
DropsSpool(r) == row[r].status \in {"SUCCEEDED", "CANCELLED"} /\ row[r].pend # NoBuild
DropRecordedSpool(R) ==
    spool' = [r \in Run |-> [b \in Build |->
                IF r \in R /\ DropsSpool(r) /\ b = row[r].pend THEN "none" ELSE spool[r][b]]]
DropWorkspaces(R) ==
    ws' = [r \in Run |-> IF r \in R /\ row[r].wsp THEN NoSlot ELSE ws[r]]

\* run_worker up to its loop: finish the recorded cleanups, then serve.
StartProc(p) ==
    /\ proc[p] = "new"
    /\ proc' = [proc EXCEPT ![p] = "up"]
    /\ LET R == {r \in Run : Recovers(r)}
       IN /\ DropRecordedSpool(R)
          /\ DropWorkspaces(R)
          /\ row' = [r \in Run |->
                       IF r \notin R THEN row[r]
                       ELSE [row[r] EXCEPT !.wsp = FALSE,
                                           !.pend = IF DropsSpool(r) THEN NoBuild ELSE @]]
    /\ UNCHANGED <<locked, job>>

\* The same, killed before its single commit: some files are gone, no row changed.
StartInterrupted(p) ==
    /\ proc[p] = "new"
    /\ \E q \in Proc \ {p} : proc[q] = "new"
    /\ proc' = [proc EXCEPT ![p] = "dead"]
    /\ \E R \in SUBSET {r \in Run : Recovers(r)} : DropRecordedSpool(R) /\ DropWorkspaces(R)
    /\ UNCHANGED <<row, locked, job>>

\* The process dies with all its tasks; the container starts another.  The number
\* of incarnations is bounded by Proc: the last one does not die.
Crash(p) ==
    /\ proc[p] = "up"
    /\ \E q \in Proc \ {p} : proc[q] # "dead"
    /\ proc' = [proc EXCEPT ![p] = "dead"]
    /\ job' = [s \in Slot |-> IF Owner(s) = p THEN Idle ELSE job[s]]
    /\ UNCHANGED <<row, spool, locked, ws>>

Working(p, r) == \E s \in Slot : Owner(s) = p /\ RunOf(s) = r

\* lease_expires_at passes.  A task's heartbeat renews at a third of the lease,
\* so a live lease runs out only once nobody renews it, or in a stalled process.
LeaseExpires(r) ==
    /\ row[r].owner # NoProc /\ row[r].live
    /\ row[r].owner \in Stalling \/ ~Working(row[r].owner, r)
    /\ WritesRow(r, [row[r] EXCEPT !.live = FALSE])
    /\ UNCHANGED <<spool, locked, proc, ws, job>>

\* cleanup_expired_failed_artifacts for one row whose retention has passed: a
\* missing directory is forgotten, a verified one removed, any other refused.
RetentionCleanup(p, r) ==
    /\ proc[p] = "up"
    /\ row[r].status = "FAILED" /\ row[r].pend # NoBuild
    /\ locked # r
    /\ spool[r][row[r].pend] = "none" \/ RetainedArtifactVerifies(r)
    /\ spool' = [spool EXCEPT ![r][row[r].pend] = "none"]
    /\ WritesRow(r, [row[r] EXCEPT !.pend = NoBuild])
    /\ UNCHANGED <<locked, proc, ws, job>>

-----------------------------------------------------------------------------
(* Claiming and loading                                                    *)

TakesSlot(s, r) ==
    /\ proc[Owner(s)] = "up"
    /\ At(s, "idle")
    /\ job' = [job EXCEPT ![s] = [Idle EXCEPT !.run = r, !.pc = "load", !.beat = TRUE]]
    /\ UNCHANGED <<proc, ws>>

Claim(s, r)       == ClaimRow(r, Owner(s)) /\ TakesSlot(s, r)
ClaimCancel(s, r) == ClaimCancelRow(r, Owner(s)) /\ TakesSlot(s, r)

\* execute reads the row once and chooses its course.
Load(s) ==
    /\ At(s, "load")
    /\ LET rec == row[RunOf(s)]
           next == CASE rec.cancel -> "cancelling"
                     [] ~rec.cancel /\ rec.status = "DELIVERY_PENDING" -> "deliver"
                     [] ~rec.cancel /\ rec.status # "DELIVERY_PENDING"
                        /\ rec.pend # NoBuild -> "recover"
                     [] OTHER -> "start"
       IN job' = [job EXCEPT ![s].pc = next, ![s].dir = rec.pend]
    /\ OnlyJob

\* _resume_finalized found no directory: forget the name and build again.
RecoverMissing(s) ==
    /\ At(s, "recover")
    /\ spool[RunOf(s)][job[s].dir] = "none"
    /\ WritesRow(RunOf(s), [row[RunOf(s)] EXCEPT !.pend = NoBuild])
    /\ job' = [job EXCEPT ![s].pc = "start", ![s].dir = NoBuild]
    /\ UNCHANGED <<spool, locked, proc, ws>>

\* It found a directory: a published manifest is adopted, anything else is
\* INVALID_MANIFEST.
RecoverFound(s) ==
    /\ At(s, "recover")
    /\ spool[RunOf(s)][job[s].dir] # "none"
    /\ Goto(s, IF Verifies(RunOf(s), job[s].dir) THEN "adopt" ELSE "failing")
    /\ OnlyJob

\* The commit of _resume_finalized.  Unlike the rest of the build it re-reads
\* neither owner nor cancel_requested; only the unique index can refuse it.
Adopt(s) ==
    /\ At(s, "adopt")
    /\ LET r == RunOf(s)
       IN IF IsActive(r) \/ IndexAllows(r)
            THEN /\ WritesRow(r, [row[r] EXCEPT !.status = "DELIVERY_PENDING", !.final = TRUE])
                 /\ Goto(s, "sweep")
            ELSE Goto(s, "failing") /\ UNCHANGED row
    /\ UNCHANGED <<spool, locked, proc, ws>>

-----------------------------------------------------------------------------
(* Building                                                                *)

Boundary == {"start", "building", "commit", "deliver", "sending"}

\* A boundary raises: the lease is another's ...
BoundaryLost(s) ==
    /\ job[s].pc \in Boundary
    /\ ~Mine(s)
    /\ Goto(s, "failing")
    /\ OnlyJob

\* ... or cancellation was requested.
BoundaryCancel(s) ==
    /\ job[s].pc \in Boundary
    /\ Mine(s) /\ row[RunOf(s)].cancel
    /\ Goto(s, "cancelling")
    /\ OnlyJob

\* _build writes RUNNING and reads owner and cancel under the same row lock.
Start(s) ==
    /\ At(s, "start") /\ InCharge(s)
    /\ WritesRow(RunOf(s), [row[RunOf(s)] EXCEPT !.status = "RUNNING"])
    /\ Goto(s, "workspace")
    /\ UNCHANGED <<spool, locked, proc, ws>>

\* Remove the run's workspace, whoever filled it, and create it anew ...
MakeWorkspace(s) ==
    /\ At(s, "workspace")
    /\ ws' = [ws EXCEPT ![RunOf(s)] = s]
    /\ Goto(s, "record")
    /\ UNCHANGED <<row, spool, locked, proc>>

\* ... then commit workspace_path.
RecordWorkspace(s) ==
    /\ At(s, "record")
    /\ WritesRow(RunOf(s), [row[RunOf(s)] EXCEPT !.wsp = TRUE])
    /\ Goto(s, "building")
    /\ UNCHANGED <<spool, locked, proc, ws>>

\* Acquire, archive, compress, encrypt, checksum, up to _stage(FINALIZE): the
\* stages differ only in the files they leave in the task's own workspace.
Transform(s) ==
    /\ At(s, "building") /\ InCharge(s)
    /\ ws[RunOf(s)] = s
    /\ Goto(s, "finalize")
    /\ OnlyJob

\* Seeded bug: the directory's name is committed only after it is filled.
RecordIntendedLate(s) ==
    /\ At(s, "finalize")
    /\ \E b \in Build :
         /\ spool[RunOf(s)][b] = "none"
         /\ job' = [job EXCEPT ![s].pc = "publish", ![s].dir = b]
    /\ UNCHANGED <<row, spool, locked, proc, ws>>

\* pending_directory is committed before anything exists under that name,
\* which carries the current second and was never used before.
RecordIntended(s) ==
    /\ At(s, "finalize")
    /\ LET r == RunOf(s)
       IN \E b \in Build :
            /\ spool[r][b] = "none" /\ b # row[r].pend
            /\ \A t \in Slot : ~(job[t].run = r /\ job[t].dir = b)
            /\ WritesRow(r, [row[r] EXCEPT !.pend = b])
            /\ job' = [job EXCEPT ![s].pc = "publish", ![s].dir = b]
    /\ UNCHANGED <<spool, locked, proc, ws>>

\* finalize_artifact: create the directory and move the artifact into it ...
MoveArtifact(s) ==
    /\ At(s, "publish")
    /\ spool[RunOf(s)][job[s].dir] = "none"
    /\ ws[RunOf(s)] = s
    /\ spool' = [spool EXCEPT ![RunOf(s)][job[s].dir] = "partial"]
    /\ UNCHANGED <<row, locked, proc, ws, job>>

\* ... then publish the manifest.
PublishManifest(s) ==
    /\ At(s, "publish")
    /\ spool[RunOf(s)][job[s].dir] = "partial"
    /\ spool' = [spool EXCEPT ![RunOf(s)][job[s].dir] = "complete"]
    /\ Goto(s, "commit")
    /\ UNCHANGED <<row, locked, proc, ws>>

\* Any exception inside finalize_artifact removes the directory.
PublishFails(s) ==
    /\ At(s, "publish")
    /\ spool' = [spool EXCEPT ![RunOf(s)][job[s].dir] = "none"]
    /\ Goto(s, "failing")
    /\ UNCHANGED <<row, locked, proc, ws>>

\* The final metadata and DELIVERY_PENDING commit under the same row lock as
\* the last ownership boundary.  pending_directory keeps the value committed
\* by RecordIntended: the session sees no change to write.
CommitArtifact(s) ==
    /\ At(s, "commit") /\ InCharge(s)
    /\ WritesRow(RunOf(s), [row[RunOf(s)] EXCEPT !.status = "DELIVERY_PENDING", !.final = TRUE])
    /\ Goto(s, "sweep")
    /\ UNCHANGED <<spool, locked, proc, ws>>

\* The workspace is removed by run uuid, its path cleared.
SweepWorkspace(s) ==
    /\ At(s, "sweep")
    /\ ws' = [ws EXCEPT ![RunOf(s)] = NoSlot]
    /\ WritesRow(RunOf(s), [row[RunOf(s)] EXCEPT !.wsp = FALSE])
    /\ Goto(s, "deliver")
    /\ UNCHANGED <<spool, locked, proc>>

\* Anything in between may raise: a tool, the disk check, the deadline, the
\* database.
Raise(s) ==
    /\ job[s].pc \in {"load", "recover", "adopt", "start", "workspace", "record", "building",
                      "finalize", "commit", "sweep", "deliver", "select", "sending"}
    /\ Goto(s, "failing")
    /\ OnlyJob

-----------------------------------------------------------------------------
(* Delivering                                                              *)

\* Delivery rows after the recipients were selected: rows of people no longer
\* selected become SKIPPED unless SUCCEEDED, new people get PENDING rows.
Selections(D) ==
    {E \in SUBSET DeliveryStatus :
        /\ "SUCCEEDED" \in E <=> "SUCCEEDED" \in D
        /\ "FAILED" \in E => "FAILED" \in D
        /\ "SKIPPED" \in D => "SKIPPED" \in E
        /\ "SKIPPED" \in E => D \intersect {"SKIPPED", "PENDING", "FAILED"} # {}
        /\ D # {} => E # {}}

\* attempt enters through an ownership boundary ...
DeliverEnters(s) ==
    /\ At(s, "deliver") /\ InCharge(s)
    /\ Goto(s, "select")
    /\ OnlyJob

\* ... and checks fields and files, selects the recipients and commits them
\* without looking at owner and cancel_requested again.
DeliverBegins(s) ==
    /\ At(s, "select")
    /\ LET r == RunOf(s)
       IN /\ job[s].dir # NoBuild /\ row[r].final
          /\ spool[r][job[s].dir] # "none"
          /\ \E E \in Selections(row[r].dlv) : WritesRow(r, [row[r] EXCEPT !.dlv = E])
    /\ Goto(s, "sending")
    /\ UNCHANGED <<spool, locked, proc, ws>>

\* The files are not what was recorded, or a part exceeds an upload limit that was
\* lowered since: a code that is final for the run.
DeliverRejects(s) ==
    /\ At(s, "select")
    /\ job[s].dir # NoBuild /\ row[RunOf(s)].final
    /\ Goto(s, "rejecting")
    /\ OnlyJob

\* One recipient's outcome is committed.  The last look at owner and
\* cancel_requested belongs to an earlier transaction, so a cancellation may have
\* been requested since; and where a worker stalls, it and its successor may overwrite
\* each other's rows, which then no longer say PENDING.
Checkpoint(s, outcome) ==
    /\ At(s, "sending")
    /\ LET r == RunOf(s)
           D == row[r].dlv
       IN /\ "PENDING" \in D \/ Stalling # {}
          /\ \E rest \in IF Stalling = {} THEN {D, D \ {"PENDING"}} ELSE SUBSET D :
               WritesRow(r, [row[r] EXCEPT !.dlv = rest \union {outcome}])
    /\ UNCHANGED <<spool, locked, proc, ws, job>>

\* The end is judged by the copies in the session: the rows, unless a worker that
\* stalled has overwritten them since, or has selected recipients anew.
Judged(s) == IF Stalling = {} THEN {row[RunOf(s)].dlv} ELSE SUBSET DeliveryStatus

\* Somebody is still to be served later: back off and give the lease back.
EndPending(s) ==
    /\ At(s, "sending") /\ InCharge(s)
    /\ \E D \in Judged(s) : "PENDING" \in D
    /\ WritesRow(RunOf(s), Released(row[RunOf(s)]))
    /\ Finish(s)
    /\ UNCHANGED <<spool, locked, proc, ws>>

\* Seeded bug: a failed delivery removes the spool directory too.
EndFailedDropsSpool(s) ==
    /\ At(s, "sending") /\ InCharge(s)
    /\ "PENDING" \notin row[RunOf(s)].dlv /\ "FAILED" \in row[RunOf(s)].dlv
    /\ WritesRow(RunOf(s), [Released(row[RunOf(s)]) EXCEPT !.status = "FAILED",
                                                          !.pend = NoBuild])
    /\ spool' = [spool EXCEPT ![RunOf(s)][job[s].dir] = "none"]
    /\ Finish(s)
    /\ UNCHANGED <<locked, proc, ws>>

\* _finish: the conditional UPDATE that ends the run.
EndFailed(s) ==
    /\ At(s, "sending") /\ InCharge(s)
    /\ row[RunOf(s)].status = "DELIVERY_PENDING"
    /\ \E D \in Judged(s) : "PENDING" \notin D /\ "FAILED" \in D
    /\ WritesRow(RunOf(s), [Released(row[RunOf(s)]) EXCEPT !.status = "FAILED"])
    /\ Finish(s)
    /\ UNCHANGED <<spool, locked, proc, ws>>

EndSucceeded(s) ==
    /\ At(s, "sending") /\ InCharge(s)
    /\ row[RunOf(s)].status = "DELIVERY_PENDING"
    /\ \E D \in Judged(s) : D \intersect {"PENDING", "FAILED"} = {}
    /\ WritesRow(RunOf(s), [Released(row[RunOf(s)]) EXCEPT !.status = "SUCCEEDED"])
    /\ Goto(s, "cleanup")
    /\ UNCHANGED <<spool, locked, proc, ws>>

\* After success: remove the directory and forget it.  A directory already gone
\* raises, and neither handler touches a succeeded run.
CleanSpool(s) ==
    /\ At(s, "cleanup")
    /\ LET r == RunOf(s)
       IN IF spool[r][job[s].dir] = "none"
            THEN UNCHANGED <<row, spool>>
            ELSE /\ spool' = [spool EXCEPT ![r][job[s].dir] = "none"]
                 /\ WritesRow(r, [row[r] EXCEPT !.pend = NoBuild])
    /\ Finish(s)
    /\ UNCHANGED <<locked, proc, ws>>

-----------------------------------------------------------------------------
(* The exception handlers of execute                                       *)

\* _finalize_cancel_requested: CANCELLED, and the paths to clean are returned.
HandlerCancels(s) ==
    /\ job[s].pc \in {"cancelling", "failing", "rejecting"}
    /\ CancelMatches(RunOf(s), Owner(s))
    /\ LET rec == row[RunOf(s)]
       IN /\ WritesRow(RunOf(s), [Released(rec) EXCEPT !.status = "CANCELLED"])
          /\ job' = [job EXCEPT ![s].pc = "cancelled", ![s].dir = rec.pend, ![s].wsp = rec.wsp]
    /\ UNCHANGED <<spool, locked, proc, ws>>

\* Nothing to cancel here: the cancellation is re-raised, the lease stays.
CancelUnmatched(s) ==
    /\ At(s, "cancelling")
    /\ ~CancelMatches(RunOf(s), Owner(s))
    /\ Finish(s)
    /\ OnlyJob

\* Remove what the cancelled row had recorded, then clear those paths.
ClearCancelled(s) ==
    /\ At(s, "cancelled")
    /\ LET r == RunOf(s)
           rec == row[r]
       IN /\ ws' = IF job[s].wsp THEN [ws EXCEPT ![r] = NoSlot] ELSE ws
          /\ spool' = IF job[s].dir = NoBuild THEN spool
                      ELSE [spool EXCEPT ![r][job[s].dir] = "none"]
          /\ IF rec.status # "CANCELLED" THEN UNCHANGED row
               ELSE WritesRow(r, [rec EXCEPT
                                    !.wsp = IF job[s].wsp THEN FALSE ELSE @,
                                    !.pend = IF @ = job[s].dir THEN NoBuild ELSE @])
    /\ Finish(s)
    /\ UNCHANGED <<locked, proc>>

\* No cancellation was requested so far: go on to _fail, in a new transaction.
NotCancelled(s) ==
    /\ job[s].pc \in {"failing", "rejecting"}
    /\ ~CancelMatches(RunOf(s), Owner(s))
    /\ Goto(s, IF At(s, "failing") THEN "fail" ELSE "reject")
    /\ OnlyJob

\* _fail on a run that is no longer this owner's, or no longer active.
FailIgnored(s) ==
    /\ job[s].pc \in {"fail", "reject"}
    /\ ~(IsActive(RunOf(s)) /\ Mine(s))
    /\ Finish(s)
    /\ OnlyJob

\* _fail on a finalized run: only the codes about the files end it, any other
\* gives the lease back for a later attempt.
FailDelivery(s) ==
    /\ job[s].pc \in {"fail", "reject"}
    /\ Mine(s)
    /\ row[RunOf(s)].status = "DELIVERY_PENDING"
    /\ WritesRow(RunOf(s),
                 [Released(row[RunOf(s)]) EXCEPT
                    !.status = IF At(s, "reject") THEN "FAILED" ELSE @])
    /\ Finish(s)
    /\ UNCHANGED <<spool, locked, proc, ws>>

\* _fail on a run that is not finalized: it removes the workspace ...
FailBuild(s) ==
    /\ job[s].pc \in {"fail", "reject"}
    /\ Mine(s)
    /\ row[RunOf(s)].status \in {"QUEUED", "RUNNING"}
    /\ ws' = [ws EXCEPT ![RunOf(s)] = NoSlot]
    /\ Goto(s, "failed")
    /\ UNCHANGED <<row, spool, locked, proc>>

\* Seeded bug: the failed run keeps its lease.
FailCommitKeepsLease(s) ==
    /\ At(s, "failed")
    /\ WritesRow(RunOf(s), [row[RunOf(s)] EXCEPT !.status = "FAILED", !.wsp = FALSE])
    /\ Finish(s)
    /\ UNCHANGED <<spool, locked, proc, ws>>

\* ... and only then writes FAILED, without looking at the row again.
FailCommit(s) ==
    /\ At(s, "failed")
    /\ WritesRow(RunOf(s),
                 [Released(row[RunOf(s)]) EXCEPT !.status = "FAILED", !.wsp = FALSE])
    /\ Finish(s)
    /\ UNCHANGED <<spool, locked, proc, ws>>

-----------------------------------------------------------------------------
(* The heartbeat of a task                                                 *)

Handler == {"cancelling", "failing", "rejecting", "fail", "reject", "failed"}

\* What the publishing thread leaves behind when its task is cancelled: it is
\* waited for, and either cleaned up or was already past its last check.
ThreadStops(s) ==
    LET r == RunOf(s)
        d == job[s].dir
    IN IF ~At(s, "publish") THEN UNCHANGED spool
       ELSE \E left \in {"none"} \union (IF spool[r][d] = "partial" \/ ws[r] = s
                                          THEN {"complete"} ELSE {}) :
              spool' = [spool EXCEPT ![r][d] = left]

\* It sees cancel_requested, cancels the task and ends.  A handler already running
\* is cut short.
HeartbeatCancels(s) ==
    /\ job[s].beat /\ Mine(s) /\ row[RunOf(s)].cancel
    /\ ThreadStops(s)
    /\ job' = [job EXCEPT ![s] = IF job[s].pc \in Handler THEN Idle
                                 ELSE [@ EXCEPT !.pc = "cancelling", !.beat = FALSE]]
    /\ UNCHANGED <<row, locked, proc, ws>>

\* It sees another owner, or none, and cancels the task without any cleanup: a
\* removal of the spool directory that was under way may still complete.
HeartbeatLost(s) ==
    /\ job[s].beat /\ ~Mine(s)
    /\ \/ ThreadStops(s)
       \/ /\ job[s].pc \in {"cleanup", "cancelled"} /\ job[s].dir # NoBuild
          /\ spool' = [spool EXCEPT ![RunOf(s)][job[s].dir] = "none"]
    /\ Finish(s)
    /\ UNCHANGED <<row, locked, proc, ws>>

\* Its database session raises: the task is cancelled like one that lost its lease,
\* which it still holds.
HeartbeatFails(s) ==
    /\ job[s].beat /\ Mine(s)
    /\ ThreadStops(s)
    /\ Finish(s)
    /\ UNCHANGED <<row, locked, proc, ws>>

\* It renews, which matters here only for a process that may stall.
HeartbeatRenews(s) ==
    /\ job[s].beat /\ ~row[RunOf(s)].live /\ ~row[RunOf(s)].cancel
    /\ RenewRow(RunOf(s), Owner(s))
    /\ UNCHANGED <<proc, ws, job>>

-----------------------------------------------------------------------------
Unattended == UNCHANGED <<proc, ws, job>>

Bot ==
    \/ \E r \in Run : (Enqueue(r) \/ EnqueueSkipped(r) \/ RequestCancel(r)
                        \/ RetryChecks(r) \/ Purge(r)) /\ Unattended
    \/ \E r, q \in Run : RetryRecreates(r, q) /\ Unattended

\* What a task does next when nothing fails and nobody cancels it.
Builds(s) ==
    \/ Load(s) \/ RecoverMissing(s) \/ RecoverFound(s) \/ Adopt(s)
    \/ Start(s) \/ MakeWorkspace(s) \/ RecordWorkspace(s) \/ Transform(s)
    \/ RecordIntended(s) \/ MoveArtifact(s) \/ PublishManifest(s)
    \/ CommitArtifact(s) \/ SweepWorkspace(s)
    \/ DeliverEnters(s) \/ DeliverRejects(s) \/ CleanSpool(s)

Handles(s) ==
    \/ HandlerCancels(s) \/ CancelUnmatched(s) \/ ClearCancelled(s)
    \/ NotCancelled(s) \/ FailIgnored(s) \/ FailDelivery(s) \/ FailBuild(s) \/ FailCommit(s)

Ends(s) == EndPending(s) \/ EndFailed(s) \/ EndSucceeded(s)

Stops(s) == BoundaryLost(s) \/ BoundaryCancel(s)

Proceeds(s) == Builds(s) \/ Stops(s) \/ DeliverBegins(s) \/ Ends(s) \/ Handles(s)

Delivers(s) == \E outcome \in {"SUCCEEDED", "FAILED", "SKIPPED"} :
                 Checkpoint(s, outcome)

Breaks(s) == Raise(s) \/ PublishFails(s) \/ HeartbeatFails(s)

Beats(s) == HeartbeatCancels(s) \/ HeartbeatLost(s) \/ HeartbeatRenews(s)

World ==
    \/ Bot
    \/ \E p \in Proc : StartProc(p) \/ StartInterrupted(p) \/ Crash(p)
    \/ \E r \in Run : LeaseExpires(r)
    \/ \E p \in Proc, r \in Run : RetentionCleanup(p, r)
    \/ \E s \in Slot, r \in Run : ClaimCancel(s, r)

Next ==
    \/ World
    \/ RetryCommits /\ Unattended
    \/ \E s \in Slot, r \in Run : Claim(s, r)
    \/ \E s \in Slot : Proceeds(s) \/ Delivers(s) \/ Breaks(s) \/ Beats(s)

Spec == Init /\ [][Next]_vars

\* The scheduler of the process runs every task it holds; the loop keeps polling
\* the table; time passes; the container is restarted.  A heartbeat first looks
\* one second after its task began, so it does not cut short the cancellation
\* handler of every task that begins with one: hence the strong fairness.  The
\* heartbeats' database sessions do not fail for ever.
Fairness ==
    /\ \A p \in Proc : WF_vars(StartProc(p))
    /\ \A r \in Run : WF_vars(LeaseExpires(r))
    /\ WF_vars(RetryCommits /\ Unattended)
    /\ \A r \in Run : WF_vars(\E p \in Proc : RetentionCleanup(p, r))
    /\ \A r \in Run : WF_vars(\E s \in Slot : Claim(s, r) \/ ClaimCancel(s, r))
    /\ \A s \in Slot : WF_vars(Proceeds(s)) /\ WF_vars(HeartbeatCancels(s))
    /\ \A s \in Slot : SF_vars(HandlerCancels(s))
    /\ <>[][\A s \in Slot : ~HeartbeatFails(s)]_vars

FairSpec == Spec /\ Fairness

-----------------------------------------------------------------------------
(* Properties                                                              *)

\* A profile never has two active runs, whatever operators, scheduler, retries
\* and workers do at the same time: enqueue, retry_failed and _resume_finalized
\* all make a row active.
OneActivePerProfile ==
    \A r, q \in Run : r # q /\ ProfileOf[r] = ProfileOf[q] => ~(IsActive(r) /\ IsActive(q))

\* No two tasks ever work on the same run.
SingleExecutor ==
    \A s, t \in Slot : s # t /\ RunOf(s) = RunOf(t) => RunOf(s) = NoRun

\* Whatever exists in the spool of a run is what its row names, so recovery,
\* retention and cancellation can find it after any crash.
SpoolRecorded ==
    \A r \in Run, b \in Build : spool[r][b] # "none" => row[r].pend = b

\* A run that waits for delivery has its complete artifact on disk.
DeliveryHasArtifact ==
    \A r \in Run : row[r].status = "DELIVERY_PENDING" => RetainedArtifactVerifies(r)

\* A succeeded run has nothing pending or failed behind it, also after restarts,
\* retries and selections that changed while it was delivered.
SuccessIsSettled ==
    \A r \in Run : row[r].status = "SUCCEEDED" =>
        row[r].final /\ row[r].dlv \intersect {"PENDING", "FAILED"} = {}

\* Row, spool and deliveries agree about what the run has come to.
RunConsistent == SpoolRecorded /\ DeliveryHasArtifact /\ SuccessIsSettled

\* A lease is only ever held on an active run: every path that ends a run gives
\* the lease back in the same transaction, also the paths a stale worker takes.
\* Otherwise retry_failed and purge would refuse the run for ever.
LeaseMeansActive ==
    \A r \in Run : row[r].owner # NoProc => IsActive(r)

\* What ended stays ended: no late handler, recovery or adoption reopens or
\* overwrites a run, except the operator's retry of a failed one.
TerminalIsFinal ==
    [][\A r \in Run :
        /\ IsTerminal(r)
        /\ row'[r].status # row[r].status
        => row[r].status = "FAILED" /\ locked = r]_vars

\* An active run whose cancellation was requested ends, or its failed delivery
\* is retried, which withdraws the request.
CancelCompletes ==
    \A r \in Run : (IsActive(r) /\ row[r].cancel) ~> ~(IsActive(r) /\ row[r].cancel)

\* No run stays queued or running for ever: a crash, an expired lease, a missing
\* directory or a failing tool all lead to a finalized or an ended run.
AcquisitionSettles ==
    \A r \in Run : (row[r].status \in {"QUEUED", "RUNNING"})
                    ~> (row[r].status \notin {"QUEUED", "RUNNING"})

\* The promise to the operator.
Stage == [ABSENT |-> "absent", QUEUED |-> "accepted", RUNNING |-> "accepted",
          DELIVERY_PENDING |-> "ready", SUCCEEDED |-> "delivered", FAILED |-> "failed",
          CANCELLED |-> "cancelled", SKIPPED |-> "skipped"]

Contract == INSTANCE RunContract
    WITH st   <- [r \in Run |-> Stage[row[r].status]],
         kept <- [r \in Run |-> RetainedArtifactVerifies(r)]

\* Workers, leases, crashes, recovery and the operators' actions together
\* implement the promise of RunContract.
RefinesContract == Contract!Spec

-----------------------------------------------------------------------------
(* A claim of the repository's documents that the code breaks              *)

\* A finalized run whose lease is free can be claimed, so that its delivery
\* continues from the saved state.
NoStrandedDelivery ==
    \A r \in Run : row[r].status = "DELIVERY_PENDING" /\ ~row[r].cancel /\ LeaseFree(r)
        => row[r].dlv = {} \/ "PENDING" \in row[r].dlv
=============================================================================
