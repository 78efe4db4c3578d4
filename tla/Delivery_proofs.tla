--------------------------- MODULE Delivery_proofs ---------------------------
(***************************************************************************)
(* Proofs about RunLifecycle and about Delivery, which extends it, for all *)
(* runs, profiles, processes, lanes and recipients.                        *)
(*                                                                         *)
(* RunLifecycle: first with processes that stall as long as they like,     *)
(* then what needs workers that renew their leases in time.  The first     *)
(* inductive invariant joins what the table promises (RowsInv) and that a  *)
(* task knows its run (RestInv).  Nearly every action writes at most one   *)
(* row; WriteKeeps reduces its case to the admissibility of the record it  *)
(* writes.  The second (CInv) adds what ties rows, files, leases and tasks *)
(* to each other.                                                          *)
(*                                                                         *)
(* Delivery: for any workers, also stalling ones, its steps are steps of   *)
(* RunLifecycle and recorded progress is real; where no worker stalls,     *)
(* rows and sessions agree, Telegram is at most one part ahead of them,    *)
(* and uploads stay within the budget.  Wellformed is what holds whoever   *)
(* else writes the rows; Exact is what one task per run adds, and rests on *)
(* CInv.                                                                   *)
(***************************************************************************)
EXTENDS Delivery, TLAPS, WellFoundedInduction


\* A task that does something does it for a run.
JobsHaveRuns ==
    \A s \in Slot : job[s].pc # "idle" \/ job[s].beat => job[s].run \in Run

RowsInv == row \in [Run -> Row] /\ LeaseMeansActive /\ OneActivePerProfile

RestInv ==
    /\ spool \in [Run -> [Build -> SpoolContent]]
    /\ locked \in Run \union {NoRun}
    /\ proc \in [Proc -> {"new", "up", "dead"}]
    /\ ws \in [Run -> Slot \union {NoSlot}]
    /\ job \in [Slot -> Job]
    /\ JobsHaveRuns

IInv == RowsInv /\ RestInv

\* A record that may replace row r.
Admissible(r, rec) ==
    /\ rec \in Row
    /\ rec.owner # NoProc => rec.status \in Active
    /\ rec.status \in Active => IsActive(r) \/ IndexAllows(r)

-----------------------------------------------------------------------------
\* Writing an admissible record keeps the table's invariant.
LEMMA WriteKeeps ==
    ASSUME RowsInv, NEW r \in Run, NEW rec, Admissible(r, rec), WritesRow(r, rec)
    PROVE  RowsInv'
<1>1. row' \in [Run -> Row] /\ row'[r] = rec /\ \A q \in Run \ {r} : row'[q] = row[q]
  BY DEF RowsInv, WritesRow, Admissible
<1>2. LeaseMeansActive'
  BY <1>1 DEF RowsInv, Admissible, LeaseMeansActive, IsActive
<1>3. OneActivePerProfile'
  BY <1>1 DEF RowsInv, Admissible, OneActivePerProfile, IsActive, IndexAllows
<1> QED BY <1>1, <1>2, <1>3 DEF RowsInv

\* A table that does not change keeps its invariant.
LEMMA SameKeeps ==
    ASSUME RowsInv, UNCHANGED row
    PROVE  RowsInv'
BY DEF RowsInv, LeaseMeansActive, OneActivePerProfile, IsActive

\* A record that keeps status and lease is admissible.
LEMMA KeepAdmissible ==
    ASSUME RowsInv, NEW r \in Run, NEW rec \in Row,
           rec.status = row[r].status, rec.owner = row[r].owner
    PROVE  Admissible(r, rec)
BY DEF RowsInv, Admissible, LeaseMeansActive, IsActive

\* The owner of a slot is a process.
LEMMA OwnerIsProc == \A s \in Slot : Owner(s) \in Proc
BY DEF Slot, Owner

\* A task that moves on, with or without a new directory, keeps the tasks' invariant.
LEMMA MoveKeeps ==
    ASSUME RestInv, NEW s \in Slot, NEW rec \in Job, rec.run \in Run,
           job' = [job EXCEPT ![s] = rec]
    PROVE  job' \in [Slot -> Job] /\ JobsHaveRuns'
BY DEF RestInv, JobsHaveRuns

LEMMA IdleIsJob == Idle \in Job
BY DEF Idle, Job, PC

LEMMA FinishKeeps ==
    ASSUME RestInv, NEW s \in Slot, Finish(s)
    PROVE  job' \in [Slot -> Job] /\ JobsHaveRuns'
BY IdleIsJob DEF RestInv, JobsHaveRuns, Finish, Idle

LEMMA GotoKeeps ==
    ASSUME RestInv, NEW s \in Slot, NEW pc \in PC, ~At(s, "idle"), Goto(s, pc)
    PROVE  job' \in [Slot -> Job] /\ JobsHaveRuns'
<1> DEFINE rec == [job[s] EXCEPT !.pc = pc]
<1>1. rec \in Job /\ rec.run \in Run
  BY DEF RestInv, Job, At, JobsHaveRuns
<1>2. job' = [job EXCEPT ![s] = rec]
  BY DEF Goto, RestInv
<1> QED BY <1>1, <1>2, MoveKeeps

-----------------------------------------------------------------------------
(* The operators' actions                                                  *)

\* Nothing the tasks and files consist of changes, except spool and locked.
LEMMA TableActionKeeps ==
    ASSUME RestInv, UNCHANGED <<proc, ws, job>>,
           spool' \in [Run -> [Build -> SpoolContent]], locked' \in Run \union {NoRun}
    PROVE  RestInv'
BY DEF RestInv, JobsHaveRuns

LEMMA NewRowIsRow ==
    ASSUME NEW status \in Status
    PROVE  NewRow(status) \in Row /\ NewRow(status).status = status
           /\ NewRow(status).owner = NoProc
BY DEF NewRow, Row, DeliveryStatus

LEMMA EnqueueKeeps ==
    ASSUME IInv, NEW r \in Run, Enqueue(r), UNCHANGED <<proc, ws, job>>
    PROVE  IInv'
<1>1. Admissible(r, NewRow("QUEUED"))
  BY NewRowIsRow DEF Admissible, Enqueue, Status, Active
<1>2. RowsInv'
  BY <1>1, WriteKeeps DEF IInv, Enqueue
<1>3. RestInv'
  BY TableActionKeeps DEF IInv, Enqueue, RestInv
<1> QED BY <1>2, <1>3 DEF IInv

LEMMA EnqueueSkippedKeeps ==
    ASSUME IInv, NEW r \in Run, EnqueueSkipped(r), UNCHANGED <<proc, ws, job>>
    PROVE  IInv'
<1>1. Admissible(r, NewRow("SKIPPED"))
  BY NewRowIsRow DEF Admissible, Status, Active, Terminal
<1>2. RowsInv'
  BY <1>1, WriteKeeps DEF IInv, EnqueueSkipped
<1>3. RestInv'
  BY TableActionKeeps DEF IInv, EnqueueSkipped, RestInv
<1> QED BY <1>2, <1>3 DEF IInv

LEMMA RequestCancelKeeps ==
    ASSUME IInv, NEW r \in Run, RequestCancel(r), UNCHANGED <<proc, ws, job>>
    PROVE  IInv'
<1> DEFINE rec == [row[r] EXCEPT
                     !.cancel = TRUE,
                     !.status = IF @ = "QUEUED" /\ row[r].owner = NoProc
                                  THEN "CANCELLED" ELSE @]
<1>1. row[r] \in Row
  BY DEF IInv, RowsInv
<1>2. rec \in Row
  BY <1>1 DEF Row, Status, Terminal
<1>3. Admissible(r, rec)
  BY <1>1, <1>2 DEF Admissible, IInv, RowsInv, LeaseMeansActive, IsActive, RequestCancel, Row
<1>4. RowsInv'
  BY <1>3, WriteKeeps DEF IInv, RequestCancel
<1>5. RestInv'
  BY TableActionKeeps DEF IInv, RequestCancel, RestInv
<1> QED BY <1>4, <1>5 DEF IInv

LEMMA RetryChecksKeeps ==
    ASSUME IInv, NEW r \in Run, RetryChecks(r), UNCHANGED <<proc, ws, job>>
    PROVE  IInv'
BY SameKeeps, TableActionKeeps DEF IInv, RetryChecks, RestInv

LEMMA RetryCommitsKeeps ==
    ASSUME IInv, RetryCommits, UNCHANGED <<proc, ws, job>>
    PROVE  IInv'
<1>1. RestInv'
  BY TableActionKeeps DEF IInv, RetryCommits, RestInv
<1>2. CASE UNCHANGED row
  BY <1>1, <1>2, SameKeeps DEF IInv
<1>3. CASE ~UNCHANGED row
  <2>1. locked \in Run /\ row[locked] \in Row
    BY DEF IInv, RowsInv, RestInv, RetryCommits
  <2>2. /\ row[locked].owner = NoProc /\ IndexAllows(locked)
        /\ WritesRow(locked, RetriedRow(locked))
    BY <1>3 DEF RetryCommits
  <2>3. RetriedRow(locked) \in Row /\ RetriedRow(locked).status = "DELIVERY_PENDING"
    BY <2>1 DEF RetriedRow, Row, Status, Active, DeliveryStatus
  <2>4. Admissible(locked, RetriedRow(locked))
    BY <2>2, <2>3 DEF Admissible, Active
  <2>5. RowsInv'
    BY <2>1, <2>2, <2>4, WriteKeeps DEF IInv
  <2> QED BY <1>1, <2>5 DEF IInv
<1> QED BY <1>2, <1>3

LEMMA PurgeKeeps ==
    ASSUME IInv, NEW r \in Run, Purge(r), UNCHANGED <<proc, ws, job>>
    PROVE  IInv'
<1> DEFINE rec == [row[r] EXCEPT !.pend = NoBuild]
<1>1. rec \in Row /\ rec.status = row[r].status /\ rec.owner = row[r].owner
  BY DEF IInv, RowsInv, Row
<1>2. RowsInv'
  BY <1>1, KeepAdmissible, WriteKeeps DEF IInv, Purge
<1>3. spool' \in [Run -> [Build -> SpoolContent]]
  BY DEF IInv, RestInv, Purge, SpoolContent
<1>4. RestInv'
  BY <1>3, TableActionKeeps DEF IInv, Purge, RestInv
<1> QED BY <1>2, <1>4 DEF IInv

LEMMA BotKeeps ==
    ASSUME IInv, Bot
    PROVE  IInv'
BY EnqueueKeeps, EnqueueSkippedKeeps, RequestCancelKeeps, RetryChecksKeeps, PurgeKeeps
     DEF Bot, RetryRecreates, Unattended
-----------------------------------------------------------------------------
(* Processes, leases and claims                                            *)

LEMMA StartProcKeeps ==
    ASSUME IInv, NEW p \in Proc, StartProc(p)
    PROVE  IInv'
<1>1. \A r \in Run : /\ row'[r] \in Row
                     /\ row'[r].status = row[r].status /\ row'[r].owner = row[r].owner
  BY DEF IInv, RowsInv, StartProc, Row
<1>2. row' \in [Run -> Row]
  BY <1>1 DEF StartProc
<1>3. RowsInv'
  BY <1>1, <1>2 DEF IInv, RowsInv, LeaseMeansActive, OneActivePerProfile, IsActive
<1>4. /\ spool' \in [Run -> [Build -> SpoolContent]]
      /\ ws' \in [Run -> Slot \union {NoSlot}]
  BY DEF IInv, RestInv, StartProc, DropRecordedSpool, DropWorkspaces, SpoolContent
<1>5. proc' \in [Proc -> {"new", "up", "dead"}]
  BY DEF IInv, RestInv, StartProc
<1> QED BY <1>3, <1>4, <1>5 DEF IInv, RestInv, JobsHaveRuns, StartProc

LEMMA StartInterruptedKeeps ==
    ASSUME IInv, NEW p \in Proc, StartInterrupted(p)
    PROVE  IInv'
<1>1. /\ spool' \in [Run -> [Build -> SpoolContent]]
      /\ ws' \in [Run -> Slot \union {NoSlot}]
  BY DEF IInv, RestInv, StartInterrupted, DropRecordedSpool, DropWorkspaces, SpoolContent
<1>2. proc' \in [Proc -> {"new", "up", "dead"}]
  BY DEF IInv, RestInv, StartInterrupted
<1>3. RowsInv'
  BY SameKeeps DEF IInv, StartInterrupted
<1> QED BY <1>1, <1>2, <1>3 DEF IInv, RestInv, JobsHaveRuns, StartInterrupted

LEMMA CrashKeeps ==
    ASSUME IInv, NEW p \in Proc, Crash(p)
    PROVE  IInv'
<1>1. job' \in [Slot -> Job] /\ JobsHaveRuns'
  BY IdleIsJob DEF IInv, RestInv, JobsHaveRuns, Crash, Idle
<1>2. proc' \in [Proc -> {"new", "up", "dead"}]
  BY DEF IInv, RestInv, Crash
<1>3. RowsInv'
  BY SameKeeps DEF IInv, Crash
<1> QED BY <1>1, <1>2, <1>3 DEF IInv, RestInv, Crash

LEMMA LeaseExpiresKeeps ==
    ASSUME IInv, NEW r \in Run, LeaseExpires(r)
    PROVE  IInv'
<1> DEFINE rec == [row[r] EXCEPT !.live = FALSE]
<1>1. rec \in Row /\ rec.status = row[r].status /\ rec.owner = row[r].owner
  BY DEF IInv, RowsInv, Row
<1>2. RowsInv'
  BY <1>1, KeepAdmissible, WriteKeeps DEF IInv, LeaseExpires
<1> QED BY <1>2, TableActionKeeps DEF IInv, RestInv, LeaseExpires

LEMMA RetentionCleanupKeeps ==
    ASSUME IInv, NEW p \in Proc, NEW r \in Run, RetentionCleanup(p, r)
    PROVE  IInv'
<1> DEFINE rec == [row[r] EXCEPT !.pend = NoBuild]
<1>1. rec \in Row /\ rec.status = row[r].status /\ rec.owner = row[r].owner
  BY DEF IInv, RowsInv, Row
<1>2. RowsInv'
  BY <1>1, KeepAdmissible, WriteKeeps DEF IInv, RetentionCleanup
<1>3. spool' \in [Run -> [Build -> SpoolContent]]
  BY DEF IInv, RestInv, RetentionCleanup, SpoolContent
<1> QED BY <1>2, <1>3, TableActionKeeps DEF IInv, RestInv, RetentionCleanup

LEMMA ClaimsKeep ==
    ASSUME IInv, NEW s \in Slot, NEW r \in Run, Claim(s, r) \/ ClaimCancel(s, r)
    PROVE  IInv'
<1>1. Owner(s) \in Proc
  BY OwnerIsProc
<1>2. /\ WritesRow(r, Leased(r, Owner(s))) /\ IsActive(r)
      /\ UNCHANGED <<spool, locked>> /\ TakesSlot(s, r)
  BY DEF Claim, ClaimCancel, ClaimRow, ClaimCancelRow
<1>3. Leased(r, Owner(s)) \in Row /\ Leased(r, Owner(s)).status = row[r].status
  BY <1>1 DEF IInv, RowsInv, Leased, Row
<1>4. RowsInv'
  BY <1>2, <1>3, WriteKeeps DEF Admissible, IInv, IsActive
<1> DEFINE rec == [Idle EXCEPT !.run = r, !.pc = "load", !.beat = TRUE]
<1>5. rec \in Job /\ rec.run \in Run
  BY DEF Idle, Job, PC
<1>6. job' \in [Slot -> Job] /\ JobsHaveRuns'
  BY <1>2, <1>5, MoveKeeps DEF IInv, TakesSlot
<1> QED BY <1>2, <1>4, <1>6 DEF IInv, RestInv, TakesSlot

-----------------------------------------------------------------------------
(* Tasks                                                                   *)

\* What a task that is not idle works with.
LEMMA TaskFacts ==
    ASSUME IInv, NEW s \in Slot, ~At(s, "idle")
    PROVE  /\ RunOf(s) \in Run /\ row[RunOf(s)] \in Row
           /\ job[s] \in Job /\ Owner(s) \in Proc /\ Owner(s) # NoProc
BY OwnerIsProc, RunRowsAssumption DEF IInv, RowsInv, RestInv, JobsHaveRuns, RunOf, At

\* What a task does to its own memory and to the files.
LEMMA TaskKeeps ==
    ASSUME RestInv, NEW s \in Slot, UNCHANGED <<locked, proc>>,
           spool' \in [Run -> [Build -> SpoolContent]],
           ws' \in [Run -> Slot \union {NoSlot}],
           \/ UNCHANGED job
           \/ Finish(s)
           \/ ~At(s, "idle") /\ \E pc \in PC : Goto(s, pc)
    PROVE  RestInv'
<1>1. job' \in [Slot -> Job] /\ JobsHaveRuns'
  BY FinishKeeps, GotoKeeps DEF RestInv, JobsHaveRuns
<1> QED BY <1>1 DEF RestInv

\* A step inside the task.
LEMMA OnlyJobKeeps ==
    ASSUME IInv, NEW s \in Slot, OnlyJob,
           Finish(s) \/ (~At(s, "idle") /\ \E pc \in PC : Goto(s, pc))
    PROVE  IInv'
<1>1. RowsInv'
  BY SameKeeps DEF IInv, OnlyJob
<1> QED BY <1>1, TaskKeeps DEF IInv, RestInv, OnlyJob

LEMMA LoadKeeps ==
    ASSUME IInv, NEW s \in Slot, Load(s)
    PROVE  IInv'
<1>1. RunOf(s) \in Run /\ row[RunOf(s)] \in Row /\ job[s] \in Job
  BY TaskFacts DEF Load, At
<1>2. PICK next \in {"cancelling", "deliver", "recover", "start"} :
        job' = [job EXCEPT ![s].pc = next, ![s].dir = row[RunOf(s)].pend]
  BY DEF Load
<1> DEFINE rec == [job[s] EXCEPT !.pc = next, !.dir = row[RunOf(s)].pend]
<1>3. rec \in Job /\ rec.run \in Run
  BY <1>1 DEF Job, PC, Row, RunOf
<1>4. job' = [job EXCEPT ![s] = rec]
  BY <1>2 DEF IInv, RestInv
<1>5. job' \in [Slot -> Job] /\ JobsHaveRuns'
  BY <1>3, <1>4, MoveKeeps DEF IInv
<1> QED BY <1>5, SameKeeps DEF IInv, RestInv, Load, OnlyJob

LEMMA QuietKeeps ==
    ASSUME IInv, NEW s \in Slot,
           \/ RecoverFound(s) \/ BoundaryLost(s) \/ BoundaryCancel(s) \/ Transform(s)
           \/ DeliverEnters(s) \/ DeliverRejects(s) \/ Raise(s) \/ NotCancelled(s)
           \/ CancelUnmatched(s) \/ FailIgnored(s)
    PROVE  IInv'
<1>1. CASE RecoverFound(s)
  BY <1>1, OnlyJobKeeps DEF RecoverFound, At, PC
<1>2. CASE BoundaryLost(s) \/ BoundaryCancel(s)
  BY <1>2, OnlyJobKeeps DEF BoundaryLost, BoundaryCancel, Boundary, At, PC
<1>3. CASE Transform(s) \/ DeliverEnters(s) \/ DeliverRejects(s)
  BY <1>3, OnlyJobKeeps DEF Transform, DeliverEnters, DeliverRejects, At, PC
<1>4. CASE Raise(s)
  BY <1>4, OnlyJobKeeps DEF Raise, At, PC
<1>5. CASE NotCancelled(s)
  BY <1>5, OnlyJobKeeps DEF NotCancelled, At, PC
<1>6. CASE CancelUnmatched(s) \/ FailIgnored(s)
  BY <1>6, OnlyJobKeeps DEF CancelUnmatched, FailIgnored
<1> QED BY <1>1, <1>2, <1>3, <1>4, <1>5, <1>6

\* A step that writes the task's row without touching its status or lease.
LEMMA ColumnKeeps ==
    ASSUME IInv, NEW s \in Slot, ~At(s, "idle"),
           NEW rec \in Row, WritesRow(RunOf(s), rec),
           rec.status = row[RunOf(s)].status, rec.owner = row[RunOf(s)].owner
    PROVE  RowsInv'
BY TaskFacts, KeepAdmissible, WriteKeeps DEF IInv

\* A step by which the task's row ends or gives its lease back.
LEMMA ReleaseKeeps ==
    ASSUME IInv, NEW s \in Slot, ~At(s, "idle"),
           NEW rec \in Row, WritesRow(RunOf(s), rec), rec.owner = NoProc,
           rec.status = row[RunOf(s)].status \/ rec.status \in Terminal
    PROVE  RowsInv'
<1>1. Admissible(RunOf(s), rec)
  BY DEF Admissible, Active, Terminal, IsActive
<1> QED BY <1>1, TaskFacts, WriteKeeps DEF IInv

\* A step by which the owner moves its active run to another active status.
LEMMA AdvanceKeeps ==
    ASSUME IInv, NEW s \in Slot, ~At(s, "idle"), Mine(s),
           NEW rec \in Row, WritesRow(RunOf(s), rec), rec.status \in Active
    PROVE  RowsInv'
<1>1. IsActive(RunOf(s))
  BY TaskFacts DEF Mine, IInv, RowsInv, LeaseMeansActive
<1>2. Admissible(RunOf(s), rec)
  BY <1>1 DEF Admissible
<1> QED BY <1>2, TaskFacts, WriteKeeps DEF IInv

\* The forms in which the record of a row is changed are records of rows.
LEMMA RecordForms ==
    ASSUME NEW rec \in Row, NEW status \in Status, NEW b \in Build \union {NoBuild},
           NEW x \in BOOLEAN, NEW D \in SUBSET DeliveryStatus
    PROVE  /\ [rec EXCEPT !.pend = b] \in Row
           /\ [rec EXCEPT !.wsp = x] \in Row
           /\ [rec EXCEPT !.live = x] \in Row
           /\ [rec EXCEPT !.dlv = D] \in Row
           /\ [rec EXCEPT !.wsp = x, !.pend = b] \in Row
           /\ [rec EXCEPT !.status = status] \in Row
           /\ [rec EXCEPT !.status = status, !.final = TRUE] \in Row
           /\ Released(rec) \in Row
           /\ [Released(rec) EXCEPT !.status = status] \in Row
           /\ [Released(rec) EXCEPT !.status = status, !.wsp = FALSE] \in Row
BY DEF Row, Released

LEMMA StatusFacts ==
    /\ Active \subseteq Status /\ Terminal \subseteq Status
    /\ {"QUEUED", "RUNNING", "DELIVERY_PENDING"} \subseteq Active
    /\ {"SUCCEEDED", "FAILED", "CANCELLED"} \subseteq Terminal
BY DEF Status, Active, Terminal

LEMMA StartKeeps ==
    ASSUME IInv, NEW s \in Slot, Start(s)
    PROVE  IInv'
<1>1. ~At(s, "idle")
  BY DEF Start, At
<1> DEFINE rec == [row[RunOf(s)] EXCEPT !.status = "RUNNING"]
<1>2. rec \in Row
  BY <1>1, TaskFacts, RecordForms, StatusFacts
<1>3. RowsInv'
  BY <1>1, <1>2, AdvanceKeeps DEF Start, InCharge, Row, Active
<1>4. RestInv'
  BY <1>1, TaskKeeps DEF IInv, RestInv, Start, PC
<1> QED BY <1>3, <1>4 DEF IInv

LEMMA RecordWorkspaceKeeps ==
    ASSUME IInv, NEW s \in Slot, RecordWorkspace(s)
    PROVE  IInv'
<1>1. ~At(s, "idle")
  BY DEF RecordWorkspace, At
<1> DEFINE rec == [row[RunOf(s)] EXCEPT !.wsp = TRUE]
<1>2. rec \in Row
  BY <1>1, TaskFacts, RecordForms, StatusFacts
<1>3. RowsInv'
  BY <1>1, <1>2, ColumnKeeps DEF RecordWorkspace, Row
<1>4. RestInv'
  BY <1>1, TaskKeeps DEF IInv, RestInv, RecordWorkspace, PC
<1> QED BY <1>3, <1>4 DEF IInv

LEMMA CommitArtifactKeeps ==
    ASSUME IInv, NEW s \in Slot, CommitArtifact(s)
    PROVE  IInv'
<1>1. ~At(s, "idle")
  BY DEF CommitArtifact, At
<1> DEFINE rec == [row[RunOf(s)] EXCEPT !.status = "DELIVERY_PENDING", !.final = TRUE]
<1>2. rec \in Row
  BY <1>1, TaskFacts, RecordForms, StatusFacts
<1>3. RowsInv'
  BY <1>1, <1>2, AdvanceKeeps DEF CommitArtifact, InCharge, Row, Active
<1>4. RestInv'
  BY <1>1, TaskKeeps DEF IInv, RestInv, CommitArtifact, PC
<1> QED BY <1>3, <1>4 DEF IInv

LEMMA SweepWorkspaceKeeps ==
    ASSUME IInv, NEW s \in Slot, SweepWorkspace(s)
    PROVE  IInv'
<1>1. ~At(s, "idle")
  BY DEF SweepWorkspace, At
<1> DEFINE rec == [row[RunOf(s)] EXCEPT !.wsp = FALSE]
<1>2. rec \in Row
  BY <1>1, TaskFacts, RecordForms, StatusFacts
<1>3. RowsInv'
  BY <1>1, <1>2, ColumnKeeps DEF SweepWorkspace, Row
<1>4. RestInv'
  BY <1>1, TaskKeeps DEF IInv, RestInv, SweepWorkspace, PC
<1> QED BY <1>3, <1>4 DEF IInv

LEMMA EndPendingKeeps ==
    ASSUME IInv, NEW s \in Slot, EndPending(s)
    PROVE  IInv'
<1>1. ~At(s, "idle")
  BY DEF EndPending, At
<1> DEFINE rec == Released(row[RunOf(s)])
<1>2. rec \in Row
  BY <1>1, TaskFacts, RecordForms, StatusFacts
<1>3. RowsInv'
  BY <1>1, <1>2, ReleaseKeeps DEF EndPending, Released, Row
<1>4. RestInv'
  BY <1>1, TaskKeeps DEF IInv, RestInv, EndPending, PC
<1> QED BY <1>3, <1>4 DEF IInv

LEMMA EndFailedKeeps ==
    ASSUME IInv, NEW s \in Slot, EndFailed(s)
    PROVE  IInv'
<1>1. ~At(s, "idle")
  BY DEF EndFailed, At
<1> DEFINE rec == [Released(row[RunOf(s)]) EXCEPT !.status = "FAILED"]
<1>2. rec \in Row
  BY <1>1, TaskFacts, RecordForms, StatusFacts
<1>3. RowsInv'
  BY <1>1, <1>2, ReleaseKeeps DEF EndFailed, Released, Row, Terminal
<1>4. RestInv'
  BY <1>1, TaskKeeps DEF IInv, RestInv, EndFailed, PC
<1> QED BY <1>3, <1>4 DEF IInv

LEMMA EndSucceededKeeps ==
    ASSUME IInv, NEW s \in Slot, EndSucceeded(s)
    PROVE  IInv'
<1>1. ~At(s, "idle")
  BY DEF EndSucceeded, At
<1> DEFINE rec == [Released(row[RunOf(s)]) EXCEPT !.status = "SUCCEEDED"]
<1>2. rec \in Row
  BY <1>1, TaskFacts, RecordForms, StatusFacts
<1>3. RowsInv'
  BY <1>1, <1>2, ReleaseKeeps DEF EndSucceeded, Released, Row, Terminal
<1>4. RestInv'
  BY <1>1, TaskKeeps DEF IInv, RestInv, EndSucceeded, PC
<1> QED BY <1>3, <1>4 DEF IInv

LEMMA FailCommitKeeps ==
    ASSUME IInv, NEW s \in Slot, FailCommit(s)
    PROVE  IInv'
<1>1. ~At(s, "idle")
  BY DEF FailCommit, At
<1> DEFINE rec == [Released(row[RunOf(s)]) EXCEPT !.status = "FAILED", !.wsp = FALSE]
<1>2. rec \in Row
  BY <1>1, TaskFacts, RecordForms, StatusFacts
<1>3. RowsInv'
  BY <1>1, <1>2, ReleaseKeeps DEF FailCommit, Released, Row, Terminal
<1>4. RestInv'
  BY <1>1, TaskKeeps DEF IInv, RestInv, FailCommit, PC
<1> QED BY <1>3, <1>4 DEF IInv

\* A task that keeps its run keeps the tasks' invariant.
LEMMA SameRunKeeps ==
    ASSUME IInv, NEW s \in Slot, ~At(s, "idle"), UNCHANGED <<locked, proc, ws>>,
           spool' \in [Run -> [Build -> SpoolContent]],
           NEW rec \in Job, rec.run = job[s].run, job' = [job EXCEPT ![s] = rec]
    PROVE  RestInv'
<1>1. job' \in [Slot -> Job] /\ JobsHaveRuns'
  BY TaskFacts, MoveKeeps DEF IInv, RunOf
<1> QED BY <1>1 DEF IInv, RestInv

LEMMA RecoverMissingKeeps ==
    ASSUME IInv, NEW s \in Slot, RecoverMissing(s)
    PROVE  IInv'
<1>1. ~At(s, "idle")
  BY DEF RecoverMissing, At
<1> DEFINE rec == [row[RunOf(s)] EXCEPT !.pend = NoBuild]
           work == [job[s] EXCEPT !.pc = "start", !.dir = NoBuild]
<1>2. rec \in Row
  BY <1>1, TaskFacts, RecordForms, StatusFacts
<1>3. RowsInv'
  BY <1>1, <1>2, ColumnKeeps, TaskFacts DEF RecoverMissing, Row
<1>4. work \in Job /\ work.run = job[s].run
  BY <1>1, TaskFacts DEF Job, PC
<1>5. job' = [job EXCEPT ![s] = work]
  BY DEF RecoverMissing, IInv, RestInv
<1>6. RestInv'
  BY <1>1, <1>4, <1>5, SameRunKeeps DEF RecoverMissing, IInv, RestInv
<1> QED BY <1>3, <1>6 DEF IInv

LEMMA AdoptKeeps ==
    ASSUME IInv, NEW s \in Slot, Adopt(s)
    PROVE  IInv'
<1>1. ~At(s, "idle")
  BY DEF Adopt, At
<1> DEFINE rec == [row[RunOf(s)] EXCEPT !.status = "DELIVERY_PENDING", !.final = TRUE]
<1>2. rec \in Row /\ rec.status = "DELIVERY_PENDING"
  BY <1>1, TaskFacts, StatusFacts DEF Row
<1>3. RestInv'
  BY <1>1, TaskKeeps DEF IInv, RestInv, Adopt, PC
<1>4. CASE IsActive(RunOf(s)) \/ IndexAllows(RunOf(s))
  <2>1. Admissible(RunOf(s), rec)
    BY <1>2, <1>4, StatusFacts DEF Admissible
  <2>2. WritesRow(RunOf(s), rec)
    BY <1>4 DEF Adopt
  <2> QED BY <1>1, <1>3, <2>1, <2>2, TaskFacts, WriteKeeps DEF IInv
<1>5. CASE ~(IsActive(RunOf(s)) \/ IndexAllows(RunOf(s)))
  BY <1>3, <1>5, SameKeeps DEF Adopt, IInv
<1> QED BY <1>4, <1>5

LEMMA RecordIntendedKeeps ==
    ASSUME IInv, NEW s \in Slot, RecordIntended(s)
    PROVE  IInv'
<1>1. ~At(s, "idle")
  BY DEF RecordIntended, At
<1>2. PICK b \in Build :
        /\ WritesRow(RunOf(s), [row[RunOf(s)] EXCEPT !.pend = b])
        /\ job' = [job EXCEPT ![s].pc = "publish", ![s].dir = b]
  BY DEF RecordIntended
<1> DEFINE rec == [row[RunOf(s)] EXCEPT !.pend = b]
           work == [job[s] EXCEPT !.pc = "publish", !.dir = b]
<1>3. rec \in Row
  BY <1>1, TaskFacts DEF Row
<1>4. RowsInv'
  BY <1>1, <1>2, <1>3, ColumnKeeps, TaskFacts DEF Row
<1>5. work \in Job /\ work.run = job[s].run
  BY <1>1, TaskFacts DEF Job, PC
<1>6. job' = [job EXCEPT ![s] = work]
  BY <1>2 DEF IInv, RestInv
<1>7. RestInv'
  BY <1>1, <1>5, <1>6, SameRunKeeps DEF RecordIntended, IInv, RestInv
<1> QED BY <1>4, <1>7 DEF IInv

LEMMA DeliverBeginsKeeps ==
    ASSUME IInv, NEW s \in Slot, DeliverBegins(s)
    PROVE  IInv'
<1>1. ~At(s, "idle")
  BY DEF DeliverBegins, At
<1>2. PICK E \in SUBSET DeliveryStatus :
        WritesRow(RunOf(s), [row[RunOf(s)] EXCEPT !.dlv = E])
  BY DEF DeliverBegins, Selections
<1> DEFINE rec == [row[RunOf(s)] EXCEPT !.dlv = E]
<1>3. rec \in Row
  BY <1>1, TaskFacts DEF Row
<1>4. RowsInv'
  BY <1>1, <1>2, <1>3, ColumnKeeps, TaskFacts DEF Row
<1>5. RestInv'
  BY <1>1, TaskKeeps DEF IInv, RestInv, DeliverBegins, PC
<1> QED BY <1>4, <1>5 DEF IInv

LEMMA CheckpointKeeps ==
    ASSUME IInv, NEW s \in Slot, NEW outcome \in DeliveryStatus, Checkpoint(s, outcome)
    PROVE  IInv'
<1>1. ~At(s, "idle")
  BY DEF Checkpoint, At
<1>2. PICK rest \in SUBSET row[RunOf(s)].dlv :
        WritesRow(RunOf(s), [row[RunOf(s)] EXCEPT !.dlv = rest \union {outcome}])
  BY DEF Checkpoint
<1> DEFINE rec == [row[RunOf(s)] EXCEPT !.dlv = rest \union {outcome}]
<1>3. rec \in Row
  BY <1>1, TaskFacts DEF Row
<1>4. RowsInv'
  BY <1>1, <1>2, <1>3, ColumnKeeps, TaskFacts DEF Row
<1>5. RestInv'
  BY <1>1, TaskKeeps DEF IInv, RestInv, Checkpoint
<1> QED BY <1>4, <1>5 DEF IInv

LEMMA CleanSpoolKeeps ==
    ASSUME IInv, NEW s \in Slot, CleanSpool(s)
    PROVE  IInv'
<1>1. ~At(s, "idle")
  BY DEF CleanSpool, At
<1> DEFINE rec == [row[RunOf(s)] EXCEPT !.pend = NoBuild]
<1>2. rec \in Row
  BY <1>1, TaskFacts DEF Row
<1>3. WritesRow(RunOf(s), rec) \/ UNCHANGED row
  BY DEF CleanSpool
<1>4. RowsInv'
  BY <1>1, <1>2, <1>3, ColumnKeeps, SameKeeps, TaskFacts DEF Row, IInv
<1>5. spool' \in [Run -> [Build -> SpoolContent]]
  BY DEF IInv, RestInv, CleanSpool, SpoolContent
<1>6. RestInv'
  BY <1>1, <1>5, TaskKeeps DEF IInv, RestInv, CleanSpool
<1> QED BY <1>4, <1>6 DEF IInv

LEMMA HandlerCancelsKeeps ==
    ASSUME IInv, NEW s \in Slot, HandlerCancels(s)
    PROVE  IInv'
<1>1. ~At(s, "idle")
  BY DEF HandlerCancels, At
<1> DEFINE rec == [Released(row[RunOf(s)]) EXCEPT !.status = "CANCELLED"]
           work == [job[s] EXCEPT !.pc = "cancelled", !.dir = row[RunOf(s)].pend,
                                  !.wsp = row[RunOf(s)].wsp]
<1>2. rec \in Row
  BY <1>1, TaskFacts, RecordForms, StatusFacts
<1>3. RowsInv'
  BY <1>1, <1>2, ReleaseKeeps, StatusFacts, TaskFacts DEF HandlerCancels, Released, Row
<1>4. work \in Job /\ work.run = job[s].run
  BY <1>1, TaskFacts DEF Job, PC, Row
<1>5. job' = [job EXCEPT ![s] = work]
  BY DEF HandlerCancels, IInv, RestInv
<1>6. RestInv'
  BY <1>1, <1>4, <1>5, SameRunKeeps DEF HandlerCancels, IInv, RestInv
<1> QED BY <1>3, <1>6 DEF IInv

LEMMA ClearCancelledKeeps ==
    ASSUME IInv, NEW s \in Slot, ClearCancelled(s)
    PROVE  IInv'
<1>1. ~At(s, "idle")
  BY DEF ClearCancelled, At
<1>2. RunOf(s) \in Run /\ row[RunOf(s)] \in Row
  BY <1>1, TaskFacts
<1> DEFINE rec == [row[RunOf(s)] EXCEPT
                     !.wsp = IF job[s].wsp THEN FALSE ELSE @,
                     !.pend = IF @ = job[s].dir THEN NoBuild ELSE @]
<1>3. rec \in Row /\ rec.status = row[RunOf(s)].status /\ rec.owner = row[RunOf(s)].owner
  BY <1>2 DEF Row
<1>4. WritesRow(RunOf(s), rec) \/ UNCHANGED row
  BY DEF ClearCancelled
<1>5. RowsInv'
  BY <1>1, <1>3, <1>4, ColumnKeeps, SameKeeps DEF IInv
<1>6. /\ spool' \in [Run -> [Build -> SpoolContent]]
      /\ ws' \in [Run -> Slot \union {NoSlot}]
  BY DEF IInv, RestInv, ClearCancelled, SpoolContent
<1>7. RestInv'
  BY <1>1, <1>6, TaskKeeps DEF IInv, RestInv, ClearCancelled
<1> QED BY <1>5, <1>7 DEF IInv

LEMMA FailDeliveryKeeps ==
    ASSUME IInv, NEW s \in Slot, FailDelivery(s)
    PROVE  IInv'
<1>1. ~At(s, "idle")
  BY DEF FailDelivery, At
<1>2. row[RunOf(s)] \in Row
  BY <1>1, TaskFacts
<1> DEFINE status == IF At(s, "reject") THEN "FAILED" ELSE row[RunOf(s)].status
           rec == [Released(row[RunOf(s)]) EXCEPT !.status = status]
<1>3. status \in Status
  BY <1>2, StatusFacts DEF Row
<1>4. rec \in Row /\ rec.owner = NoProc /\ rec.status = status
  BY <1>2, <1>3 DEF Released, Row
<1>5. WritesRow(RunOf(s), rec)
  BY <1>2 DEF FailDelivery, Released, Row
<1>6. RowsInv'
  BY <1>1, <1>4, <1>5, ReleaseKeeps, StatusFacts
<1>7. RestInv'
  BY <1>1, TaskKeeps DEF IInv, RestInv, FailDelivery
<1> QED BY <1>6, <1>7 DEF IInv

LEMMA WorkspaceKeeps ==
    ASSUME IInv, NEW s \in Slot, MakeWorkspace(s) \/ FailBuild(s)
    PROVE  IInv'
<1>1. ~At(s, "idle")
  BY DEF MakeWorkspace, FailBuild, At
<1>2. ws' \in [Run -> Slot \union {NoSlot}]
  BY DEF IInv, RestInv, MakeWorkspace, FailBuild
<1>3. RowsInv'
  BY SameKeeps DEF IInv, MakeWorkspace, FailBuild
<1>4. RestInv'
  BY <1>1, <1>2, TaskKeeps DEF IInv, RestInv, MakeWorkspace, FailBuild, PC
<1> QED BY <1>3, <1>4 DEF IInv

LEMMA PublishKeeps ==
    ASSUME IInv, NEW s \in Slot, MoveArtifact(s) \/ PublishManifest(s) \/ PublishFails(s)
    PROVE  IInv'
<1>1. ~At(s, "idle")
  BY DEF MoveArtifact, PublishManifest, PublishFails, At
<1>2. spool' \in [Run -> [Build -> SpoolContent]]
  BY DEF IInv, RestInv, MoveArtifact, PublishManifest, PublishFails, SpoolContent
<1>3. RowsInv'
  BY SameKeeps DEF IInv, MoveArtifact, PublishManifest, PublishFails
<1>4. RestInv'
  BY <1>1, <1>2, TaskKeeps
     DEF IInv, RestInv, MoveArtifact, PublishManifest, PublishFails, PC
<1> QED BY <1>3, <1>4 DEF IInv

-----------------------------------------------------------------------------
(* Heartbeats                                                              *)

LEMMA ThreadStopsKeeps ==
    ASSUME IInv, NEW s \in Slot, ThreadStops(s)
    PROVE  spool' \in [Run -> [Build -> SpoolContent]]
BY DEF IInv, RestInv, ThreadStops, SpoolContent

LEMMA HeartbeatCancelsKeeps ==
    ASSUME IInv, NEW s \in Slot, HeartbeatCancels(s)
    PROVE  IInv'
<1>1. job[s] \in Job /\ job[s].run \in Run
  BY DEF HeartbeatCancels, IInv, RestInv, JobsHaveRuns
<1> DEFINE work == [job[s] EXCEPT !.pc = "cancelling", !.beat = FALSE]
<1>2. work \in Job /\ work.run \in Run
  BY <1>1 DEF Job, PC
<1>3. Finish(s) \/ job' = [job EXCEPT ![s] = work]
  BY DEF HeartbeatCancels, Finish, IInv, RestInv
<1>4. job' \in [Slot -> Job] /\ JobsHaveRuns'
  BY <1>2, <1>3, MoveKeeps, FinishKeeps DEF IInv
<1>5. RowsInv'
  BY SameKeeps DEF IInv, HeartbeatCancels
<1> QED BY <1>4, <1>5, ThreadStopsKeeps DEF IInv, RestInv, HeartbeatCancels

LEMMA HeartbeatLostKeeps ==
    ASSUME IInv, NEW s \in Slot, HeartbeatLost(s)
    PROVE  IInv'
<1>1. spool' \in [Run -> [Build -> SpoolContent]]
  <2>1. CASE ThreadStops(s)
    BY <2>1, ThreadStopsKeeps
  <2>2. CASE spool' = [spool EXCEPT ![RunOf(s)][job[s].dir] = "none"]
    BY <2>2 DEF IInv, RestInv, SpoolContent
  <2> QED BY <2>1, <2>2 DEF HeartbeatLost
<1>2. RowsInv'
  BY SameKeeps DEF IInv, HeartbeatLost
<1> QED BY <1>1, <1>2, TaskKeeps DEF IInv, RestInv, HeartbeatLost

LEMMA HeartbeatFailsKeeps ==
    ASSUME IInv, NEW s \in Slot, HeartbeatFails(s)
    PROVE  IInv'
<1>1. RowsInv'
  BY SameKeeps DEF IInv, HeartbeatFails
<1> QED BY <1>1, ThreadStopsKeeps, TaskKeeps DEF IInv, RestInv, HeartbeatFails

LEMMA HeartbeatRenewsKeeps ==
    ASSUME IInv, NEW s \in Slot, HeartbeatRenews(s)
    PROVE  IInv'
<1>1. RunOf(s) \in Run /\ row[RunOf(s)] \in Row
  BY DEF HeartbeatRenews, IInv, RowsInv, RestInv, JobsHaveRuns, RunOf
<1> DEFINE rec == [row[RunOf(s)] EXCEPT !.live = TRUE]
<1>2. rec \in Row /\ rec.status = row[RunOf(s)].status /\ rec.owner = row[RunOf(s)].owner
  BY <1>1 DEF Row
<1>3. RowsInv'
  BY <1>1, <1>2, KeepAdmissible, WriteKeeps DEF IInv, HeartbeatRenews, RenewRow
<1> QED BY <1>3, TableActionKeeps DEF IInv, RestInv, HeartbeatRenews, RenewRow

-----------------------------------------------------------------------------
(* The invariant                                                           *)

LEMMA TaskStepKeeps ==
    ASSUME IInv, NEW s \in Slot, Proceeds(s) \/ Delivers(s) \/ Breaks(s) \/ Beats(s)
    PROVE  IInv'
<1>1. CASE Proceeds(s)
  BY <1>1, LoadKeeps, RecoverMissingKeeps, QuietKeeps, AdoptKeeps, StartKeeps,
     WorkspaceKeeps, RecordWorkspaceKeeps, RecordIntendedKeeps, PublishKeeps,
     CommitArtifactKeeps, SweepWorkspaceKeeps, DeliverBeginsKeeps, EndPendingKeeps,
     EndFailedKeeps, EndSucceededKeeps, CleanSpoolKeeps, HandlerCancelsKeeps,
     ClearCancelledKeeps, FailDeliveryKeeps, FailCommitKeeps
     DEF Proceeds, Builds, Stops, Ends, Handles
<1>2. CASE Delivers(s)
  BY <1>2, CheckpointKeeps DEF Delivers, DeliveryStatus
<1>3. CASE Breaks(s)
  BY <1>3, QuietKeeps, PublishKeeps, HeartbeatFailsKeeps DEF Breaks
<1>4. CASE Beats(s)
  BY <1>4, HeartbeatCancelsKeeps, HeartbeatLostKeeps, HeartbeatRenewsKeeps DEF Beats
<1> QED BY <1>1, <1>2, <1>3, <1>4

LEMMA InitEstablishes == Init => IInv
<1> SUFFICES ASSUME Init PROVE IInv
  OBVIOUS
<1>1. NewRow("ABSENT") \in Row
  BY NewRowIsRow DEF Status
<1>2. row \in [Run -> Row] /\ \A r \in Run : /\ row[r].status = "ABSENT"
                                           /\ row[r].owner = NoProc
  BY <1>1 DEF Init, RowsInit, NewRow
<1>3. RowsInv
  BY <1>2 DEF RowsInv, LeaseMeansActive, OneActivePerProfile, IsActive, Active
<1>4. RestInv
  BY IdleIsJob DEF RestInv, JobsHaveRuns, Init, RowsInit, SpoolContent, Idle
<1> QED BY <1>3, <1>4 DEF IInv

LEMMA StepKeeps == IInv /\ [Next]_vars => IInv'
<1> SUFFICES ASSUME IInv, [Next]_vars PROVE IInv'
  OBVIOUS
<1>1. CASE Bot
  BY <1>1, BotKeeps
<1>2. CASE \E p \in Proc : StartProc(p) \/ StartInterrupted(p) \/ Crash(p)
  BY <1>2, StartProcKeeps, StartInterruptedKeeps, CrashKeeps
<1>3. CASE \E r \in Run : LeaseExpires(r)
  BY <1>3, LeaseExpiresKeeps
<1>4. CASE \E p \in Proc, r \in Run : RetentionCleanup(p, r)
  BY <1>4, RetentionCleanupKeeps
<1>5. CASE \E s \in Slot, r \in Run : Claim(s, r) \/ ClaimCancel(s, r)
  BY <1>5, ClaimsKeep
<1>6. CASE \E s \in Slot : Proceeds(s) \/ Delivers(s) \/ Breaks(s) \/ Beats(s)
  BY <1>6, TaskStepKeeps
<1>7. CASE RetryCommits /\ Unattended
  BY <1>7, RetryCommitsKeeps DEF Unattended
<1>8. CASE UNCHANGED vars
  BY <1>8, SameKeeps, TableActionKeeps DEF vars, IInv, RestInv
<1> QED BY <1>1, <1>2, <1>3, <1>4, <1>5, <1>6, <1>7, <1>8 DEF Next, World

\* The inductive invariant holds in every reachable state.
THEOREM Invariant == Spec => []IInv
BY InitEstablishes, StepKeeps, PTL DEF Spec

\* Every column of every run row, every directory, process, workspace and task has
\* a value that the code can give it.
THEOREM TypeCorrect == Spec => []TypeOK
<1>1. IInv => TypeOK
  BY DEF IInv, RowsInv, RestInv, TypeOK, RowsTypeOK
<1> QED BY <1>1, Invariant, PTL

\* No interleaving of operators, scheduler, retries, recoveries and workers, also
\* stale ones, gives a profile two active runs.
THEOREM OneActive == Spec => []OneActivePerProfile
<1>1. IInv => OneActivePerProfile
  BY DEF IInv, RowsInv
<1> QED BY <1>1, Invariant, PTL

\* No run that has ended holds a lease, however late a worker writes.
THEOREM LeasesEnd == Spec => []LeaseMeansActive
<1>1. IInv => LeaseMeansActive
  BY DEF IInv, RowsInv
<1> QED BY <1>1, Invariant, PTL

-----------------------------------------------------------------------------
(* Workers whose event loops do not stall for longer than a lease: one     *)
(* task per run, consistent rows, files and deliveries, and the promise of *)
(* RunContract.  Crashes, restarts, raising tools and failing heartbeats   *)
(* are all still there.                                                    *)
(*                                                                         *)
(* Every step moves at most one run, except the recovery of a process that *)
(* starts.  A run's row and files are Sound; a task Follows its row, which *)
(* no other task has; and a step that moves a run is Lawful.               *)

Unfinalized == {"QUEUED", "RUNNING"}

\* What RetainedArtifactVerifies says of a row's record and the run's directories.
Retained(rec, files) == rec.pend # NoBuild /\ files[rec.pend] = "complete" /\ rec.final

\* A row and its run's directories agree.
Sound(rec, files) ==
    /\ \A b \in Build : files[b] # "none" => rec.pend = b
    /\ rec.status = "ABSENT" => rec.pend = NoBuild
    /\ rec.status \in Unfinalized \union {"ABSENT"} => ~rec.final
    /\ rec.status = "DELIVERY_PENDING" => Retained(rec, files)
    /\ rec.status = "SUCCEEDED" => rec.final /\ rec.dlv \intersect {"PENDING", "FAILED"} = {}

\* The stages of a task in which it has no directory yet, has one for a row that is
\* not finalized, delivers it, and clears what an ended run left.
Acquiring  == {"start", "workspace", "record", "building", "finalize"}
Publishing == {"recover", "adopt", "publish", "commit"}
Serving == {"sweep", "deliver", "select", "sending"}
Clearing   == {"cleanup", "cancelled"}

\* What a task relies on without reading it again.
Follows(work, owner, rec, files) ==
    /\ work.pc \notin Clearing => rec.owner = owner /\ rec.live
    /\ work.pc \in Acquiring => rec.status \in Unfinalized /\ rec.pend = NoBuild
    /\ work.pc \in Publishing => /\ rec.status \in Unfinalized
                                 /\ work.dir \in Build /\ rec.pend = work.dir
    /\ work.pc \in {"adopt", "commit"} => files[work.dir] = "complete"
    /\ work.pc \in Serving => rec.status = "DELIVERY_PENDING" /\ rec.pend = work.dir
    /\ work.pc = "cleanup" => rec.status = "SUCCEEDED" /\ work.dir \in Build
    /\ work.pc = "cancelled" => rec.status = "CANCELLED"
    /\ work.pc \in Clearing => rec.pend \in {work.dir, NoBuild}

RowsAreSound == \A r \in Run : Sound(row[r], spool[r])

\* The row a retry holds stays as the retry found it.
LockedIsRetained ==
    locked # NoRun => /\ row[locked].status = "FAILED" /\ row[locked].owner = NoProc
                      /\ Retained(row[locked], spool[locked])

TasksFollow ==
    \A s \in Slot : job[s].pc # "idle" =>
        Follows(job[s], Owner(s), row[job[s].run], spool[job[s].run])

IdleHasNoRun == \A s \in Slot : job[s].pc = "idle" => job[s].run = NoRun

CInv == RowsAreSound /\ LockedIsRetained /\ TasksFollow /\ IdleHasNoRun /\ SingleExecutor

\* The ways in which a record and its directories may replace those of run r.
Lawful(r, rec, files) ==
    LET old  == row[r]
        kept == Retained(rec, files) <=> Retained(old, spool[r])
    IN  \/ rec.status = old.status /\ kept
        \/ rec.status = old.status /\ IsTerminal(r)
           /\ Retained(old, spool[r]) /\ ~Retained(rec, files)
        \/ old.status = "ABSENT" /\ rec.status = "QUEUED" /\ IndexAllows(r) /\ kept
        \/ old.status = "ABSENT" /\ rec.status = "SKIPPED" /\ ~IndexAllows(r) /\ kept
        \/ old.status \in Unfinalized /\ rec.status = "RUNNING" /\ kept
        \/ old.status \in Unfinalized /\ rec.status = "DELIVERY_PENDING" /\ Retained(rec, files)
        \/ old.status = "DELIVERY_PENDING" /\ rec.status = "SUCCEEDED" /\ kept
        \/ old.status \in Active /\ rec.status \in {"FAILED", "CANCELLED"} /\ kept
        \/ old.status = "FAILED" /\ rec.status = "DELIVERY_PENDING" /\ IndexAllows(r)
           /\ Retained(old, spool[r]) /\ Retained(rec, files) /\ locked = r

\* What is shown of a step: the invariant, the promise, and that no ended run is
\* reopened but by the retry that holds it.
Promised    == [Contract!Next]_(Contract!vars)
NoReopening ==
    \A r \in Run : IsTerminal(r) /\ row'[r].status # row[r].status
                    => row[r].status = "FAILED" /\ locked = r
Good == CInv' /\ Promised /\ NoReopening

-----------------------------------------------------------------------------
(* What a lawful step of one run means                                     *)

\* The stages of RunContract in which a run is live are those of an active row.
LEMMA StageFacts ==
    ASSUME NEW status \in Status
    PROVE  /\ Stage[status] \in {"accepted", "ready"} <=> status \in Active
           /\ Stage[status] \in {"delivered", "failed", "cancelled", "skipped"}
                <=> status \in Terminal
           /\ Stage[status] = "accepted" <=> status \in Unfinalized
BY DEF Stage, Status, Active, Terminal, Unfinalized

LEMMA KeptIsRetained ==
    \A r \in Run : RetainedArtifactVerifies(r) = Retained(row[r], spool[r])
BY DEF RetainedArtifactVerifies, Retained, Verifies

LEMMA KeptIsRetainedNext ==
    \A r \in Run : RetainedArtifactVerifies(r)' = Retained(row'[r], spool'[r])
BY DEF RetainedArtifactVerifies, Retained, Verifies

\* RunContract's condition that no other run of the profile is live is the index.
LEMMA AloneIsIndex ==
    ASSUME IInv, NEW r \in Run
    PROVE  IndexAllows(r) <=> Contract!Alone(r)
<1>1. \A q \in Run : IsActive(q) <=> Stage[row[q].status] \in {"accepted", "ready"}
  BY StageFacts DEF IInv, RowsInv, Row, IsActive
<1> QED BY <1>1 DEF IndexAllows, Contract!Alone, Contract!Live

LEMMA LawfulIsPromised ==
    ASSUME IInv, IInv', NEW r \in Run, Lawful(r, row'[r], spool'[r]),
           \A q \in Run \ {r} : row'[q] = row[q] /\ spool'[q] = spool[q]
    PROVE  Promised
<1> DEFINE st   == [q \in Run |-> Stage[row[q].status]]
           kept == [q \in Run |-> RetainedArtifactVerifies(q)]
<1>1. /\ row[r].status \in Status /\ row'[r].status \in Status
      /\ row[r] \in Row /\ row'[r] \in Row
  BY DEF IInv, RowsInv, Row
<1>2. st' = [st EXCEPT ![r] = Stage[row'[r].status]]
  OBVIOUS
<1>3. kept' = [kept EXCEPT ![r] = Retained(row'[r], spool'[r])]
  BY KeptIsRetainedNext, KeptIsRetained
<1>4. kept[r] = Retained(row[r], spool[r])
  BY KeptIsRetained
<1>5. Retained(row'[r], spool'[r]) \in BOOLEAN /\ Retained(row[r], spool[r]) \in BOOLEAN
  BY <1>1 DEF Retained, Row
<1>6. st[r] = Stage[row[r].status]
  OBVIOUS
<1> DEFINE same == Retained(row'[r], spool'[r]) = Retained(row[r], spool[r])
<1>7. ASSUME same PROVE UNCHANGED kept
  BY <1>3, <1>4, <1>7
<1>8. CASE same /\ row'[r].status = row[r].status
  <2>1. UNCHANGED st /\ UNCHANGED kept
    BY <1>2, <1>7, <1>8
  <2> QED BY <2>1 DEF Promised, Contract!vars
<1>9. CASE /\ row'[r].status = row[r].status /\ IsTerminal(r)
           /\ Retained(row[r], spool[r]) /\ ~Retained(row'[r], spool'[r])
  <2>1. UNCHANGED st
    BY <1>2, <1>9
  <2>2. st[r] \in {"delivered", "failed", "cancelled", "skipped"}
    BY <1>1, <1>9, StageFacts DEF IsTerminal
  <2>3. /\ kept' \in [Run -> BOOLEAN]
        /\ \A q \in Run : kept'[q] # kept[q] => q = r /\ kept[q]
    BY <1>1, <1>3, <1>4, <1>5, <1>9 DEF RetainedArtifactVerifies
  <2>4. Contract!Discard
    BY <2>1, <2>2, <2>3 DEF Contract!Discard, Contract!Ended
  <2> QED BY <2>4 DEF Promised, Contract!Next
<1>10. CASE same /\ row[r].status = "ABSENT" /\ row'[r].status = "QUEUED" /\ IndexAllows(r)
  <2>1. Contract!Accept(r)
    BY <1>2, <1>7, <1>10, AloneIsIndex DEF Contract!Accept, Contract!Becomes, Stage
  <2> QED BY <2>1 DEF Promised, Contract!Next
<1>11. CASE same /\ row[r].status = "ABSENT" /\ row'[r].status = "SKIPPED" /\ ~IndexAllows(r)
  <2>1. Contract!Overlap(r)
    BY <1>2, <1>7, <1>11, AloneIsIndex DEF Contract!Overlap, Contract!Becomes, Stage
  <2> QED BY <2>1 DEF Promised, Contract!Next
<1>12. CASE same /\ row[r].status \in Unfinalized /\ row'[r].status = "RUNNING"
  <2>1. UNCHANGED st /\ UNCHANGED kept
    BY <1>2, <1>7, <1>12 DEF Stage, Unfinalized
  <2> QED BY <2>1 DEF Promised, Contract!vars
<1>13. CASE /\ row[r].status \in Unfinalized /\ row'[r].status = "DELIVERY_PENDING"
            /\ Retained(row'[r], spool'[r])
  <2>1. kept' = [kept EXCEPT ![r] = TRUE]
    BY <1>3, <1>5, <1>13
  <2>2. Contract!Ready(r)
    BY <1>2, <1>13, <2>1 DEF Contract!Ready, Contract!Becomes, Stage, Unfinalized
  <2> QED BY <2>2 DEF Promised, Contract!Next
<1>14. CASE same /\ row[r].status = "DELIVERY_PENDING" /\ row'[r].status = "SUCCEEDED"
  <2>1. Contract!Deliver(r)
    BY <1>2, <1>7, <1>14 DEF Contract!Deliver, Contract!Becomes, Stage
  <2> QED BY <2>1 DEF Promised, Contract!Next
<1>15. CASE same /\ row[r].status \in Active /\ row'[r].status \in {"FAILED", "CANCELLED"}
  <2>1. st[r] \in {"accepted", "ready"}
    BY <1>1, <1>15, StageFacts
  <2>2. CASE row'[r].status = "FAILED"
    <3>1. Contract!GiveUp(r)
      BY <1>2, <1>7, <1>15, <2>1, <2>2
         DEF Contract!GiveUp, Contract!Becomes, Contract!Live, Stage
    <3> QED BY <3>1 DEF Promised, Contract!Next
  <2>3. CASE row'[r].status = "CANCELLED"
    <3>1. Contract!Cancel(r)
      BY <1>2, <1>7, <1>15, <2>1, <2>3
         DEF Contract!Cancel, Contract!Becomes, Contract!Live, Stage
    <3> QED BY <3>1 DEF Promised, Contract!Next
  <2> QED BY <1>15, <2>2, <2>3
<1>16. CASE /\ row[r].status = "FAILED" /\ row'[r].status = "DELIVERY_PENDING" /\ same
            /\ IndexAllows(r) /\ Retained(row[r], spool[r])
  <2>1. Contract!Retry(r)
    BY <1>2, <1>4, <1>7, <1>16, AloneIsIndex DEF Contract!Retry, Contract!Becomes, Stage
  <2> QED BY <2>1 DEF Promised, Contract!Next
<1> QED
  BY <1>5, <1>8, <1>9, <1>10, <1>11, <1>12, <1>13, <1>14, <1>15, <1>16 DEF Lawful

LEMMA LawfulIsFinal ==
    ASSUME NEW r \in Run, Lawful(r, row'[r], spool'[r]),
           \A q \in Run \ {r} : row'[q] = row[q]
    PROVE  NoReopening
BY DEF NoReopening, Lawful, IsTerminal, Terminal, Active, Unfinalized

\* A step that changes no row and no directory is nothing to the operator.
LEMMA SameIsPromised ==
    ASSUME UNCHANGED <<row, spool>>
    PROVE  Promised /\ NoReopening
BY DEF Promised, NoReopening, Contract!vars, RetainedArtifactVerifies, Verifies

-----------------------------------------------------------------------------
(* Tasks and rows                                                          *)

\* What a task that is not idle may rely on.
LEMMA TaskKnows ==
    ASSUME IInv, CInv, NEW s \in Slot, ~At(s, "idle")
    PROVE  /\ RunOf(s) \in Run /\ row[RunOf(s)] \in Row
           /\ spool[RunOf(s)] \in [Build -> SpoolContent]
           /\ job[s] \in Job /\ Owner(s) \in Proc /\ Owner(s) # NoProc
           /\ Sound(row[RunOf(s)], spool[RunOf(s)])
           /\ Follows(job[s], Owner(s), row[RunOf(s)], spool[RunOf(s)])
           /\ locked # RunOf(s)
<1>1. /\ RunOf(s) \in Run /\ row[RunOf(s)] \in Row
      /\ job[s] \in Job /\ Owner(s) \in Proc /\ Owner(s) # NoProc
  BY TaskFacts
<1>2. Follows(job[s], Owner(s), row[RunOf(s)], spool[RunOf(s)])
  BY DEF CInv, TasksFollow, At, RunOf
<1>3. ASSUME locked = RunOf(s) PROVE FALSE
  BY <1>1, <1>2, <1>3, RunRowsAssumption DEF CInv, LockedIsRetained, Follows, Clearing
<1> QED BY <1>1, <1>2, <1>3 DEF CInv, RowsAreSound, IInv, RestInv

\* Nobody works on a run that can be claimed, that has failed or that is not there.
LEMMA FreeRunHasNoTask ==
    ASSUME IInv, CInv, NEW r \in Run, LeaseFree(r),
           row[r].status \notin {"SUCCEEDED", "CANCELLED"},
           NEW s \in Slot, ~At(s, "idle")
    PROVE  RunOf(s) # r
BY TaskKnows DEF LeaseFree, Follows, Clearing

LEMMA EndedIsFree ==
    ASSUME IInv, NEW r \in Run, ~IsActive(r)
    PROVE  row[r].owner = NoProc /\ LeaseFree(r)
BY DEF IInv, RowsInv, LeaseMeansActive, LeaseFree

-----------------------------------------------------------------------------
(* The forms of a step                                                     *)

\* A step of one task: it moves its own run, and its memory still fits its row.
LEMMA OwnStep ==
    ASSUME IInv, IInv', CInv, NEW s \in Slot, ~At(s, "idle"), UNCHANGED locked,
           \A q \in Run \ {RunOf(s)} : row'[q] = row[q] /\ spool'[q] = spool[q],
           \A t \in Slot \ {s} : job'[t] = job[t],
           Lawful(RunOf(s), row'[RunOf(s)], spool'[RunOf(s)]),
           Sound(row'[RunOf(s)], spool'[RunOf(s)]),
           \/ job'[s] = Idle
           \/ /\ job'[s].run = job[s].run /\ job'[s].pc # "idle"
              /\ Follows(job'[s], Owner(s), row'[RunOf(s)], spool'[RunOf(s)])
    PROVE  Good
<1>1. RunOf(s) \in Run /\ locked # RunOf(s)
  BY TaskKnows
<1>2. RowsAreSound'
  BY <1>1 DEF CInv, RowsAreSound
<1>3. LockedIsRetained'
  BY <1>1 DEF CInv, LockedIsRetained, IInv, RestInv
<1>4. \A t \in Slot \ {s} : job[t].pc # "idle" => job[t].run # RunOf(s) /\ job[t].run \in Run
  BY <1>1, RunRowsAssumption
     DEF CInv, SingleExecutor, RunOf, IInv, RestInv, JobsHaveRuns
<1>5. TasksFollow'
  <2> SUFFICES ASSUME NEW t \in Slot, job'[t].pc # "idle"
               PROVE  Follows(job'[t], Owner(t), row'[job'[t].run], spool'[job'[t].run])
    BY DEF TasksFollow, Owner
  <2>1. CASE t = s
    BY <2>1, <1>1 DEF RunOf, Idle
  <2>2. CASE t # s
    BY <2>2, <1>4 DEF CInv, TasksFollow
  <2> QED BY <2>1, <2>2
<1>6. IdleHasNoRun'
  BY DEF CInv, IdleHasNoRun, Idle
<1>7. SingleExecutor'
  BY DEF CInv, SingleExecutor, RunOf, Idle
<1> QED
  BY <1>1, <1>2, <1>3, <1>5, <1>6, <1>7, LawfulIsPromised, LawfulIsFinal DEF Good, CInv

\* A step that moves one run and no task; the tasks of that run do not notice.
LEMMA TableStep ==
    ASSUME IInv, IInv', CInv, NEW r \in Run, UNCHANGED job, LockedIsRetained',
           \A q \in Run \ {r} : row'[q] = row[q] /\ spool'[q] = spool[q],
           Lawful(r, row'[r], spool'[r]), Sound(row'[r], spool'[r]),
           \A s \in Slot : ~At(s, "idle") /\ RunOf(s) = r
                            => Follows(job[s], Owner(s), row'[r], spool'[r])
    PROVE  Good
<1>1. RowsAreSound'
  BY DEF CInv, RowsAreSound
<1>2. TasksFollow'
  BY DEF CInv, TasksFollow, At, RunOf, Owner, IInv, RestInv, JobsHaveRuns
<1>3. IdleHasNoRun' /\ SingleExecutor'
  BY DEF CInv, IdleHasNoRun, SingleExecutor, RunOf
<1> QED BY <1>1, <1>2, <1>3, LawfulIsPromised, LawfulIsFinal DEF Good, CInv

\* A step inside one task.
LEMMA MoveStep ==
    ASSUME IInv, IInv', CInv, NEW s \in Slot, ~At(s, "idle"), UNCHANGED <<row, spool, locked>>,
           \A t \in Slot \ {s} : job'[t] = job[t],
           \/ job'[s] = Idle
           \/ /\ job'[s].run = job[s].run /\ job'[s].pc # "idle"
              /\ Follows(job'[s], Owner(s), row[RunOf(s)], spool[RunOf(s)])
    PROVE  Good
<1>1. /\ RunOf(s) \in Run
      /\ Sound(row[RunOf(s)], spool[RunOf(s)])
  BY TaskKnows
<1>2. Lawful(RunOf(s), row'[RunOf(s)], spool'[RunOf(s)])
  BY DEF Lawful
<1> QED BY <1>1, <1>2, OwnStep

\* What Goto and Finish do to the tasks.
LEMMA GotoMoves ==
    ASSUME IInv, NEW s \in Slot, NEW pc \in PC, ~At(s, "idle"), Goto(s, pc)
    PROVE  /\ \A t \in Slot \ {s} : job'[t] = job[t]
           /\ job'[s] = [job[s] EXCEPT !.pc = pc]
           /\ job'[s].run = job[s].run /\ job'[s].dir = job[s].dir /\ job'[s].pc = pc
BY DEF IInv, RestInv, Goto, Job

LEMMA FinishMoves ==
    ASSUME IInv, NEW s \in Slot, Finish(s)
    PROVE  job'[s] = Idle /\ \A t \in Slot \ {s} : job'[t] = job[t]
BY DEF IInv, RestInv, Finish

-----------------------------------------------------------------------------
(* Steps inside a task                                                     *)

\* In every stage but the clearing ones a task may turn to the handlers, which rely
\* on nothing but the lease.
LEMMA TurnsToHandler ==
    ASSUME IInv, IInv', CInv, NEW s \in Slot, ~At(s, "idle"), job[s].pc \notin Clearing,
           NEW pc \in Handler, Goto(s, pc), UNCHANGED <<row, spool, locked>>
    PROVE  Good
<1>1. Follows(job'[s], Owner(s), row[RunOf(s)], spool[RunOf(s)]) /\ job'[s].pc # "idle"
  BY TaskKnows, GotoMoves
     DEF Follows, Handler, Clearing, Acquiring, Publishing, Serving, PC
<1> QED BY <1>1, GotoMoves, MoveStep DEF Handler, PC

LEMMA LeavesGood ==
    ASSUME IInv, IInv', CInv, NEW s \in Slot, ~At(s, "idle"), Finish(s),
           UNCHANGED <<row, spool, locked>>
    PROVE  Good
BY FinishMoves, MoveStep

LEMMA LoadGood ==
    ASSUME IInv, IInv', CInv, NEW s \in Slot, Load(s)
    PROVE  Good
<1>1. ~At(s, "idle") /\ job[s].pc = "load"
  BY DEF Load, At
<1>2. /\ job'[s].run = job[s].run /\ job'[s].dir = row[RunOf(s)].pend
      /\ job'[s].pc # "idle"
      /\ \/ job'[s].pc = "cancelling"
         \/ job'[s].pc = "deliver" /\ row[RunOf(s)].status = "DELIVERY_PENDING"
         \/ job'[s].pc = "recover" /\ row[RunOf(s)].status # "DELIVERY_PENDING"
            /\ row[RunOf(s)].pend # NoBuild
         \/ job'[s].pc = "start" /\ row[RunOf(s)].status # "DELIVERY_PENDING"
            /\ row[RunOf(s)].pend = NoBuild
  BY DEF Load, IInv, RestInv, Job
<1>3. row[RunOf(s)].owner # NoProc
  BY <1>1, TaskKnows DEF Follows, Clearing
<1>4. row[RunOf(s)].status \in Active
  BY <1>1, <1>3, TaskKnows DEF IInv, RowsInv, LeaseMeansActive, IsActive
<1>5. Follows(job'[s], Owner(s), row[RunOf(s)], spool[RunOf(s)])
  BY <1>1, <1>2, <1>4, TaskKnows
     DEF Follows, Clearing, Acquiring, Publishing, Serving, Unfinalized, Active, Row
<1> QED BY <1>1, <1>2, <1>5, MoveStep DEF Load, OnlyJob, IInv, RestInv

LEMMA QuietGood ==
    ASSUME IInv, IInv', CInv, NEW s \in Slot,
           \/ RecoverFound(s) \/ MakeWorkspace(s) \/ Transform(s) \/ DeliverEnters(s)
    PROVE  Good
<1>1. ~At(s, "idle") /\ UNCHANGED <<row, spool, locked>>
  BY DEF RecoverFound, MakeWorkspace, Transform, DeliverEnters, At, OnlyJob
<1>2. PICK pc \in PC :
        /\ Goto(s, pc)
        /\ \/ At(s, "recover") /\ pc = "adopt" /\ Verifies(RunOf(s), job[s].dir)
           \/ At(s, "recover") /\ pc = "failing"
           \/ At(s, "workspace") /\ pc = "record"
           \/ At(s, "building") /\ pc = "finalize"
           \/ At(s, "deliver") /\ pc = "select"
  <2>1. {"adopt", "failing", "record", "finalize", "select"} \subseteq PC
    BY DEF PC
  <2>2. CASE RecoverFound(s)
    BY <2>1, <2>2 DEF RecoverFound
  <2>3. CASE MakeWorkspace(s) \/ Transform(s) \/ DeliverEnters(s)
    BY <2>1, <2>3 DEF MakeWorkspace, Transform, DeliverEnters
  <2> QED BY <2>2, <2>3
<1>3. /\ Follows(job[s], Owner(s), row[RunOf(s)], spool[RunOf(s)])
      /\ job'[s].pc = pc /\ job'[s].dir = job[s].dir /\ job'[s].run = job[s].run
      /\ \A t \in Slot \ {s} : job'[t] = job[t]
  BY <1>1, <1>2, TaskKnows, GotoMoves
<1>4. Follows(job'[s], Owner(s), row[RunOf(s)], spool[RunOf(s)]) /\ job'[s].pc # "idle"
  BY <1>2, <1>3 DEF Follows, At, Verifies, Clearing, Acquiring, Publishing, Serving
<1> QED BY <1>1, <1>3, <1>4, MoveStep

LEMMA RaisingGood ==
    ASSUME IInv, IInv', CInv, NEW s \in Slot,
           \/ BoundaryLost(s) \/ BoundaryCancel(s) \/ DeliverRejects(s) \/ Raise(s)
           \/ NotCancelled(s) \/ FailBuild(s)
    PROVE  Good
<1>1. /\ ~At(s, "idle") /\ job[s].pc \notin Clearing /\ UNCHANGED <<row, spool, locked>>
      /\ \E pc \in Handler : Goto(s, pc)
  BY DEF BoundaryLost, BoundaryCancel, DeliverRejects, Raise, NotCancelled, FailBuild,
         At, OnlyJob, Boundary, Clearing, Handler
<1> QED BY <1>1, TurnsToHandler

LEMMA GivingUpGood ==
    ASSUME IInv, IInv', CInv, NEW s \in Slot, CancelUnmatched(s) \/ FailIgnored(s)
    PROVE  Good
<1>1. ~At(s, "idle") /\ UNCHANGED <<row, spool, locked>> /\ Finish(s)
  BY DEF CancelUnmatched, FailIgnored, At, OnlyJob
<1> QED BY <1>1, LeavesGood

-----------------------------------------------------------------------------
(* Building                                                                *)

LEMMA RecoverMissingGood ==
    ASSUME IInv, IInv', CInv, NEW s \in Slot, RecoverMissing(s)
    PROVE  Good
<1>1. ~At(s, "idle") /\ job[s].pc = "recover"
  BY DEF RecoverMissing, At
<1>2. PICK r \in Run : r = RunOf(s)
  BY <1>1, TaskKnows
<1>3. /\ row'[r] = [row[r] EXCEPT !.pend = NoBuild]
      /\ \A q \in Run \ {r} : row'[q] = row[q]
      /\ spool' = spool /\ locked' = locked /\ spool[r][job[s].dir] = "none"
  BY <1>2 DEF RecoverMissing, WritesRow, IInv, RowsInv
<1>4. /\ job'[s] = [job[s] EXCEPT !.pc = "start", !.dir = NoBuild]
      /\ \A t \in Slot \ {s} : job'[t] = job[t]
  BY DEF RecoverMissing, IInv, RestInv
<1>5. /\ row[r] \in Row /\ Sound(row[r], spool[r]) /\ job[s] \in Job
      /\ row[r].status \in Unfinalized /\ row[r].pend = job[s].dir
      /\ row[r].owner = Owner(s) /\ row[r].live
  BY <1>1, <1>2, TaskKnows DEF Follows, Publishing, Clearing
<1>6. Sound(row'[r], spool'[r]) /\ ~row[r].final
  BY <1>3, <1>5 DEF Sound, Unfinalized, Row
<1>7. Lawful(r, row'[r], spool'[r])
  BY <1>3, <1>5, <1>6 DEF Lawful, Retained, Row
<1>8. job'[s].run = job[s].run /\ job'[s].pc = "start"
  BY <1>4, <1>5 DEF Job
<1>9. Follows(job'[s], Owner(s), row'[r], spool'[r])
  BY <1>3, <1>5, <1>8 DEF Follows, Row, Acquiring, Publishing, Serving, Clearing
<1> QED BY <1>1, <1>2, <1>3, <1>4, <1>6, <1>7, <1>8, <1>9, OwnStep

\* What makes a row ready: its owner still holds it, and the artifact is complete.
LEMMA MakesReady ==
    ASSUME IInv, IInv', CInv, NEW s \in Slot, job[s].pc \in {"adopt", "commit"},
           WritesRow(RunOf(s), [row[RunOf(s)] EXCEPT !.status = "DELIVERY_PENDING",
                                                     !.final = TRUE]),
           Goto(s, "sweep"), UNCHANGED <<spool, locked>>
    PROVE  Good
<1>1. ~At(s, "idle")
  BY DEF At
<1>2. PICK r \in Run : r = RunOf(s)
  BY <1>1, TaskKnows
<1>3. /\ row'[r] = [row[r] EXCEPT !.status = "DELIVERY_PENDING", !.final = TRUE]
      /\ \A q \in Run \ {r} : row'[q] = row[q]
  BY <1>2 DEF WritesRow, IInv, RowsInv
<1>4. /\ row[r] \in Row /\ Sound(row[r], spool[r])
      /\ row[r].status \in Unfinalized /\ row[r].pend = job[s].dir /\ job[s].dir \in Build
      /\ row[r].owner = Owner(s) /\ row[r].live
      /\ spool[r][job[s].dir] = "complete"
  BY <1>1, <1>2, TaskKnows DEF Follows, Publishing, Clearing
<1>5. /\ row'[r].status = "DELIVERY_PENDING" /\ row'[r].final /\ row'[r].pend = row[r].pend
      /\ row'[r].owner = row[r].owner /\ row'[r].live = row[r].live
  <2>1. /\ row[r] \in Row
        /\ row'[r] = [row[r] EXCEPT !.status = "DELIVERY_PENDING", !.final = TRUE]
    BY <1>3, <1>4
  <2> QED BY <2>1 DEF Row
<1>6. Retained(row'[r], spool'[r])
  BY <1>4, <1>5, RunRowsAssumption DEF Retained
<1>7. Sound(row'[r], spool'[r]) /\ Lawful(r, row'[r], spool'[r])
  BY <1>4, <1>5, <1>6 DEF Sound, Lawful, Unfinalized
<1>8. job'[s].run = job[s].run /\ job'[s].pc = "sweep" /\ job'[s].dir = job[s].dir
  BY <1>1, GotoMoves DEF PC
<1>9. Follows(job'[s], Owner(s), row'[r], spool'[r])
  BY <1>4, <1>5, <1>8 DEF Follows, Acquiring, Publishing, Serving, Clearing
<1> QED BY <1>1, <1>2, <1>3, <1>7, <1>8, <1>9, GotoMoves, OwnStep DEF PC

\* The row a task that is not clearing works on is active.
LEMMA TaskIsActive ==
    ASSUME IInv, CInv, NEW s \in Slot, ~At(s, "idle"), job[s].pc \notin Clearing
    PROVE  IsActive(RunOf(s)) /\ Mine(s) /\ row[RunOf(s)].live
BY TaskKnows DEF Follows, Mine, IInv, RowsInv, LeaseMeansActive

LEMMA AdoptGood ==
    ASSUME IInv, IInv', CInv, NEW s \in Slot, Adopt(s)
    PROVE  Good
<1>1. ~At(s, "idle") /\ job[s].pc = "adopt"
  BY DEF Adopt, At
<1>2. IsActive(RunOf(s))
  BY <1>1, TaskIsActive DEF Clearing
<1> QED BY <1>1, <1>2, MakesReady DEF Adopt

LEMMA CommitArtifactGood ==
    ASSUME IInv, IInv', CInv, NEW s \in Slot, CommitArtifact(s)
    PROVE  Good
BY MakesReady DEF CommitArtifact, At

\* A task that changes a column no other step relies on.
LEMMA ColumnGood ==
    ASSUME IInv, IInv', CInv, NEW s \in Slot,
           Start(s) \/ RecordWorkspace(s) \/ SweepWorkspace(s) \/ DeliverBegins(s)
    PROVE  Good
<1>1. ~At(s, "idle") /\ job[s].pc \in {"start", "record", "sweep", "select"}
  BY DEF Start, RecordWorkspace, SweepWorkspace, DeliverBegins, At
<1>2. PICK r \in Run : r = RunOf(s)
  BY <1>1, TaskKnows
<1>3. /\ row[r] \in Row /\ Sound(row[r], spool[r])
      /\ Follows(job[s], Owner(s), row[r], spool[r])
  BY <1>1, <1>2, TaskKnows
<1>4. /\ row'[r].owner = row[r].owner /\ row'[r].live = row[r].live
      /\ row'[r].pend = row[r].pend /\ row'[r].final = row[r].final
      /\ \/ job[s].pc = "start" /\ row'[r].status = "RUNNING"
         \/ job[s].pc # "start" /\ row'[r].status = row[r].status
      /\ \A q \in Run \ {r} : row'[q] = row[q]
      /\ spool' = spool /\ locked' = locked
  BY <1>2, <1>3
     DEF Start, RecordWorkspace, SweepWorkspace, DeliverBegins, WritesRow, At,
         IInv, RowsInv, Row
<1>5. row[r].status \in (IF job[s].pc \in {"start", "record"} THEN Unfinalized
                                                             ELSE {"DELIVERY_PENDING"})
  BY <1>1, <1>3 DEF Follows, Acquiring, Serving
<1>6. Sound(row'[r], spool'[r]) /\ Lawful(r, row'[r], spool'[r])
  BY <1>1, <1>3, <1>4, <1>5 DEF Sound, Lawful, Retained, Unfinalized
<1>7. /\ \A t \in Slot \ {s} : job'[t] = job[t]
      /\ job'[s].run = job[s].run /\ job'[s].dir = job[s].dir
      /\ \/ job[s].pc = "start" /\ job'[s].pc = "workspace"
         \/ job[s].pc = "record" /\ job'[s].pc = "building"
         \/ job[s].pc = "sweep" /\ job'[s].pc = "deliver"
         \/ job[s].pc = "select" /\ job'[s].pc = "sending"
  BY GotoMoves DEF Start, RecordWorkspace, SweepWorkspace, DeliverBegins, At, PC
<1>8. Follows(job'[s], Owner(s), row'[r], spool'[r]) /\ job'[s].pc # "idle"
  BY <1>3, <1>4, <1>7
     DEF Follows, Acquiring, Publishing, Serving, Clearing, Unfinalized
<1> QED BY <1>1, <1>2, <1>4, <1>6, <1>7, <1>8, OwnStep

LEMMA RecordIntendedGood ==
    ASSUME IInv, IInv', CInv, NEW s \in Slot, RecordIntended(s)
    PROVE  Good
<1>1. ~At(s, "idle") /\ job[s].pc = "finalize"
  BY DEF RecordIntended, At
<1>2. PICK r \in Run : r = RunOf(s)
  BY <1>1, TaskKnows
<1>3. PICK b \in Build :
        /\ WritesRow(r, [row[r] EXCEPT !.pend = b])
        /\ job' = [job EXCEPT ![s].pc = "publish", ![s].dir = b]
  BY <1>2 DEF RecordIntended
<1>4. /\ row[r] \in Row /\ Sound(row[r], spool[r]) /\ job[s] \in Job
      /\ row[r].status \in Unfinalized /\ row[r].pend = NoBuild
      /\ row[r].owner = Owner(s) /\ row[r].live
  BY <1>1, <1>2, TaskKnows DEF Follows, Acquiring, Clearing
<1>5. /\ row'[r] = [row[r] EXCEPT !.pend = b]
      /\ \A q \in Run \ {r} : row'[q] = row[q]
      /\ spool' = spool /\ locked' = locked
  BY <1>3 DEF RecordIntended, WritesRow, IInv, RowsInv
<1>6. /\ row'[r].status = row[r].status /\ row'[r].final = row[r].final
      /\ row'[r].owner = row[r].owner /\ row'[r].live = row[r].live /\ row'[r].pend = b
  <2>1. row[r] \in Row /\ row'[r] = [row[r] EXCEPT !.pend = b]
    BY <1>4, <1>5
  <2> QED BY <2>1 DEF Row
<1>7. \A c \in Build : spool[r][c] = "none"
  BY <1>4, RunRowsAssumption DEF Sound
<1>8. Sound(row'[r], spool'[r]) /\ Lawful(r, row'[r], spool'[r])
  BY <1>4, <1>5, <1>6, <1>7 DEF Sound, Lawful, Retained, Unfinalized
<1>9. /\ job'[s].run = job[s].run /\ job'[s].pc = "publish" /\ job'[s].dir = b
      /\ \A t \in Slot \ {s} : job'[t] = job[t]
  BY <1>3, <1>4 DEF IInv, RestInv, Job
<1>10. Follows(job'[s], Owner(s), row'[r], spool'[r])
  BY <1>4, <1>6, <1>9 DEF Follows, Acquiring, Publishing, Serving, Clearing
<1> QED BY <1>1, <1>2, <1>5, <1>8, <1>9, <1>10, OwnStep

\* A task whose row is not finalized may do with its directory what it likes, and go on
\* to "commit" once the directory is complete, to a handler, or nowhere.
LEMMA PublishingStep ==
    ASSUME IInv, IInv', CInv, NEW s \in Slot, job[s].pc = "publish",
           UNCHANGED <<row, locked>>, NEW content \in SpoolContent,
           spool' = [spool EXCEPT ![RunOf(s)][job[s].dir] = content],
           \A t \in Slot \ {s} : job'[t] = job[t],
           \/ job'[s] = Idle
           \/ /\ job'[s].run = job[s].run /\ job'[s].dir = job[s].dir
              /\ \/ job'[s].pc \in Handler \union {"publish"}
                 \/ job'[s].pc = "commit" /\ content = "complete"
    PROVE  Good
<1>1. ~At(s, "idle")
  BY DEF At
<1>2. PICK r \in Run : r = RunOf(s)
  BY <1>1, TaskKnows
<1>3. /\ row[r] \in Row /\ Sound(row[r], spool[r]) /\ spool[r] \in [Build -> SpoolContent]
      /\ row[r].status \in Unfinalized /\ row[r].pend = job[s].dir /\ job[s].dir \in Build
      /\ row[r].owner = Owner(s) /\ row[r].live
  BY <1>1, <1>2, TaskKnows DEF Follows, Publishing, Clearing
<1>4. /\ spool'[r] = [spool[r] EXCEPT ![job[s].dir] = content]
      /\ \A q \in Run \ {r} : spool'[q] = spool[q]
  BY <1>2 DEF IInv, RestInv
<1>5. Sound(row'[r], spool'[r])
  BY <1>3, <1>4 DEF Sound, Unfinalized
<1>6. Lawful(r, row'[r], spool'[r])
  BY <1>3 DEF Lawful, Retained, Sound
<1>7. \/ job'[s] = Idle
      \/ Follows(job'[s], Owner(s), row'[r], spool'[r]) /\ job'[s].pc # "idle"
  BY <1>3, <1>4 DEF Follows, Acquiring, Publishing, Serving, Clearing, Handler
<1> QED BY <1>1, <1>2, <1>4, <1>5, <1>6, <1>7, OwnStep

LEMMA PublishGood ==
    ASSUME IInv, IInv', CInv, NEW s \in Slot,
           MoveArtifact(s) \/ PublishManifest(s) \/ PublishFails(s)
    PROVE  Good
<1>1. ~At(s, "idle") /\ job[s].pc = "publish" /\ UNCHANGED <<row, locked>>
  BY DEF MoveArtifact, PublishManifest, PublishFails, At
<1>2. CASE MoveArtifact(s)
  BY <1>1, <1>2, PublishingStep DEF MoveArtifact, SpoolContent
<1>3. CASE PublishManifest(s)
  BY <1>1, <1>3, PublishingStep, GotoMoves DEF PublishManifest, SpoolContent, PC
<1>4. CASE PublishFails(s)
  BY <1>1, <1>4, PublishingStep, GotoMoves DEF PublishFails, SpoolContent, PC, Handler
<1> QED BY <1>2, <1>3, <1>4

-----------------------------------------------------------------------------
(* Serving                                                              *)

\* A task whose row is its own changes deliveries, or gives the lease back, or ends the
\* run; files, directory and metadata stay.
LEMMA CheckpointGood ==
    ASSUME IInv, IInv', CInv, NEW s \in Slot, NEW outcome \in DeliveryStatus,
           Checkpoint(s, outcome)
    PROVE  Good
<1>1. ~At(s, "idle") /\ job[s].pc = "sending"
  BY DEF Checkpoint, At
<1>2. PICK r \in Run : r = RunOf(s)
  BY <1>1, TaskKnows
<1>3. /\ row[r] \in Row /\ Sound(row[r], spool[r])
      /\ Follows(job[s], Owner(s), row[r], spool[r])
  BY <1>1, <1>2, TaskKnows
<1>4. PICK D : WritesRow(r, [row[r] EXCEPT !.dlv = D])
  BY <1>2 DEF Checkpoint
<1>5. /\ row'[r] = [row[r] EXCEPT !.dlv = D]
      /\ \A q \in Run \ {r} : row'[q] = row[q]
      /\ spool' = spool /\ locked' = locked /\ job' = job
  BY <1>4 DEF Checkpoint, IInv, RowsInv, WritesRow
<1>6. /\ row'[r].status = row[r].status /\ row'[r].final = row[r].final
      /\ row'[r].owner = row[r].owner /\ row'[r].live = row[r].live
      /\ row'[r].pend = row[r].pend /\ row[r].status = "DELIVERY_PENDING"
  BY <1>1, <1>3, <1>5 DEF Row, Follows, Serving
<1>7. Sound(row'[r], spool'[r]) /\ Lawful(r, row'[r], spool'[r])
  BY <1>3, <1>5, <1>6 DEF Sound, Lawful, Retained, Unfinalized
<1>8. Follows(job'[s], Owner(s), row'[r], spool'[r])
  BY <1>3, <1>5, <1>6 DEF Follows
<1> QED BY <1>1, <1>2, <1>5, <1>7, <1>8, OwnStep DEF At

\* A task ends with the lease given back; whether the run ends too, its files stay.
LEMMA ReleaseGood ==
    ASSUME IInv, IInv', CInv, NEW s \in Slot,
           \/ EndPending(s) \/ EndFailed(s) \/ FailDelivery(s) \/ FailCommit(s)
    PROVE  Good
<1>1. ~At(s, "idle") /\ job[s].pc \notin Clearing
  BY DEF EndPending, EndFailed, FailDelivery, FailCommit, At, Clearing
<1>2. PICK r \in Run : r = RunOf(s)
  BY <1>1, TaskKnows
<1>3. /\ row[r] \in Row /\ Sound(row[r], spool[r]) /\ row[r].status \in Active
  BY <1>1, <1>2, TaskKnows, TaskIsActive DEF IsActive
<1>4. /\ row'[r].pend = row[r].pend /\ row'[r].final = row[r].final
      /\ row'[r].status \in {row[r].status, "FAILED"}
      /\ \A q \in Run \ {r} : row'[q] = row[q]
      /\ spool' = spool /\ locked' = locked
  <2>1. CASE EndPending(s)
    BY <1>2, <1>3, <2>1 DEF EndPending, WritesRow, Released, IInv, RowsInv, Row
  <2>2. CASE EndFailed(s)
    BY <1>2, <1>3, <2>2 DEF EndFailed, WritesRow, Released, IInv, RowsInv, Row
  <2>3. CASE FailDelivery(s)
    BY <1>2, <1>3, <2>3 DEF FailDelivery, WritesRow, Released, IInv, RowsInv, Row
  <2>4. CASE FailCommit(s)
    BY <1>2, <1>3, <2>4 DEF FailCommit, WritesRow, Released, IInv, RowsInv, Row
  <2> QED BY <2>1, <2>2, <2>3, <2>4
<1>5. Sound(row'[r], spool'[r]) /\ Lawful(r, row'[r], spool'[r])
  BY <1>3, <1>4 DEF Sound, Lawful, Retained, Unfinalized, Active
<1>6. Finish(s)
  BY DEF EndPending, EndFailed, FailDelivery, FailCommit
<1> QED BY <1>1, <1>2, <1>4, <1>5, <1>6, FinishMoves, OwnStep

LEMMA EndSucceededGood ==
    ASSUME IInv, IInv', CInv, Stalling = {}, NEW s \in Slot, EndSucceeded(s)
    PROVE  Good
<1>1. ~At(s, "idle") /\ job[s].pc = "sending"
  BY DEF EndSucceeded, At
<1>2. PICK r \in Run : r = RunOf(s)
  BY <1>1, TaskKnows
<1>3. /\ row[r] \in Row /\ Sound(row[r], spool[r])
      /\ row[r].status = "DELIVERY_PENDING" /\ row[r].pend = job[s].dir
      /\ Retained(row[r], spool[r])
  BY <1>1, <1>2, TaskKnows DEF Follows, Serving, Sound
<1>4. row[r].dlv \intersect {"PENDING", "FAILED"} = {}
  BY <1>2 DEF EndSucceeded, Judged
<1>5. /\ row'[r].pend = row[r].pend /\ row'[r].final = row[r].final
      /\ row'[r].status = "SUCCEEDED" /\ row'[r].dlv = row[r].dlv
      /\ \A q \in Run \ {r} : row'[q] = row[q]
      /\ spool' = spool /\ locked' = locked
  BY <1>2, <1>3 DEF EndSucceeded, WritesRow, Released, IInv, RowsInv, Row
<1>6. Sound(row'[r], spool'[r]) /\ Lawful(r, row'[r], spool'[r])
  BY <1>3, <1>4, <1>5 DEF Sound, Lawful, Retained, Unfinalized
<1>7. /\ job'[s].run = job[s].run /\ job'[s].pc = "cleanup" /\ job'[s].dir = job[s].dir
      /\ \A t \in Slot \ {s} : job'[t] = job[t]
  BY <1>1, GotoMoves DEF EndSucceeded, PC
<1>8. Follows(job'[s], Owner(s), row'[r], spool'[r])
  BY <1>3, <1>5, <1>7
     DEF Follows, Acquiring, Publishing, Serving, Clearing, Retained, Row
<1> QED BY <1>1, <1>2, <1>5, <1>6, <1>7, <1>8, OwnStep

-----------------------------------------------------------------------------
(* Clearing and the heartbeat                                              *)

\* A task that clears an ended run removes the directory it knows, which is the one the
\* row names, and the row may forget it.
LEMMA ClearingStep ==
    ASSUME IInv, IInv', CInv, NEW s \in Slot, job[s].pc \in Clearing, Finish(s),
           UNCHANGED locked, NEW r \in Run, r = RunOf(s),
           \A q \in Run \ {r} : row'[q] = row[q] /\ spool'[q] = spool[q],
           \/ spool'[r] = spool[r]
           \/ job[s].dir \in Build /\ spool'[r] = [spool[r] EXCEPT ![job[s].dir] = "none"],
           row'[r].status = row[r].status, row'[r].final = row[r].final,
           row'[r].dlv = row[r].dlv,
           \/ row'[r].pend = row[r].pend
           \/ row'[r].pend = NoBuild /\ spool'[r] # spool[r]
           \/ row'[r].pend = NoBuild /\ job[s].dir \in Build /\ spool[r][job[s].dir] = "none"
    PROVE  Good
<1>1. ~At(s, "idle")
  BY DEF At, Clearing
<1>2. /\ row[r] \in Row /\ Sound(row[r], spool[r]) /\ spool[r] \in [Build -> SpoolContent]
      /\ row[r].status \in {"SUCCEEDED", "CANCELLED"}
      /\ row[r].pend \in {job[s].dir, NoBuild}
  BY <1>1, TaskKnows DEF Follows, Clearing
<1>3. Sound(row'[r], spool'[r])
  BY <1>2, RunRowsAssumption DEF Sound, Unfinalized, SpoolContent
<1>4. Retained(row'[r], spool'[r]) => Retained(row[r], spool[r])
  BY <1>2 DEF Retained
<1>5. Lawful(r, row'[r], spool'[r])
  BY <1>2, <1>4 DEF Lawful, IsTerminal, Terminal
<1> QED BY <1>1, <1>3, <1>5, FinishMoves, OwnStep

LEMMA CleanSpoolGood ==
    ASSUME IInv, IInv', CInv, NEW s \in Slot, CleanSpool(s)
    PROVE  Good
<1>1. ~At(s, "idle") /\ job[s].pc = "cleanup" /\ job[s].pc \in Clearing
  BY DEF CleanSpool, At, Clearing
<1>2. PICK r \in Run : r = RunOf(s)
  BY <1>1, TaskKnows
<1>3. /\ row[r] \in Row /\ spool[r] \in [Build -> SpoolContent] /\ job[s].dir \in Build
  BY <1>1, <1>2, TaskKnows DEF Follows
<1>4. CASE spool[r][job[s].dir] = "none"
  BY <1>1, <1>2, <1>4, ClearingStep DEF CleanSpool
<1>5. CASE spool[r][job[s].dir] # "none"
  <2>1. /\ row'[r] = [row[r] EXCEPT !.pend = NoBuild]
        /\ spool'[r] = [spool[r] EXCEPT ![job[s].dir] = "none"]
        /\ \A q \in Run \ {r} : row'[q] = row[q] /\ spool'[q] = spool[q]
    BY <1>2, <1>5 DEF CleanSpool, WritesRow, IInv, RowsInv, RestInv
  <2>2. /\ row'[r].status = row[r].status /\ row'[r].final = row[r].final
        /\ row'[r].dlv = row[r].dlv /\ row'[r].pend = NoBuild
    BY <1>3, <2>1 DEF Row
  <2>3. spool'[r] # spool[r]
    BY <1>3, <1>5, <2>1
  <2> QED BY <1>1, <1>2, <1>3, <2>1, <2>2, <2>3, ClearingStep DEF CleanSpool
<1> QED BY <1>4, <1>5

LEMMA ClearCancelledGood ==
    ASSUME IInv, IInv', CInv, NEW s \in Slot, ClearCancelled(s)
    PROVE  Good
<1>1. ~At(s, "idle") /\ job[s].pc = "cancelled" /\ job[s].pc \in Clearing
  BY DEF ClearCancelled, At, Clearing
<1>2. PICK r \in Run : r = RunOf(s)
  BY <1>1, TaskKnows
<1>3. /\ row[r] \in Row /\ spool[r] \in [Build -> SpoolContent] /\ job[s] \in Job
      /\ row[r].status = "CANCELLED"
  BY <1>1, <1>2, TaskKnows DEF Follows
<1>4. /\ row'[r] = [row[r] EXCEPT !.wsp = IF job[s].wsp THEN FALSE ELSE @,
                                  !.pend = IF @ = job[s].dir THEN NoBuild ELSE @]
      /\ \A q \in Run \ {r} : row'[q] = row[q]
  BY <1>2, <1>3 DEF ClearCancelled, WritesRow, IInv, RowsInv
<1>5. /\ row'[r].status = row[r].status /\ row'[r].final = row[r].final
      /\ row'[r].dlv = row[r].dlv
      /\ row'[r].pend = IF row[r].pend = job[s].dir THEN NoBuild ELSE row[r].pend
  BY <1>3, <1>4 DEF Row
<1>6. /\ spool'[r] = IF job[s].dir = NoBuild THEN spool[r]
                     ELSE [spool[r] EXCEPT ![job[s].dir] = "none"]
      /\ \A q \in Run \ {r} : spool'[q] = spool[q]
  BY <1>2 DEF ClearCancelled, IInv, RestInv
<1>7. job[s].dir \in Build \/ job[s].dir = NoBuild
  BY <1>3 DEF Job
<1>8. \/ row'[r].pend = row[r].pend
      \/ row'[r].pend = NoBuild /\ spool'[r] # spool[r]
      \/ row'[r].pend = NoBuild /\ job[s].dir \in Build /\ spool[r][job[s].dir] = "none"
  BY <1>3, <1>5, <1>6, <1>7
<1>9. \/ spool'[r] = spool[r]
      \/ job[s].dir \in Build /\ spool'[r] = [spool[r] EXCEPT ![job[s].dir] = "none"]
  BY <1>6, <1>7
<1>10. Finish(s) /\ UNCHANGED locked
  BY DEF ClearCancelled
<1>11. /\ \A q \in Run \ {r} : row'[q] = row[q] /\ spool'[q] = spool[q]
       /\ row'[r].status = row[r].status /\ row'[r].final = row[r].final
       /\ row'[r].dlv = row[r].dlv
  BY <1>4, <1>5, <1>6
<1> QED BY <1>1, <1>2, <1>8, <1>9, <1>10, <1>11, ClearingStep

LEMMA HandlerCancelsGood ==
    ASSUME IInv, IInv', CInv, NEW s \in Slot, HandlerCancels(s)
    PROVE  Good
<1>1. ~At(s, "idle") /\ job[s].pc \notin Clearing
  BY DEF HandlerCancels, At, Clearing
<1>2. PICK r \in Run : r = RunOf(s)
  BY <1>1, TaskKnows
<1>3. /\ row[r] \in Row /\ Sound(row[r], spool[r]) /\ row[r].status \in Active
      /\ job[s] \in Job
  BY <1>1, <1>2, TaskKnows, TaskIsActive DEF IsActive
<1>4. /\ row'[r].pend = row[r].pend /\ row'[r].final = row[r].final
      /\ row'[r].status = "CANCELLED"
      /\ \A q \in Run \ {r} : row'[q] = row[q]
      /\ spool' = spool /\ locked' = locked
  BY <1>2, <1>3 DEF HandlerCancels, WritesRow, Released, IInv, RowsInv, Row
<1>5. Sound(row'[r], spool'[r]) /\ Lawful(r, row'[r], spool'[r])
  BY <1>3, <1>4 DEF Sound, Lawful, Retained, Unfinalized, Active
<1>6. /\ \A t \in Slot \ {s} : job'[t] = job[t]
      /\ job'[s].run = job[s].run /\ job'[s].pc = "cancelled" /\ job'[s].dir = row[r].pend
  BY <1>2, <1>3 DEF HandlerCancels, IInv, RestInv, Job
<1>7. Follows(job'[s], Owner(s), row'[r], spool'[r])
  BY <1>4, <1>6 DEF Follows, Acquiring, Publishing, Serving, Clearing
<1> QED BY <1>1, <1>2, <1>4, <1>5, <1>6, <1>7, OwnStep

\* A running heartbeat belongs to a task.
LEMMA BeatHasTask ==
    ASSUME IInv, CInv, NEW s \in Slot, job[s].beat
    PROVE  ~At(s, "idle")
BY RunRowsAssumption DEF IInv, RestInv, JobsHaveRuns, CInv, IdleHasNoRun, At

\* A task whose run is its own is not clearing.
LEMMA MineIsNotClearing ==
    ASSUME IInv, CInv, NEW s \in Slot, ~At(s, "idle"), Mine(s)
    PROVE  job[s].pc \notin Clearing
BY TaskKnows DEF Mine, Follows, Clearing, IInv, RowsInv, LeaseMeansActive, IsActive, Active

\* What the publishing thread leaves, if there is one.
LEMMA ThreadLeaves ==
    ASSUME NEW s \in Slot, ThreadStops(s)
    PROVE  \/ UNCHANGED spool
           \/ job[s].pc = "publish" /\ \E content \in SpoolContent :
                spool' = [spool EXCEPT ![RunOf(s)][job[s].dir] = content]
BY DEF ThreadStops, At, SpoolContent

LEMMA HeartbeatCancelsGood ==
    ASSUME IInv, IInv', CInv, NEW s \in Slot, HeartbeatCancels(s)
    PROVE  Good
<1>1. ~At(s, "idle") /\ job[s].pc \notin Clearing /\ job[s] \in Job
  BY BeatHasTask, MineIsNotClearing, TaskKnows DEF HeartbeatCancels
<1>2. /\ \A t \in Slot \ {s} : job'[t] = job[t]
      /\ \/ job'[s] = Idle
         \/ /\ job'[s].run = job[s].run /\ job'[s].dir = job[s].dir
            /\ job'[s].pc = "cancelling"
  BY <1>1 DEF HeartbeatCancels, IInv, RestInv, Job
<1>3. CASE UNCHANGED spool
  <2>1. \/ job'[s] = Idle
        \/ Follows(job'[s], Owner(s), row[RunOf(s)], spool[RunOf(s)])
    BY <1>1, <1>2, TaskKnows
       DEF Follows, Clearing, Acquiring, Publishing, Serving
  <2> QED BY <1>1, <1>2, <1>3, <2>1, MoveStep DEF HeartbeatCancels
<1>4. CASE job[s].pc = "publish" /\ \E content \in SpoolContent :
             spool' = [spool EXCEPT ![RunOf(s)][job[s].dir] = content]
  BY <1>2, <1>4, PublishingStep DEF HeartbeatCancels, Handler
<1> QED BY <1>3, <1>4, ThreadLeaves DEF HeartbeatCancels

\* A heartbeat ends its task and whatever its publishing thread was work.
LEMMA ThreadStopsGood ==
    ASSUME IInv, IInv', CInv, NEW s \in Slot, ~At(s, "idle"), ThreadStops(s), Finish(s),
           UNCHANGED <<row, locked>>
    PROVE  Good
<1>1. CASE UNCHANGED spool
  BY <1>1, LeavesGood
<1>2. CASE job[s].pc = "publish" /\ \E content \in SpoolContent :
             spool' = [spool EXCEPT ![RunOf(s)][job[s].dir] = content]
  BY <1>2, PublishingStep, FinishMoves
<1> QED BY <1>1, <1>2, ThreadLeaves

LEMMA HeartbeatLostGood ==
    ASSUME IInv, IInv', CInv, NEW s \in Slot, HeartbeatLost(s)
    PROVE  Good
<1>1. ~At(s, "idle") /\ Finish(s) /\ UNCHANGED <<row, locked>>
  BY BeatHasTask DEF HeartbeatLost
<1>2. CASE ThreadStops(s)
  BY <1>1, <1>2, ThreadStopsGood
<1>3. CASE /\ job[s].pc \in {"cleanup", "cancelled"} /\ job[s].dir # NoBuild
           /\ spool' = [spool EXCEPT ![RunOf(s)][job[s].dir] = "none"]
  <2>1. PICK r \in Run : r = RunOf(s)
    BY <1>1, TaskKnows
  <2>2. job[s].dir \in Build
    BY <1>1, <1>3, TaskKnows DEF Job
  <2>3. /\ spool'[r] = [spool[r] EXCEPT ![job[s].dir] = "none"]
        /\ \A q \in Run \ {r} : spool'[q] = spool[q]
    BY <1>3, <2>1 DEF IInv, RestInv
  <2> QED BY <1>1, <1>3, <2>1, <2>2, <2>3, ClearingStep DEF Clearing
<1> QED BY <1>2, <1>3 DEF HeartbeatLost

LEMMA HeartbeatFailsGood ==
    ASSUME IInv, IInv', CInv, NEW s \in Slot, HeartbeatFails(s)
    PROVE  Good
BY BeatHasTask, ThreadStopsGood DEF HeartbeatFails

\* A heartbeat that beats never finds its lease run out.
LEMMA HeartbeatRenewsGood ==
    ASSUME IInv, CInv, NEW s \in Slot
    PROVE  ~HeartbeatRenews(s)
<1> SUFFICES ASSUME HeartbeatRenews(s) PROVE FALSE
  OBVIOUS
<1>1. ~At(s, "idle") /\ Mine(s) /\ ~row[RunOf(s)].live
  BY BeatHasTask DEF HeartbeatRenews, RenewRow, Mine
<1> QED BY <1>1, MineIsNotClearing, TaskIsActive

-----------------------------------------------------------------------------
(* The operators' actions                                                  *)

\* A step on a row nobody works on, and which no retry holds.
LEMMA FreeRowStep ==
    ASSUME IInv, IInv', CInv, NEW r \in Run, UNCHANGED <<job, locked>>, locked # r,
           LeaseFree(r), row[r].status \notin {"SUCCEEDED", "CANCELLED"},
           \A q \in Run \ {r} : row'[q] = row[q] /\ spool'[q] = spool[q],
           Lawful(r, row'[r], spool'[r]), Sound(row'[r], spool'[r])
    PROVE  Good
<1>1. LockedIsRetained'
  BY DEF CInv, LockedIsRetained, IInv, RestInv
<1>2. \A s \in Slot : ~At(s, "idle") => RunOf(s) # r
  BY FreeRunHasNoTask
<1> QED BY <1>1, <1>2, TableStep

\* A row that is not failed is not held by a retry.
LEMMA OnlyFailedIsLocked ==
    ASSUME CInv, NEW r \in Run, row[r].status # "FAILED"
    PROVE  locked # r
BY RunRowsAssumption DEF CInv, LockedIsRetained

LEMMA NewRowGood ==
    ASSUME IInv, IInv', CInv, NEW r \in Run, Enqueue(r) \/ EnqueueSkipped(r), UNCHANGED job
    PROVE  Good
<1>1. /\ row[r].status = "ABSENT" /\ UNCHANGED <<spool, locked>>
      /\ locked # r
  BY OnlyFailedIsLocked DEF Enqueue, EnqueueSkipped
<1>2. LeaseFree(r)
  BY <1>1, EndedIsFree DEF IsActive, Active
<1>3. /\ row'[r].status \in {"QUEUED", "SKIPPED"} /\ row'[r].pend = NoBuild /\ ~row'[r].final
      /\ row'[r].status = "QUEUED" <=> IndexAllows(r)
      /\ \A q \in Run \ {r} : row'[q] = row[q]
  BY DEF Enqueue, EnqueueSkipped, WritesRow, NewRow, IInv, RowsInv, IndexAllows,
         ActiveForProfile, IsActive, Active
<1>4. Sound(row[r], spool[r])
  BY DEF CInv, RowsAreSound
<1>5. Sound(row'[r], spool'[r]) /\ Lawful(r, row'[r], spool'[r])
  BY <1>1, <1>3, <1>4 DEF Sound, Lawful, Retained, Unfinalized
<1> QED BY <1>1, <1>2, <1>3, <1>5, FreeRowStep

\* The request leaves a task that works on the run as it is: no task relies on
\* cancel_requested, and a row that ends here has no task.
LEMMA RequestCancelGood ==
    ASSUME IInv, IInv', CInv, NEW r \in Run, RequestCancel(r), UNCHANGED job
    PROVE  Good
<1>1. /\ row[r] \in Row /\ Sound(row[r], spool[r]) /\ row[r].status \in Active
      /\ row'[r] = [row[r] EXCEPT !.cancel = TRUE,
                                  !.status = IF @ = "QUEUED" /\ row[r].owner = NoProc
                                               THEN "CANCELLED" ELSE @]
      /\ \A q \in Run \ {r} : row'[q] = row[q]
      /\ UNCHANGED <<spool, locked>>
  BY DEF RequestCancel, WritesRow, IInv, RowsInv, CInv, RowsAreSound, IsActive
<1>2. /\ row'[r].pend = row[r].pend /\ row'[r].final = row[r].final
      /\ row'[r].owner = row[r].owner /\ row'[r].live = row[r].live
      /\ \/ row'[r].status = row[r].status
         \/ row[r].status = "QUEUED" /\ row[r].owner = NoProc /\ row'[r].status = "CANCELLED"
  BY <1>1 DEF Row
<1>3. locked # r
  BY <1>1, OnlyFailedIsLocked DEF Active
<1>4. Sound(row'[r], spool'[r]) /\ Lawful(r, row'[r], spool'[r])
  BY <1>1, <1>2 DEF Sound, Lawful, Retained, Unfinalized, Active
<1>5. CASE row'[r].status = row[r].status
  <2>1. ASSUME NEW s \in Slot, ~At(s, "idle"), RunOf(s) = r
        PROVE  Follows(job[s], Owner(s), row'[r], spool'[r])
    BY <1>1, <1>2, <1>5, <2>1, TaskKnows DEF Follows
  <2>2. LockedIsRetained'
    BY <1>1, <1>3 DEF CInv, LockedIsRetained, IInv, RestInv
  <2> QED BY <1>1, <1>4, <2>1, <2>2, TableStep
<1>6. CASE row[r].status = "QUEUED" /\ row[r].owner = NoProc
  BY <1>1, <1>3, <1>4, <1>6, FreeRowStep DEF LeaseFree
<1> QED BY <1>2, <1>5, <1>6

LEMMA RetryChecksGood ==
    ASSUME IInv, IInv', CInv, NEW r \in Run, RetryChecks(r), UNCHANGED job
    PROVE  Good
<1>1. LockedIsRetained'
  BY KeptIsRetained DEF RetryChecks, LockedIsRetained
<1>2. RowsAreSound' /\ TasksFollow' /\ IdleHasNoRun' /\ SingleExecutor'
  BY DEF RetryChecks, CInv, RowsAreSound, TasksFollow, IdleHasNoRun, SingleExecutor,
         Owner, RunOf
<1> QED BY <1>1, <1>2, SameIsPromised DEF Good, CInv, RetryChecks

LEMMA RetryCommitsGood ==
    ASSUME IInv, IInv', CInv, RetryCommits, UNCHANGED job
    PROVE  Good
<1>1. LockedIsRetained'
  BY DEF RetryCommits, LockedIsRetained
<1>2. PICK r \in Run : r = locked
  BY DEF RetryCommits, IInv, RestInv
<1>3. /\ row[r].status = "FAILED" /\ row[r].owner = NoProc
      /\ Retained(row[r], spool[r]) /\ Sound(row[r], spool[r]) /\ row[r] \in Row
  BY <1>2, RunRowsAssumption
     DEF CInv, LockedIsRetained, RowsAreSound, IInv, RowsInv
<1>4. CASE row' = row
  <2>1. RowsAreSound' /\ TasksFollow' /\ IdleHasNoRun' /\ SingleExecutor'
    BY <1>4 DEF RetryCommits, CInv, RowsAreSound, TasksFollow, IdleHasNoRun, SingleExecutor,
                Owner, RunOf
  <2> QED BY <1>1, <1>4, <2>1, SameIsPromised DEF Good, CInv, RetryCommits
<1>5. CASE IndexAllows(r) /\ WritesRow(r, RetriedRow(r))
  <2>1. /\ row'[r].status = "DELIVERY_PENDING" /\ row'[r].final = row[r].final
        /\ row'[r].pend = row[r].pend
        /\ \A q \in Run \ {r} : row'[q] = row[q]
        /\ spool' = spool
    BY <1>3, <1>5 DEF RetryCommits, WritesRow, RetriedRow, Row, IInv, RowsInv
  <2>2. Retained(row'[r], spool'[r])
    BY <1>3, <2>1 DEF Retained
  <2>3. Sound(row'[r], spool'[r]) /\ Lawful(r, row'[r], spool'[r])
    BY <1>2, <1>3, <1>5, <2>1, <2>2 DEF Sound, Lawful, Unfinalized
  <2>4. \A s \in Slot : ~At(s, "idle") => RunOf(s) # r
    BY <1>3, FreeRunHasNoTask DEF LeaseFree
  <2> QED BY <1>1, <2>1, <2>3, <2>4, TableStep
<1> QED BY <1>2, <1>4, <1>5 DEF RetryCommits

\* Purge and retention: a failed run's directory goes, and its row forgets it.
LEMMA DiscardGood ==
    ASSUME IInv, IInv', CInv, NEW r \in Run, UNCHANGED <<job, locked>>, locked # r,
           row[r].status = "FAILED", row[r].pend # NoBuild,
           spool' = [spool EXCEPT ![r][row[r].pend] = "none"],
           WritesRow(r, [row[r] EXCEPT !.pend = NoBuild])
    PROVE  Good
<1>1. /\ row[r] \in Row /\ spool[r] \in [Build -> SpoolContent] /\ Sound(row[r], spool[r])
  BY DEF IInv, RowsInv, RestInv, CInv, RowsAreSound
<1>2. /\ row'[r] = [row[r] EXCEPT !.pend = NoBuild]
      /\ spool'[r] = [spool[r] EXCEPT ![row[r].pend] = "none"]
      /\ \A q \in Run \ {r} : row'[q] = row[q] /\ spool'[q] = spool[q]
  BY DEF WritesRow, IInv, RowsInv, RestInv
<1>3. row'[r].pend = NoBuild /\ row'[r].status = "FAILED"
  BY <1>1, <1>2 DEF Row
<1>4. Sound(row'[r], spool'[r])
  BY <1>1, <1>2, <1>3 DEF Sound, Unfinalized, Row
<1>5. Lawful(r, row'[r], spool'[r])
  BY <1>3 DEF Lawful, Retained, IsTerminal, Terminal
<1>6. LeaseFree(r)
  BY EndedIsFree DEF IsActive, Active
<1> QED BY <1>2, <1>4, <1>5, <1>6, FreeRowStep

LEMMA BotGood ==
    ASSUME IInv, IInv', CInv, Bot
    PROVE  Good
<1>1. UNCHANGED job
  BY DEF Bot, Unattended
<1>2. CASE \E r \in Run : Enqueue(r) \/ EnqueueSkipped(r)
  BY <1>1, <1>2, NewRowGood
<1>3. CASE \E r \in Run : RequestCancel(r)
  BY <1>1, <1>3, RequestCancelGood
<1>4. CASE \E r \in Run : RetryChecks(r)
  BY <1>1, <1>4, RetryChecksGood
<1>5. CASE \E r \in Run : Purge(r)
  BY <1>1, <1>5, DiscardGood DEF Purge, RetainedArtifactVerifies
<1> QED BY <1>2, <1>3, <1>4, <1>5 DEF Bot, RetryRecreates

-----------------------------------------------------------------------------
(* Leases, claims and processes                                            *)

\* Only a lease nobody renews runs out, so no task loses its row.
LEMMA LeaseExpiresGood ==
    ASSUME IInv, IInv', CInv, Stalling = {}, NEW r \in Run, LeaseExpires(r)
    PROVE  Good
<1>1. /\ row[r] \in Row /\ Sound(row[r], spool[r]) /\ row[r].owner # NoProc
      /\ row'[r] = [row[r] EXCEPT !.live = FALSE]
      /\ \A q \in Run \ {r} : row'[q] = row[q]
      /\ UNCHANGED <<spool, locked, job>>
  BY DEF LeaseExpires, WritesRow, IInv, RowsInv, CInv, RowsAreSound
<1>2. row[r].status \in Active
  BY <1>1 DEF IInv, RowsInv, LeaseMeansActive, IsActive
<1>3. ASSUME NEW s \in Slot, ~At(s, "idle"), RunOf(s) = r PROVE FALSE
  BY <1>2, <1>3, TaskKnows DEF LeaseExpires, Working, Follows, Clearing, Active
<1>4. Sound(row'[r], spool'[r]) /\ Lawful(r, row'[r], spool'[r])
  BY <1>1 DEF Sound, Lawful, Retained, Row
<1>5. LockedIsRetained'
  BY <1>1, <1>2, OnlyFailedIsLocked DEF CInv, LockedIsRetained, IInv, RestInv, Active
<1> QED BY <1>1, <1>3, <1>4, <1>5, TableStep

LEMMA RetentionCleanupGood ==
    ASSUME IInv, IInv', CInv, NEW p \in Proc, NEW r \in Run, RetentionCleanup(p, r)
    PROVE  Good
BY DiscardGood DEF RetentionCleanup

\* A claim takes a row nobody works on, for a slot that works on nothing.
LEMMA ClaimGood ==
    ASSUME IInv, IInv', CInv, NEW s \in Slot, NEW r \in Run, Claim(s, r) \/ ClaimCancel(s, r)
    PROVE  Good
<1>1. /\ row[r].status \in Active /\ LeaseFree(r) /\ TakesSlot(s, r)
      /\ WritesRow(r, Leased(r, Owner(s))) /\ UNCHANGED <<spool, locked>>
  BY DEF Claim, ClaimCancel, ClaimRow, ClaimCancelRow, IsActive
<1>2. /\ row[r] \in Row /\ Sound(row[r], spool[r]) /\ locked # r
  BY <1>1, OnlyFailedIsLocked DEF IInv, RowsInv, CInv, RowsAreSound, Active
<1>3. /\ row'[r] = [row[r] EXCEPT !.owner = Owner(s), !.live = TRUE]
      /\ \A q \in Run \ {r} : row'[q] = row[q]
  BY <1>1 DEF WritesRow, Leased, IInv, RowsInv
<1>4. /\ row'[r].status = row[r].status /\ row'[r].pend = row[r].pend
      /\ row'[r].final = row[r].final /\ row'[r].dlv = row[r].dlv
      /\ row'[r].owner = Owner(s) /\ row'[r].live
  BY <1>2, <1>3 DEF Row
<1>5. Sound(row'[r], spool'[r]) /\ Lawful(r, row'[r], spool'[r])
  BY <1>1, <1>2, <1>4 DEF Sound, Lawful, Retained
<1>6. /\ job[s].pc = "idle" /\ job'[s].run = r /\ job'[s].pc = "load"
      /\ \A t \in Slot \ {s} : job'[t] = job[t]
  BY <1>1 DEF TakesSlot, At, Idle, IInv, RestInv
<1>7. \A t \in Slot : job[t].pc # "idle" => job[t].run # r /\ job[t].run \in Run
  BY <1>1, FreeRunHasNoTask DEF Active, At, RunOf, IInv, RestInv, JobsHaveRuns
<1>8. RowsAreSound' /\ LockedIsRetained'
  BY <1>1, <1>2, <1>3, <1>5 DEF CInv, RowsAreSound, LockedIsRetained, IInv, RestInv
<1>9. TasksFollow'
  <2> SUFFICES ASSUME NEW t \in Slot, job'[t].pc # "idle"
               PROVE  Follows(job'[t], Owner(t), row'[job'[t].run], spool'[job'[t].run])
    BY DEF TasksFollow, Owner
  <2>1. CASE t = s
    BY <1>4, <1>6, <2>1 DEF Follows, Acquiring, Publishing, Serving, Clearing
  <2>2. CASE t # s
    BY <1>1, <1>3, <1>6, <1>7, <2>2 DEF CInv, TasksFollow
  <2> QED BY <2>1, <2>2
<1>10. IdleHasNoRun'
  BY <1>6 DEF CInv, IdleHasNoRun
<1>11. SingleExecutor'
  BY <1>6, <1>7, RunRowsAssumption DEF CInv, SingleExecutor, IdleHasNoRun, RunOf
<1>12. Promised /\ NoReopening
  BY <1>1, <1>3, <1>5, LawfulIsPromised, LawfulIsFinal
<1> QED BY <1>8, <1>9, <1>10, <1>11, <1>12 DEF Good, CInv

\* A crash takes the tasks of one process and nothing else.
LEMMA CrashGood ==
    ASSUME IInv, IInv', CInv, NEW p \in Proc, Crash(p)
    PROVE  Good
<1>1. /\ UNCHANGED <<row, spool, locked>>
      /\ \A s \in Slot : job'[s] = job[s] \/ job'[s] = Idle
  BY DEF Crash
<1>2. TasksFollow'
  BY <1>1 DEF CInv, TasksFollow, Idle, Owner
<1>3. IdleHasNoRun' /\ SingleExecutor'
  BY <1>1 DEF CInv, IdleHasNoRun, SingleExecutor, Idle, RunOf
<1>4. RowsAreSound' /\ LockedIsRetained'
  BY <1>1 DEF CInv, RowsAreSound, LockedIsRetained
<1> QED BY <1>1, <1>2, <1>3, <1>4, SameIsPromised DEF Good, CInv

\* What the recovery of a starting process does to one run: an ended run's directory may
\* go, unless the run failed, and its row may forget the directory that is gone.
Recovered(r) ==
    /\ row'[r].status = row[r].status /\ row'[r].owner = row[r].owner
    /\ row'[r].live = row[r].live /\ row'[r].final = row[r].final /\ row'[r].dlv = row[r].dlv
    /\ \/ spool'[r] = spool[r]
       \/ /\ DropsSpool(r)
          /\ \A b \in Build : spool'[r][b] = IF b = row[r].pend THEN "none" ELSE spool[r][b]
    /\ \/ row'[r].pend = row[r].pend
       \/ /\ DropsSpool(r) /\ row'[r].pend = NoBuild
          /\ \A b \in Build : spool'[r][b] = IF b = row[r].pend THEN "none" ELSE spool[r][b]

LEMMA RecoveryGood ==
    ASSUME IInv, IInv', CInv, UNCHANGED <<locked, job>>, \A r \in Run : Recovered(r)
    PROVE  Good
<1>1. RowsAreSound'
  <2> SUFFICES ASSUME NEW r \in Run PROVE Sound(row'[r], spool'[r])
    BY DEF RowsAreSound
  <2>1. Sound(row[r], spool[r]) /\ Recovered(r)
    BY DEF CInv, RowsAreSound
  <2> QED BY <2>1 DEF Sound, Recovered, DropsSpool, Retained, Unfinalized
<1>2. LockedIsRetained'
  BY DEF CInv, LockedIsRetained, Recovered, DropsSpool, Retained, IInv, RestInv
<1>3. TasksFollow'
  <2> SUFFICES ASSUME NEW s \in Slot, job[s].pc # "idle"
               PROVE  Follows(job[s], Owner(s), row'[job[s].run], spool'[job[s].run])
    BY DEF TasksFollow, Owner
  <2>1. PICK r \in Run : r = job[s].run
    BY DEF IInv, RestInv, JobsHaveRuns
  <2>2. Follows(job[s], Owner(s), row[r], spool[r]) /\ Recovered(r)
    BY <2>1 DEF CInv, TasksFollow
  <2>3. CASE DropsSpool(r)
    BY <2>1, <2>2, <2>3, TaskIsActive
       DEF Follows, Recovered, DropsSpool, Unfinalized, Serving, Publishing, Acquiring,
           Clearing, At, RunOf, IsActive, Active
  <2>4. CASE ~DropsSpool(r)
    BY <2>1, <2>2, <2>4 DEF Follows, Recovered
  <2> QED BY <2>3, <2>4
<1>4. IdleHasNoRun' /\ SingleExecutor'
  BY DEF CInv, IdleHasNoRun, SingleExecutor, RunOf
<1>5. Promised
  <2> DEFINE st   == [q \in Run |-> Stage[row[q].status]]
             kept == [q \in Run |-> RetainedArtifactVerifies(q)]
  <2>1. UNCHANGED st
    BY DEF Recovered
  <2>2. kept' \in [Run -> BOOLEAN]
    BY DEF RetainedArtifactVerifies, IInv, RowsInv, Row
  <2>3. ASSUME NEW q \in Run, kept'[q] # kept[q]
        PROVE  kept[q] /\ st[q] \in {"delivered", "failed", "cancelled", "skipped"}
    <3>1. Recovered(q) /\ row[q].status \in Status
      BY DEF IInv, RowsInv, Row
    <3>2. kept[q] = Retained(row[q], spool[q]) /\ kept'[q] = Retained(row'[q], spool'[q])
      BY KeptIsRetained, KeptIsRetainedNext
    <3>3. DropsSpool(q)
      BY <2>3, <3>1, <3>2 DEF Recovered, Retained
    <3>4. st[q] \in {"delivered", "failed", "cancelled", "skipped"}
      BY <3>3 DEF DropsSpool, Stage
    <3>5. Retained(row[q], spool[q])
      BY <2>3, <3>1, <3>2, <3>3 DEF Recovered, Retained, DropsSpool, IInv, RowsInv, Row
    <3> QED BY <3>2, <3>4, <3>5
  <2>4. Contract!Discard
    BY <2>1, <2>2, <2>3 DEF Contract!Discard, Contract!Ended
  <2> QED BY <2>4 DEF Promised, Contract!Next
<1>6. NoReopening
  BY DEF NoReopening, Recovered
<1> QED BY <1>1, <1>2, <1>3, <1>4, <1>5, <1>6 DEF Good, CInv

LEMMA StartGood ==
    ASSUME IInv, IInv', CInv, NEW p \in Proc, StartProc(p) \/ StartInterrupted(p)
    PROVE  Good
<1>1. ASSUME NEW r \in Run, StartProc(p) PROVE Recovered(r)
  <2>1. row[r] \in Row
    BY DEF IInv, RowsInv
  <2>2. row'[r] = IF ~Recovers(r) THEN row[r]
                  ELSE [row[r] EXCEPT !.wsp = FALSE,
                                      !.pend = IF DropsSpool(r) THEN NoBuild ELSE @]
    BY <1>1 DEF StartProc
  <2>3. \A b \in Build : spool'[r][b] = IF Recovers(r) /\ DropsSpool(r) /\ b = row[r].pend
                                         THEN "none" ELSE spool[r][b]
    BY <1>1 DEF StartProc, DropRecordedSpool
  <2>4. DropsSpool(r) => Recovers(r)
    BY DEF DropsSpool, Recovers, IsTerminal, Terminal
  <2>5. spool[r] \in [Build -> SpoolContent] /\ spool'[r] \in [Build -> SpoolContent]
    BY DEF IInv, RestInv
  <2>6. ~DropsSpool(r) => spool'[r] = spool[r]
    BY <2>3, <2>5
  <2> QED BY <2>1, <2>2, <2>3, <2>4, <2>6 DEF Recovered, Row
<1>2. ASSUME NEW r \in Run, StartInterrupted(p) PROVE Recovered(r)
  <2>1. row'[r] = row[r]
    BY <1>2 DEF StartInterrupted
  <2>2. PICK R \in SUBSET {q \in Run : Recovers(q)} : DropRecordedSpool(R)
    BY <1>2 DEF StartInterrupted
  <2>3. \A b \in Build : spool'[r][b] = IF r \in R /\ DropsSpool(r) /\ b = row[r].pend
                                         THEN "none" ELSE spool[r][b]
    BY <2>2 DEF DropRecordedSpool
  <2>4. spool[r] \in [Build -> SpoolContent] /\ spool'[r] \in [Build -> SpoolContent]
    BY DEF IInv, RestInv
  <2>5. ~(r \in R /\ DropsSpool(r)) => spool'[r] = spool[r]
    BY <2>3, <2>4
  <2> QED BY <2>1, <2>3, <2>5 DEF Recovered
<1>3. UNCHANGED <<locked, job>>
  BY DEF StartProc, StartInterrupted
<1> QED BY <1>1, <1>2, <1>3, RecoveryGood

-----------------------------------------------------------------------------
(* The theorems                                                            *)

LEMMA TaskStepGood ==
    ASSUME IInv, IInv', CInv, Stalling = {}, NEW s \in Slot,
           Proceeds(s) \/ Delivers(s) \/ Breaks(s) \/ Beats(s)
    PROVE  Good
<1>1. CASE Builds(s)
  BY <1>1, LoadGood, RecoverMissingGood, QuietGood, AdoptGood, ColumnGood,
     RecordIntendedGood, PublishGood, CommitArtifactGood, RaisingGood, CleanSpoolGood
     DEF Builds
<1>2. CASE Handles(s)
  BY <1>2, HandlerCancelsGood, GivingUpGood, ClearCancelledGood, RaisingGood, ReleaseGood
     DEF Handles
<1>3. CASE Stops(s) \/ DeliverBegins(s) \/ Ends(s)
  BY <1>3, RaisingGood, ColumnGood, ReleaseGood, EndSucceededGood DEF Stops, Ends
<1>4. CASE Delivers(s)
  BY <1>4, CheckpointGood DEF Delivers, DeliveryStatus
<1>5. CASE Breaks(s)
  BY <1>5, RaisingGood, PublishGood, HeartbeatFailsGood DEF Breaks
<1>6. CASE Beats(s)
  BY <1>6, HeartbeatCancelsGood, HeartbeatLostGood, HeartbeatRenewsGood DEF Beats
<1> QED BY <1>1, <1>2, <1>3, <1>4, <1>5, <1>6 DEF Proceeds

LEMMA StepGood ==
    ASSUME Stalling = {}, IInv, CInv, [Next]_vars
    PROVE  Good
<1>1. IInv'
  BY StepKeeps
<1>2. CASE Bot
  BY <1>1, <1>2, BotGood
<1>3. CASE \E p \in Proc : StartProc(p) \/ StartInterrupted(p) \/ Crash(p)
  BY <1>1, <1>3, StartGood, CrashGood
<1>4. CASE \E r \in Run : LeaseExpires(r)
  BY <1>1, <1>4, LeaseExpiresGood
<1>5. CASE \E p \in Proc, r \in Run : RetentionCleanup(p, r)
  BY <1>1, <1>5, RetentionCleanupGood
<1>6. CASE \E s \in Slot, r \in Run : Claim(s, r) \/ ClaimCancel(s, r)
  BY <1>1, <1>6, ClaimGood
<1>7. CASE \E s \in Slot : Proceeds(s) \/ Delivers(s) \/ Breaks(s) \/ Beats(s)
  BY <1>1, <1>7, TaskStepGood
<1>8. CASE RetryCommits /\ Unattended
  BY <1>1, <1>8, RetryCommitsGood DEF Unattended
<1>9. CASE UNCHANGED vars
  <2>1. CInv'
    BY <1>9 DEF vars, CInv, RowsAreSound, LockedIsRetained, TasksFollow, IdleHasNoRun,
                SingleExecutor, Owner, RunOf
  <2> QED BY <1>9, <2>1, SameIsPromised DEF vars, Good
<1> QED BY <1>2, <1>3, <1>4, <1>5, <1>6, <1>7, <1>8, <1>9 DEF Next, World

LEMMA InitConsistent == Init => CInv
<1> SUFFICES ASSUME Init PROVE CInv
  OBVIOUS
<1>1. /\ \A r \in Run : /\ row[r].status = "ABSENT" /\ row[r].pend = NoBuild
                        /\ ~row[r].final
                        /\ \A b \in Build : spool[r][b] = "none"
      /\ locked = NoRun
      /\ \A s \in Slot : job[s] = Idle
  BY DEF Init, RowsInit, NewRow
<1> QED
  BY <1>1 DEF CInv, RowsAreSound, Sound, Unfinalized, LockedIsRetained, TasksFollow,
              IdleHasNoRun, SingleExecutor, RunOf, Idle

\* Rows, files and tasks fit each other in every reachable state.
THEOREM Consistency ==
    ASSUME Stalling = {}
    PROVE  Spec => []CInv
<1>1. IInv /\ CInv /\ [Next]_vars => CInv'
  BY StepGood DEF Good
<1> QED BY <1>1, InitConsistent, Invariant, PTL DEF Spec

\* No two tasks, of one process or of several, ever work on the same run.
THEOREM OneTask ==
    ASSUME Stalling = {}
    PROVE  Spec => []SingleExecutor
<1>1. CInv => SingleExecutor
  BY DEF CInv
<1> QED BY <1>1, Consistency, PTL

\* Row, spool and deliveries agree about what the run has come to.
THEOREM Consistent ==
    ASSUME Stalling = {}
    PROVE  Spec => []RunConsistent
<1>1. IInv /\ CInv => RunConsistent
  BY KeptIsRetained
     DEF CInv, RowsAreSound, Sound, RunConsistent, SpoolRecorded, DeliveryHasArtifact,
         SuccessIsSettled
<1> QED BY <1>1, Consistency, Invariant, PTL

\* No late handler, recovery or adoption reopens or overwrites a run that has ended.
THEOREM EndedStaysEnded ==
    ASSUME Stalling = {}
    PROVE  Spec => TerminalIsFinal
<1>1. IInv /\ CInv /\ [Next]_vars =>
        [\A r \in Run :
           /\ IsTerminal(r)
           /\ row'[r].status # row[r].status
           => row[r].status = "FAILED" /\ locked = r]_vars
  BY StepGood DEF Good, NoReopening
<1> QED BY <1>1, Consistency, Invariant, PTL DEF Spec, TerminalIsFinal

\* Workers, leases, crashes, recovery and the operators' actions implement RunContract.
THEOREM Implements ==
    ASSUME Stalling = {}
    PROVE  Spec => RefinesContract
<1>1. Init => Contract!Init
  <2> SUFFICES ASSUME Init PROVE Contract!Init
    OBVIOUS
  <2>1. \A r \in Run : row[r].status = "ABSENT" /\ row[r].pend = NoBuild
    BY DEF Init, RowsInit, NewRow
  <2> QED BY <2>1 DEF Contract!Init, Stage, RetainedArtifactVerifies
<1>2. IInv /\ CInv /\ [Next]_vars => [Contract!Next]_(Contract!vars)
  BY StepGood DEF Good, Promised
<1> QED BY <1>1, <1>2, Consistency, Invariant, PTL DEF Spec, RefinesContract, Contract!Spec

-----------------------------------------------------------------------------
(* Delivery.                                                               *)


\* The set of statuses in the run's row summarizes the recipients' rows; a retry whose
\* failed recipients another worker has overwritten adds PENDING for nobody.
Summarizes(rec, rows) ==
    /\ Statuses(rows) \subseteq rec.dlv
    /\ rec.dlv \subseteq Statuses(rows) \union {"PENDING"}
    /\ rec.dlv # {} => Statuses(rows) # {}
    /\ rec.status = "ABSENT" => rec.dlv = {}

\* A recipient's row tells no more than Telegram accepted.
Truthful(rec, parts) ==
    /\ rec.status = "ABSENT" => rec = Unselected
    /\ 1..(rec.next - 1) \subseteq parts
    /\ rec.status = "SUCCEEDED" => parts = Part

InHand == {"part", "upload", "acked"}

\* What a task that delivers knows, whoever else writes the rows.
Knows(t, rows, parts) ==
    /\ \A a \in t.todo : rows[a].status # "ABSENT"
    /\ \A a \in Admin : 1..(t.rows[a].next - 1) \subseteq parts[a]
    /\ t.at \notin {"none", "next"} =>
         t.todo # {} /\ t.rows[First(t.todo)].status = "PENDING"
    /\ t.at \in {"check", "part"} => t.rows[First(t.todo)].tries < MaxAttempts
    /\ t.at \in InHand => t.part >= 1 /\ 1..(t.part - 1) \subseteq parts[First(t.todo)]
    /\ t.at \in {"upload", "acked"} => t.part <= Parts
    /\ t.at = "acked" => t.part \in parts[First(t.todo)]

DetailTypeOK ==
    /\ rcp \in [Run -> [Admin -> Recipient]]
    /\ task \in [Slot -> Task]
    /\ entitled \in SUBSET Admin
    /\ got \in [Run -> [Admin -> SUBSET Part]]
    /\ sent \in [Run -> [Admin -> [Part -> Nat]]]

RowsSummarize == \A r \in Run : Summarizes(row[r], rcp[r])
RowsTruthful  == \A r \in Run, a \in Admin : Truthful(rcp[r][a], got[r][a])
TasksHaveRows ==
    \A s \in Slot : job[s].pc # "idle" \/ job[s].beat => row[job[s].run].status # "ABSENT"
SendersKnow   ==
    \A s \in Slot : job[s].pc = "sending" => Knows(task[s], rcp[job[s].run], got[job[s].run])

\* The run that a retry holds keeps its recipients.
HeldHasRows == locked # NoRun => row[locked].dlv # {}

Wellformed ==
    /\ DetailTypeOK /\ RowsSummarize /\ RowsTruthful
    /\ TasksHaveRows /\ SendersKnow /\ HeldHasRows

\* How often the parts of a recipient went out since the operator's last retry.
Budgeted(rec, parts, uploads) ==
    /\ parts \subseteq 1..rec.next
    /\ \A k \in Part : /\ uploads[k] <= MaxAttempts
                       /\ k > rec.next => uploads[k] = 0
                       /\ k = rec.next => uploads[k] <= rec.tries

\* The session's copies are the rows, and the part in hand is the next one.
Agrees(t, rows) ==
    /\ t.rows = rows
    /\ t.at \in InHand => t.part = rows[First(t.todo)].next

Exact ==
    /\ \A r \in Run : row[r].dlv = Statuses(rcp[r])
    /\ \A r \in Run, a \in Admin : Budgeted(rcp[r][a], got[r][a], sent[r][a])
    /\ \A s \in Slot : job[s].pc = "sending" => Agrees(task[s], rcp[job[s].run])
    /\ locked # NoRun => "FAILED" \in row[locked].dlv

DInv == IInv /\ Wellformed
EInv == CInv /\ Exact

-----------------------------------------------------------------------------
(* Operators                                                               *)

\* The first of the recipients to be visited is one of them.
LEMMA FirstIsMember ==
    ASSUME NEW S \in SUBSET Admin, S # {}
    PROVE  First(S) \in S
<1>1. S \subseteq Nat
  BY DeliveryAssumption
<1>2. PICK x \in S : \A y \in S : ~(<<y, x>> \in OpToRel(<, Nat))
  BY <1>1, NatLessThanWellFounded, WFMin
<1>3. \A y \in S : ~(y < x)
  BY <1>1, <1>2 DEF OpToRel
<1>4. \A y \in S : x <= y
  BY <1>1, <1>3
<1> QED BY <1>4 DEF First

LEMMA StatusIsSeen ==
    ASSUME NEW rows, NEW x
    PROVE  x \in Statuses(rows) <=> x # "ABSENT" /\ \E a \in Admin : rows[a].status = x
BY DEF Statuses

\* Rows that differ in one recipient's outcome.
LEMMA StatusesAfter ==
    ASSUME NEW rows, NEW new, NEW a \in Admin,
           \A b \in Admin \ {a} : new[b].status = rows[b].status,
           rows[a].status # "ABSENT", new[a].status # "ABSENT"
    PROVE  /\ Statuses(new) \subseteq Statuses(rows) \union {new[a].status}
           /\ Statuses(rows) \subseteq Statuses(new) \union {rows[a].status}
           /\ new[a].status \in Statuses(new) /\ rows[a].status \in Statuses(rows)
BY DEF Statuses

LEMMA SameStatuses ==
    ASSUME NEW rows, NEW new, \A b \in Admin : new[b].status = rows[b].status
    PROVE  Statuses(new) = Statuses(rows)
BY DEF Statuses

LEMMA StatusesAreStatuses ==
    ASSUME NEW rows \in [Admin -> Recipient]
    PROVE  Statuses(rows) \subseteq DeliveryStatus
BY DEF Statuses, Recipient

-----------------------------------------------------------------------------
(* What the steps of RunLifecycle leave alone                              *)

\* A row keeps the summary of its deliveries, or appears with none.
RowKept(r) ==
    \/ row'[r].dlv = row[r].dlv /\ (row'[r].status = "ABSENT" => row[r].status = "ABSENT")
    \/ row[r].status = "ABSENT" /\ row'[r].status # "ABSENT" /\ row'[r].dlv = {}

\* A task keeps its run and does not begin to deliver, or takes a run that is there.
TaskKept(s) ==
    \/ job'[s].pc = "idle" /\ ~job'[s].beat
    \/ /\ job[s].pc # "idle" \/ job[s].beat
       /\ job'[s].run = job[s].run
       /\ job'[s].pc = "sending" => job[s].pc = "sending"
    \/ job'[s].pc = "load" /\ job'[s].run \in Run /\ row'[job'[s].run].status # "ABSENT"

\* The run that a retry holds has a failed recipient.
HoldKept ==
    locked' \in {locked, NoRun} \/ (locked' \in Run /\ "FAILED" \in row'[locked'].dlv)

Detached ==
    (\A r \in Run : RowKept(r)) /\ (\A s \in Slot : TaskKept(s)) /\ HoldKept

LEMMA OneRowKept ==
    ASSUME IInv, NEW r \in Run, NEW rec, WritesRow(r, rec), rec.dlv = row[r].dlv,
           rec.status = "ABSENT" => row[r].status = "ABSENT"
    PROVE  \A q \in Run : RowKept(q)
BY DEF IInv, RowsInv, WritesRow, RowKept

LEMMA OneTaskKept ==
    ASSUME IInv, NEW s \in Slot,
           \/ Finish(s)
           \/ ~At(s, "idle") /\ \E pc \in PC \ {"sending"} : Goto(s, pc)
    PROVE  \A t \in Slot : TaskKept(t)
BY DEF IInv, RestInv, Job, Finish, Goto, TaskKept, At, Idle

LEMMA MovedTaskKept ==
    ASSUME IInv, NEW s \in Slot, ~At(s, "idle") \/ job[s].beat,
           NEW rec \in Job, rec.run = job[s].run, rec.pc # "sending",
           job' = [job EXCEPT ![s] = rec]
    PROVE  \A t \in Slot : TaskKept(t)
BY DEF IInv, RestInv, TaskKept, At

LEMMA SameRowsKept == UNCHANGED row => \A r \in Run : RowKept(r)
BY DEF RowKept

LEMMA SameTasksKept == IInv /\ UNCHANGED job => \A s \in Slot : TaskKept(s)
BY DEF IInv, RestInv, Job, TaskKept

LEMMA BotDetached ==
    ASSUME IInv, Bot
    PROVE  Detached
<1>1. \A s \in Slot : TaskKept(s)
  BY SameTasksKept DEF Bot, Unattended
<1>2. \A r \in Run : RowKept(r)
  <2>1. CASE \E r \in Run : Enqueue(r) \/ EnqueueSkipped(r)
    BY <2>1, NewRowIsRow
       DEF Enqueue, EnqueueSkipped, WritesRow, NewRow, RowKept, IInv, RowsInv
  <2>2. CASE \E r \in Run : RequestCancel(r)
    <3> PICK r \in Run : RequestCancel(r)
      BY <2>2
    <3> DEFINE rec == [row[r] EXCEPT
                         !.cancel = TRUE,
                         !.status = IF @ = "QUEUED" /\ row[r].owner = NoProc
                                      THEN "CANCELLED" ELSE @]
    <3>1. rec.dlv = row[r].dlv /\ (rec.status = "ABSENT" => row[r].status = "ABSENT")
      BY DEF IInv, RowsInv, Row
    <3>2. WritesRow(r, rec)
      BY DEF RequestCancel
    <3> QED BY <3>1, <3>2, OneRowKept
  <2>3. CASE \E r \in Run : RetryChecks(r)
    BY <2>3, SameRowsKept DEF RetryChecks
  <2>4. CASE \E r \in Run : Purge(r)
    <3> PICK r \in Run : Purge(r)
      BY <2>4
    <3>1. row[r] \in Row /\ WritesRow(r, [row[r] EXCEPT !.pend = NoBuild])
      BY DEF IInv, RowsInv, Purge
    <3> QED BY <3>1, OneRowKept DEF Row
  <2> QED BY <2>1, <2>2, <2>3, <2>4 DEF Bot, RetryRecreates
<1>3. HoldKept
  BY DEF Bot, Enqueue, EnqueueSkipped, RequestCancel, RetryChecks, Purge, RetryRecreates,
         HoldKept
<1> QED BY <1>1, <1>2, <1>3 DEF Detached

LEMMA ClaimDetached ==
    ASSUME IInv, NEW s \in Slot, NEW r \in Run, Claim(s, r) \/ ClaimCancel(s, r)
    PROVE  Detached
<1>1. /\ WritesRow(r, Leased(r, Owner(s))) /\ IsActive(r)
      /\ locked' = locked /\ TakesSlot(s, r)
  BY DEF Claim, ClaimCancel, ClaimRow, ClaimCancelRow
<1>2. row[r] \in Row
  BY DEF IInv, RowsInv
<1>3. \A q \in Run : RowKept(q)
  BY <1>1, <1>2, OneRowKept DEF Leased, Row
<1>4. job'[s].pc = "load" /\ job'[s].run = r /\ row'[r].status # "ABSENT"
  BY <1>1, <1>2
     DEF TakesSlot, Idle, IInv, RowsInv, RestInv, WritesRow, Leased, IsActive, Active, Row
<1>5. \A t \in Slot : TaskKept(t)
  BY <1>1, <1>4 DEF TakesSlot, TaskKept
<1> QED BY <1>1, <1>3, <1>5 DEF Detached, HoldKept

LEMMA WorldDetached ==
    ASSUME IInv, World
    PROVE  Detached
<1>1. CASE \E p \in Proc : StartProc(p) \/ StartInterrupted(p)
  <2>1. \A r \in Run : RowKept(r)
    <3> SUFFICES ASSUME NEW r \in Run PROVE RowKept(r)
      OBVIOUS
    <3>1. row[r] \in Row
      BY DEF IInv, RowsInv
    <3>2. CASE row'[r] = row[r]
      BY <3>2 DEF RowKept
    <3>3. CASE \E b \in Build \union {NoBuild} :
                 row'[r] = [row[r] EXCEPT !.wsp = FALSE, !.pend = b]
      BY <3>1, <3>3 DEF RowKept, Row
    <3>4. CASE \E p \in Proc : StartProc(p)
      BY <3>1, <3>2, <3>3, <3>4 DEF StartProc, Row
    <3>5. CASE \E p \in Proc : StartInterrupted(p)
      BY <3>1, <3>2, <3>3, <3>5 DEF StartInterrupted, Row
    <3> QED BY <1>1, <3>4, <3>5
  <2> QED BY <1>1, <2>1, SameTasksKept DEF StartProc, StartInterrupted, Detached, HoldKept
<1>2. CASE \E p \in Proc : Crash(p)
  BY <1>2, SameRowsKept DEF Crash, Detached, TaskKept, HoldKept, Idle
<1>3. CASE \E r \in Run : LeaseExpires(r)
  <2> PICK r \in Run : LeaseExpires(r)
    BY <1>3
  <2>1. row[r] \in Row /\ WritesRow(r, [row[r] EXCEPT !.live = FALSE])
    BY DEF IInv, RowsInv, LeaseExpires
  <2> QED BY <2>1, OneRowKept, SameTasksKept DEF LeaseExpires, Detached, HoldKept, Row
<1>4. CASE \E p \in Proc, r \in Run : RetentionCleanup(p, r)
  <2> PICK p \in Proc, r \in Run : RetentionCleanup(p, r)
    BY <1>4
  <2>1. row[r] \in Row /\ WritesRow(r, [row[r] EXCEPT !.pend = NoBuild])
    BY DEF IInv, RowsInv, RetentionCleanup
  <2> QED BY <2>1, OneRowKept, SameTasksKept DEF RetentionCleanup, Detached, HoldKept, Row
<1> QED BY <1>1, <1>2, <1>3, <1>4, BotDetached, ClaimDetached DEF World

\* A step that changes one task and, in its row, neither the deliveries nor whether the
\* row is there.
LEMMA OneDetached ==
    ASSUME IInv, NEW s \in Slot, ~At(s, "idle"), UNCHANGED locked,
           NEW rec \in Row, rec.dlv = row[RunOf(s)].dlv,
           rec.status = "ABSENT" => row[RunOf(s)].status = "ABSENT",
           UNCHANGED row \/ WritesRow(RunOf(s), rec),
           \A t \in Slot : TaskKept(t)
    PROVE  Detached
<1>1. RunOf(s) \in Run
  BY TaskFacts
<1>2. \A r \in Run : RowKept(r)
  BY <1>1, OneRowKept, SameRowsKept
<1> QED BY <1>2 DEF Detached, HoldKept

\* A step inside one task.
LEMMA InnerDetached ==
    ASSUME IInv, NEW s \in Slot, UNCHANGED <<row, locked>>,
           \/ UNCHANGED job
           \/ Finish(s)
           \/ ~At(s, "idle") /\ \E pc \in PC \ {"sending"} : Goto(s, pc)
    PROVE  Detached
BY SameRowsKept, SameTasksKept, OneTaskKept DEF Detached, HoldKept

LEMMA BuildsDetached ==
    ASSUME IInv, NEW s \in Slot, Builds(s)
    PROVE  Detached
<1>1. ~At(s, "idle")
  BY DEF Builds, Load, RecoverMissing, RecoverFound, Adopt, Start, MakeWorkspace,
         RecordWorkspace, Transform, RecordIntended, MoveArtifact, PublishManifest,
         CommitArtifact, SweepWorkspace, DeliverEnters, DeliverRejects, CleanSpool, At
<1>2. row[RunOf(s)] \in Row /\ job[s] \in Job /\ job \in [Slot -> Job]
  BY <1>1, TaskFacts DEF IInv, RestInv
<1>3. UNCHANGED locked
  BY DEF Builds, Load, RecoverMissing, RecoverFound, Adopt, Start, MakeWorkspace,
         RecordWorkspace, Transform, RecordIntended, MoveArtifact, PublishManifest,
         CommitArtifact, SweepWorkspace, DeliverEnters, DeliverRejects, CleanSpool, OnlyJob
<1>4. CASE \/ RecoverFound(s) \/ MakeWorkspace(s) \/ Transform(s) \/ MoveArtifact(s)
           \/ PublishManifest(s) \/ DeliverEnters(s) \/ DeliverRejects(s)
  BY <1>1, <1>3, <1>4, InnerDetached
     DEF RecoverFound, MakeWorkspace, Transform, MoveArtifact, PublishManifest,
         DeliverEnters, DeliverRejects, OnlyJob, PC
<1>5. CASE Load(s)
  <2>1. PICK next \in {"cancelling", "deliver", "recover", "start"} :
          job' = [job EXCEPT ![s].pc = next, ![s].dir = row[RunOf(s)].pend]
    BY <1>5 DEF Load
  <2> DEFINE new == [job[s] EXCEPT !.pc = next, !.dir = row[RunOf(s)].pend]
  <2>2. new \in Job /\ new.run = job[s].run /\ new.pc # "sending"
    BY <1>2 DEF Job, PC, Row
  <2>3. job' = [job EXCEPT ![s] = new]
    BY <1>2, <2>1
  <2>4. \A t \in Slot : TaskKept(t)
    BY <1>1, <2>2, <2>3, MovedTaskKept
  <2> QED BY <1>3, <1>5, <2>4, SameRowsKept DEF Load, OnlyJob, Detached, HoldKept
<1>6. CASE RecoverMissing(s) \/ RecordIntended(s)
  <2>1. PICK b \in Build \union {NoBuild} : WritesRow(RunOf(s), [row[RunOf(s)] EXCEPT !.pend = b])
    BY <1>6 DEF RecoverMissing, RecordIntended
  <2>2. \A t \in Slot : TaskKept(t)
    <3>1. PICK pc \in {"start", "publish"}, d \in Build \union {NoBuild} :
            job' = [job EXCEPT ![s].pc = pc, ![s].dir = d]
      BY <1>6 DEF RecoverMissing, RecordIntended
    <3> DEFINE new == [job[s] EXCEPT !.pc = pc, !.dir = d]
    <3>2. new \in Job /\ new.run = job[s].run /\ new.pc # "sending"
      BY <1>2 DEF Job, PC
    <3>3. job' = [job EXCEPT ![s] = new]
      BY <1>2, <3>1
    <3> QED BY <1>1, <3>2, <3>3, MovedTaskKept
  <2> QED BY <1>1, <1>2, <1>3, <2>1, <2>2, OneDetached DEF Row
<1>7. CASE Adopt(s) \/ CommitArtifact(s)
  <2> DEFINE rec == [row[RunOf(s)] EXCEPT !.status = "DELIVERY_PENDING", !.final = TRUE]
  <2>1. rec \in Row /\ rec.dlv = row[RunOf(s)].dlv /\ rec.status # "ABSENT"
    BY <1>2 DEF Row, Status, Active
  <2> QED BY <1>1, <1>3, <1>7, <2>1, OneDetached, OneTaskKept
          DEF Adopt, CommitArtifact, PC
<1>8. CASE Start(s) \/ RecordWorkspace(s) \/ SweepWorkspace(s)
  <2>1. PICK rec \in {[row[RunOf(s)] EXCEPT !.status = "RUNNING"],
                      [row[RunOf(s)] EXCEPT !.wsp = TRUE], [row[RunOf(s)] EXCEPT !.wsp = FALSE]} :
          WritesRow(RunOf(s), rec)
    BY <1>8 DEF Start, RecordWorkspace, SweepWorkspace
  <2>2. /\ rec \in Row /\ rec.dlv = row[RunOf(s)].dlv
        /\ rec.status = "ABSENT" => row[RunOf(s)].status = "ABSENT"
    BY <1>2 DEF Row, Status, Active
  <2>3. \A t \in Slot : TaskKept(t)
    BY <1>1, <1>8, OneTaskKept DEF Start, RecordWorkspace, SweepWorkspace, PC
  <2> QED BY <1>1, <1>3, <2>1, <2>2, <2>3, OneDetached
<1>9. CASE CleanSpool(s)
  BY <1>1, <1>2, <1>3, <1>9, OneDetached, OneTaskKept DEF CleanSpool, Row
<1> QED BY <1>4, <1>5, <1>6, <1>7, <1>8, <1>9 DEF Builds

LEMMA HandlesDetached ==
    ASSUME IInv, NEW s \in Slot, Handles(s)
    PROVE  Detached
<1>1. ~At(s, "idle")
  BY DEF Handles, HandlerCancels, CancelUnmatched, ClearCancelled, NotCancelled, FailIgnored,
         FailDelivery, FailBuild, FailCommit, At
<1>2. row[RunOf(s)] \in Row /\ job[s] \in Job /\ job \in [Slot -> Job]
  BY <1>1, TaskFacts DEF IInv, RestInv
<1>3. UNCHANGED locked
  BY DEF Handles, HandlerCancels, CancelUnmatched, ClearCancelled, NotCancelled, FailIgnored,
         FailDelivery, FailBuild, FailCommit, OnlyJob
<1>4. CASE CancelUnmatched(s) \/ NotCancelled(s) \/ FailIgnored(s) \/ FailBuild(s)
  BY <1>1, <1>3, <1>4, InnerDetached
     DEF CancelUnmatched, NotCancelled, FailIgnored, FailBuild, OnlyJob, PC
<1>5. CASE HandlerCancels(s)
  <2> DEFINE rec == [Released(row[RunOf(s)]) EXCEPT !.status = "CANCELLED"]
  <2>1. rec \in Row /\ rec.dlv = row[RunOf(s)].dlv /\ rec.status # "ABSENT"
    BY <1>2 DEF Row, Released, Status, Terminal
  <2>2. \A t \in Slot : TaskKept(t)
    BY <1>1, <1>2, <1>5 DEF HandlerCancels, TaskKept, At
  <2> QED BY <1>1, <1>3, <1>5, <2>1, <2>2, OneDetached DEF HandlerCancels
<1>6. CASE ClearCancelled(s)
  <2> DEFINE rec == [row[RunOf(s)] EXCEPT
                       !.wsp = IF job[s].wsp THEN FALSE ELSE @,
                       !.pend = IF @ = job[s].dir THEN NoBuild ELSE @]
  <2>1. rec \in Row /\ rec.dlv = row[RunOf(s)].dlv /\ rec.status = row[RunOf(s)].status
    BY <1>2 DEF Row
  <2>2. WritesRow(RunOf(s), rec) \/ UNCHANGED row
    BY <1>6 DEF ClearCancelled
  <2>3. \A t \in Slot : TaskKept(t)
    BY <1>6, OneTaskKept DEF ClearCancelled
  <2> QED BY <1>1, <1>3, <2>1, <2>2, <2>3, OneDetached
<1>7. CASE FailDelivery(s)
  <2> DEFINE status == IF At(s, "reject") THEN "FAILED" ELSE row[RunOf(s)].status
             rec == [Released(row[RunOf(s)]) EXCEPT !.status = status]
  <2>1. status \in Status /\ (status = "ABSENT" => row[RunOf(s)].status = "ABSENT")
    BY <1>2, StatusFacts DEF Row
  <2>2. rec \in Row /\ rec.dlv = row[RunOf(s)].dlv /\ rec.status = status
    BY <1>2, <2>1 DEF Released, Row
  <2>3. WritesRow(RunOf(s), rec)
    BY <1>2, <1>7 DEF FailDelivery, Released, Row
  <2>4. \A t \in Slot : TaskKept(t)
    BY <1>7, OneTaskKept DEF FailDelivery
  <2> QED BY <1>1, <1>3, <2>1, <2>2, <2>3, <2>4, OneDetached
<1>8. CASE FailCommit(s)
  <2> DEFINE rec == [Released(row[RunOf(s)]) EXCEPT !.status = "FAILED", !.wsp = FALSE]
  <2>1. rec \in Row /\ rec.dlv = row[RunOf(s)].dlv /\ rec.status # "ABSENT"
    BY <1>2 DEF Row, Released, Status, Terminal
  <2> QED BY <1>1, <1>3, <1>8, <2>1, OneDetached, OneTaskKept DEF FailCommit
<1> QED BY <1>4, <1>5, <1>6, <1>7, <1>8 DEF Handles

LEMMA EndsDetached ==
    ASSUME IInv, NEW s \in Slot, Ends(s) \/ Stops(s) \/ Raise(s)
    PROVE  Detached
<1>1. ~At(s, "idle")
  BY DEF Ends, EndPending, EndFailed, EndSucceeded, Stops, BoundaryLost, BoundaryCancel,
         Boundary, Raise, At
<1>2. row[RunOf(s)] \in Row
  BY <1>1, TaskFacts
<1>3. CASE Stops(s) \/ Raise(s)
  BY <1>1, <1>3, InnerDetached DEF Stops, BoundaryLost, BoundaryCancel, Raise, OnlyJob, PC
<1>4. CASE Ends(s)
  <2>1. PICK status \in {row[RunOf(s)].status, "FAILED", "SUCCEEDED"} :
          WritesRow(RunOf(s), [Released(row[RunOf(s)]) EXCEPT !.status = status])
    BY <1>2, <1>4 DEF Ends, EndPending, EndFailed, EndSucceeded, Released, Row
  <2> DEFINE rec == [Released(row[RunOf(s)]) EXCEPT !.status = status]
  <2>2. status \in Status /\ (status = "ABSENT" => row[RunOf(s)].status = "ABSENT")
    BY <1>2 DEF Row, Status, Terminal
  <2>3. rec \in Row /\ rec.dlv = row[RunOf(s)].dlv /\ rec.status = status
    BY <1>2, <2>2 DEF Released, Row
  <2>4. \A t \in Slot : TaskKept(t)
    BY <1>1, <1>4, OneTaskKept DEF Ends, EndPending, EndFailed, EndSucceeded, PC
  <2>5. UNCHANGED locked
    BY <1>4 DEF Ends, EndPending, EndFailed, EndSucceeded
  <2> QED BY <1>1, <2>1, <2>2, <2>3, <2>4, <2>5, OneDetached
<1> QED BY <1>3, <1>4

LEMMA BeatsDetached ==
    ASSUME IInv, NEW s \in Slot, Beats(s) \/ PublishFails(s) \/ HeartbeatFails(s)
    PROVE  Detached
<1>1. CASE PublishFails(s)
  BY <1>1, InnerDetached DEF PublishFails, At, PC
<1>2. CASE HeartbeatFails(s) \/ HeartbeatLost(s)
  BY <1>2, InnerDetached DEF HeartbeatFails, HeartbeatLost
<1>3. CASE HeartbeatCancels(s)
  <2>1. \A t \in Slot : TaskKept(t)
    <3>1. job[s] \in Job /\ job \in [Slot -> Job]
      BY DEF IInv, RestInv
    <3>2. CASE Finish(s)
      BY <3>2, OneTaskKept
    <3>3. CASE ~Finish(s)
      <4> DEFINE new == [job[s] EXCEPT !.pc = "cancelling", !.beat = FALSE]
      <4>1. new \in Job /\ new.run = job[s].run /\ new.pc # "sending"
        BY <3>1 DEF Job, PC
      <4>2. job' = [job EXCEPT ![s] = new]
        BY <1>3, <3>1, <3>3 DEF HeartbeatCancels, Finish
      <4> QED BY <1>3, <4>1, <4>2, MovedTaskKept DEF HeartbeatCancels
    <3> QED BY <3>2, <3>3
  <2> QED BY <1>3, <2>1, SameRowsKept DEF HeartbeatCancels, Detached, HoldKept
<1>4. CASE HeartbeatRenews(s)
  <2>1. RunOf(s) \in Run /\ row[RunOf(s)] \in Row
    BY <1>4 DEF HeartbeatRenews, IInv, RowsInv, RestInv, JobsHaveRuns, RunOf
  <2>2. \A r \in Run : RowKept(r)
    BY <1>4, <2>1, OneRowKept DEF HeartbeatRenews, RenewRow, Row
  <2> QED BY <1>4, <2>2, SameTasksKept DEF HeartbeatRenews, RenewRow, Detached, HoldKept
<1> QED BY <1>1, <1>2, <1>3, <1>4 DEF Beats

-----------------------------------------------------------------------------
(* The forms of a step                                                     *)

DState == DInv /\ (Stalling = {} => EInv)

\* What is shown of a step; RunLifecycle's invariants follow from the first part.
Kept  == Wellformed' /\ (Stalling = {} => Exact')
DGood == [Next]_vars /\ Kept

\* The recipients' rows of a run that is not there yet.
LEMMA NoRecipients ==
    ASSUME Wellformed, NEW r \in Run, row[r].status = "ABSENT"
    PROVE  Statuses(rcp[r]) = {}
BY DEF Wellformed, RowsSummarize, Summarizes

LEMMA NoTaskIsTask == NoTask \in Task
<1>1. Unselected \in Recipient /\ 0 \in 0..(Parts + 1)
  BY DeliveryAssumption DEF Unselected, Recipient, DeliveryStatus
<1> QED BY <1>1 DEF NoTask, Task, Phase

LEMMA DetachedKeeps ==
    ASSUME DState, Detached, Forget, UNCHANGED <<rcp, entitled, got, sent>>
    PROVE  Kept
<1>1. DetailTypeOK'
  BY NoTaskIsTask DEF DState, DInv, Wellformed, DetailTypeOK, Forget
<1>2. RowsSummarize'
  <2> SUFFICES ASSUME NEW r \in Run PROVE Summarizes(row'[r], rcp[r])
    BY DEF RowsSummarize, Statuses, Summarizes
  <2>1. Summarizes(row[r], rcp[r]) /\ RowKept(r)
    BY DEF DState, DInv, Wellformed, RowsSummarize, Detached
  <2> QED BY <2>1 DEF Summarizes, RowKept
<1>3. RowsTruthful'
  BY DEF DState, DInv, Wellformed, RowsTruthful
<1>4. TasksHaveRows'
  <2> SUFFICES ASSUME NEW s \in Slot, job'[s].pc # "idle" \/ job'[s].beat
               PROVE  row'[job'[s].run].status # "ABSENT"
    BY DEF TasksHaveRows
  <2>1. TaskKept(s)
    BY DEF Detached
  <2>2. CASE (job[s].pc # "idle" \/ job[s].beat) /\ job'[s].run = job[s].run
    <3>1. job[s].run \in Run /\ row[job[s].run].status # "ABSENT"
      BY <2>2 DEF DState, DInv, IInv, RestInv, JobsHaveRuns, Wellformed, TasksHaveRows
    <3> QED BY <2>2, <3>1 DEF Detached, RowKept
  <2> QED BY <2>1, <2>2 DEF TaskKept
<1>5. \A s \in Slot : job'[s].pc = "sending" =>
        job[s].pc = "sending" /\ job'[s].run = job[s].run /\ task'[s] = task[s]
  BY DEF Detached, TaskKept, Forget
<1>6. SendersKnow'
  BY <1>5 DEF DState, DInv, Wellformed, SendersKnow
<1>7. ASSUME Stalling = {} PROVE Exact'
  <2>1. EInv
    BY <1>7 DEF DState
  <2>2. ASSUME NEW r \in Run PROVE row'[r].dlv = Statuses(rcp[r])
    BY <2>1, NoRecipients DEF EInv, Exact, Detached, RowKept, DState, DInv
  <2>3. ASSUME locked' # NoRun PROVE "FAILED" \in row'[locked'].dlv
    <3>1. CASE locked' = locked
      <4>1. locked \in Run /\ row[locked].status = "FAILED" /\ "FAILED" \in row[locked].dlv
        BY <2>1, <2>3, <3>1 DEF EInv, CInv, LockedIsRetained, Exact, DState, DInv, IInv, RestInv
      <4> QED BY <3>1, <4>1 DEF Detached, RowKept
    <3> QED BY <2>3, <3>1 DEF Detached, HoldKept
  <2>4. \A s \in Slot : job'[s].pc = "sending" => Agrees(task'[s], rcp[job'[s].run])
    BY <1>5, <2>1 DEF EInv, Exact
  <2>5. \A r \in Run, a \in Admin : Budgeted(rcp[r][a], got[r][a], sent[r][a])
    BY <2>1 DEF EInv, Exact
  <2> QED BY <2>2, <2>3, <2>4, <2>5 DEF Exact
<1>8. HeldHasRows'
  <2> SUFFICES ASSUME locked' # NoRun PROVE row'[locked'].dlv # {}
    BY DEF HeldHasRows
  <2>1. CASE locked' = locked
    <3>1. /\ locked \in Run /\ row[locked].dlv # {} /\ RowKept(locked)
          /\ Summarizes(row[locked], rcp[locked])
      BY <2>1 DEF DState, DInv, IInv, RestInv, Wellformed, HeldHasRows, Detached, RowsSummarize
    <3> QED BY <2>1, <3>1 DEF RowKept, Summarizes
  <2> QED BY <2>1 DEF Detached, HoldKept
<1> QED BY <1>1, <1>2, <1>3, <1>4, <1>6, <1>7, <1>8 DEF Wellformed, Kept

\* A step of RunLifecycle that the details only accompany.
LEMMA KeepGood ==
    ASSUME DState, [Next]_vars, Detached, Forget, UNCHANGED <<rcp, entitled, got, sent>>
    PROVE  DGood
BY DetachedKeeps DEF DGood

\* A step that touches at most one recipient of one run.
Touches(r, a) ==
    \A q \in Run, b \in Admin : ~(q = r /\ b = a) =>
        rcp'[q][b] = rcp[q][b] /\ got'[q][b] = got[q][b] /\ sent'[q][b] = sent[q][b]

\* What a task that delivers works with.
LEMMA SenderFacts ==
    ASSUME DState, NEW s \in Slot, At(s, "sending")
    PROVE  /\ RunOf(s) \in Run /\ row[RunOf(s)] \in Row /\ job[s] \in Job
           /\ row[RunOf(s)].status # "ABSENT"
           /\ task[s] \in Task
           /\ rcp[RunOf(s)] \in [Admin -> Recipient] /\ got[RunOf(s)] \in [Admin -> SUBSET Part]
           /\ sent[RunOf(s)] \in [Admin -> [Part -> Nat]]
           /\ Summarizes(row[RunOf(s)], rcp[RunOf(s)])
           /\ \A a \in Admin : Truthful(rcp[RunOf(s)][a], got[RunOf(s)][a])
           /\ Knows(task[s], rcp[RunOf(s)], got[RunOf(s)])
<1>1. RunOf(s) \in Run /\ row[RunOf(s)] \in Row /\ job[s] \in Job
  BY TaskFacts DEF DState, DInv, At
<1>2. row[RunOf(s)].status # "ABSENT"
  BY DEF At, DState, DInv, Wellformed, TasksHaveRows, RunOf
<1>3. Knows(task[s], rcp[RunOf(s)], got[RunOf(s)])
  BY DEF At, DState, DInv, Wellformed, SendersKnow, RunOf
<1> QED
  BY <1>1, <1>2, <1>3 DEF DState, DInv, Wellformed, DetailTypeOK, RowsSummarize, RowsTruthful

\* Where no worker stalls, the sender also agrees with the rows, which nobody else has.
LEMMA SenderAgrees ==
    ASSUME DState, Stalling = {}, NEW s \in Slot, At(s, "sending")
    PROVE  /\ row[RunOf(s)].dlv = Statuses(rcp[RunOf(s)])
           /\ Agrees(task[s], rcp[RunOf(s)])
           /\ \A a \in Admin : Budgeted(rcp[RunOf(s)][a], got[RunOf(s)][a], sent[RunOf(s)][a])
           /\ locked # RunOf(s)
           /\ \A t \in Slot \ {s} : job[t].pc = "sending" => job[t].run # RunOf(s)
<1>1. EInv /\ IInv /\ RunOf(s) \in Run
  BY SenderFacts DEF DState, DInv
<1>2. locked # RunOf(s)
  BY <1>1, TaskKnows DEF EInv, At
<1>3. \A t \in Slot \ {s} : job[t].pc = "sending" => job[t].run # RunOf(s)
  BY <1>1, RunRowsAssumption DEF EInv, CInv, SingleExecutor, RunOf
<1>4. Agrees(task[s], rcp[RunOf(s)])
  BY <1>1 DEF EInv, Exact, At, RunOf
<1> QED BY <1>1, <1>2, <1>3, <1>4 DEF EInv, Exact

\* A step of a task that delivers, on the recipient in hand.
LEMMA WorkKeeps ==
    ASSUME DState, NEW s \in Slot, At(s, "sending"), NEW a \in Admin, DetailTypeOK',
           Touches(RunOf(s), a), UNCHANGED <<locked, job>>,
           \A q \in Run \ {RunOf(s)} : row'[q] = row[q],
           row'[RunOf(s)].status = row[RunOf(s)].status,
           \A t \in Slot \ {s} : task'[t] = task[t],
           Summarizes(row'[RunOf(s)], rcp'[RunOf(s)]),
           rcp'[RunOf(s)][a].status = "ABSENT" => rcp[RunOf(s)][a].status = "ABSENT",
           got[RunOf(s)][a] \subseteq got'[RunOf(s)][a],
           Truthful(rcp'[RunOf(s)][a], got'[RunOf(s)][a]),
           Knows(task'[s], rcp'[RunOf(s)], got'[RunOf(s)]),
           Stalling = {} =>
             /\ row'[RunOf(s)].dlv = Statuses(rcp'[RunOf(s)])
             /\ Budgeted(rcp'[RunOf(s)][a], got'[RunOf(s)][a], sent'[RunOf(s)][a])
             /\ Agrees(task'[s], rcp'[RunOf(s)])
    PROVE  Kept
<1> PICK r \in Run : r = RunOf(s)
  BY SenderFacts
<1>1. ASSUME NEW q \in Run \ {r} PROVE rcp'[q] = rcp[q] /\ got'[q] = got[q] /\ sent'[q] = sent[q]
  BY DEF Touches, DState, DInv, Wellformed, DetailTypeOK
<1>2. RowsSummarize'
  <2> SUFFICES ASSUME NEW q \in Run PROVE Summarizes(row'[q], rcp'[q])
    BY DEF RowsSummarize, Statuses, Summarizes
  <2> QED BY <1>1 DEF DState, DInv, Wellformed, RowsSummarize
<1>3. RowsTruthful'
  <2> SUFFICES ASSUME NEW q \in Run, NEW b \in Admin PROVE Truthful(rcp'[q][b], got'[q][b])
    BY DEF RowsTruthful
  <2> QED BY <1>1 DEF DState, DInv, Wellformed, RowsTruthful, Touches
<1>4. TasksHaveRows'
  BY DEF DState, DInv, Wellformed, TasksHaveRows, IInv, RestInv, JobsHaveRuns
<1>5. SendersKnow'
  <2> SUFFICES ASSUME NEW t \in Slot, job[t].pc = "sending"
               PROVE  Knows(task'[t], rcp'[job[t].run], got'[job[t].run])
    BY DEF SendersKnow
  <2>1. CASE t = s
    BY <2>1 DEF RunOf
  <2>2. CASE t # s
    <3>1. PICK q \in Run : q = job[t].run
      BY DEF DState, DInv, IInv, RestInv, JobsHaveRuns
    <3>2. Knows(task[t], rcp[q], got[q]) /\ task'[t] = task[t]
      BY <2>2, <3>1 DEF DState, DInv, Wellformed, SendersKnow
    <3>3. CASE q # r
      BY <1>1, <3>1, <3>2, <3>3
    <3>4. CASE q = r
      <4>1. \A b \in Admin : /\ got[q][b] \subseteq got'[q][b]
                             /\ rcp'[q][b].status = "ABSENT" => rcp[q][b].status = "ABSENT"
        BY <3>4 DEF Touches
      <4>2. task[t] \in Task
        BY DEF DState, DInv, Wellformed, DetailTypeOK
      <4>3. task[t].todo \subseteq Admin
        BY <4>2 DEF Task
      <4>4. task[t].at \notin {"none", "next"} => First(task[t].todo) \in Admin
        BY <3>2, <4>3, FirstIsMember DEF Knows
      <4>5. Knows(task[t], rcp'[q], got'[q])
        BY <3>2, <4>1, <4>3, <4>4 DEF Knows, InHand
      <4> QED BY <3>1, <3>2, <4>5
    <3> QED BY <3>3, <3>4
  <2> QED BY <2>1, <2>2
<1>6. ASSUME Stalling = {} PROVE Exact'
  <2>1. EInv /\ locked # r /\ \A t \in Slot \ {s} : job[t].pc = "sending" => job[t].run # r
    BY <1>6, SenderAgrees DEF DState
  <2>2. ASSUME NEW q \in Run PROVE row'[q].dlv = Statuses(rcp'[q])
    BY <1>1, <1>6, <2>1 DEF EInv, Exact
  <2>3. ASSUME NEW q \in Run, NEW b \in Admin
        PROVE  Budgeted(rcp'[q][b], got'[q][b], sent'[q][b])
    BY <1>6, <2>1 DEF EInv, Exact, Touches
  <2>4. ASSUME NEW t \in Slot, job'[t].pc = "sending"
        PROVE  Agrees(task'[t], rcp'[job'[t].run])
    <3>1. CASE t = s
      BY <1>6, <3>1 DEF RunOf
    <3>2. CASE t # s
      <4>1. job[t].run \in Run \ {r} /\ task'[t] = task[t] /\ Agrees(task[t], rcp[job[t].run])
        BY <2>1, <2>4, <3>2 DEF DState, DInv, IInv, RestInv, JobsHaveRuns, EInv, Exact
      <4> QED BY <1>1, <4>1
    <3> QED BY <3>1, <3>2
  <2>5. locked' # NoRun => "FAILED" \in row'[locked'].dlv
    BY <2>1 DEF EInv, Exact, DState, DInv, IInv, RestInv
  <2> QED BY <2>2, <2>3, <2>4, <2>5 DEF Exact
<1>7. HeldHasRows'
  <2> SUFFICES ASSUME locked # NoRun PROVE row'[locked].dlv # {}
    BY DEF HeldHasRows
  <2>1. locked \in Run /\ row[locked].dlv # {} /\ Summarizes(row[locked], rcp[locked])
    BY DEF DState, DInv, IInv, RestInv, Wellformed, HeldHasRows, RowsSummarize
  <2>2. CASE locked = r
    <3>1. PICK b \in Admin : rcp[r][b].status # "ABSENT"
      BY <2>1, <2>2 DEF Summarizes, Statuses
    <3>2. rcp'[r][b].status # "ABSENT"
      BY <3>1 DEF Touches
    <3>3. Statuses(rcp'[r]) # {}
      BY <3>2 DEF Statuses
    <3> QED BY <2>2, <3>3 DEF Summarizes
  <2> QED BY <2>1, <2>2
<1> QED BY <1>2, <1>3, <1>4, <1>5, <1>6, <1>7 DEF Wellformed, Kept

-----------------------------------------------------------------------------
(* One attempt                                                             *)

\* The recipient in hand.
LEMMA InHandFacts ==
    ASSUME DState, NEW s \in Slot, At(s, "sending"), task[s].todo # {}
    PROVE  /\ Current(s) \in Admin /\ Current(s) \in task[s].todo
           /\ Copy(s) \in Recipient
           /\ rcp[RunOf(s)][Current(s)] \in Recipient
           /\ rcp[RunOf(s)][Current(s)].status # "ABSENT"
<1>1. task[s] \in Task
  BY SenderFacts
<1>2. task[s].todo \in SUBSET Admin /\ task[s].rows \in [Admin -> Recipient]
  BY <1>1 DEF Task
<1>3. Current(s) \in task[s].todo
  BY <1>2, FirstIsMember DEF Current
<1> QED BY <1>2, <1>3, SenderFacts DEF Copy, Knows

\* A step by which only the task's memory changes.
LEMMA OnlyTaskGood ==
    ASSUME DState, NEW s \in Slot, At(s, "sending"), OnlyTask,
           NEW t \in Task, task' = [task EXCEPT ![s] = t],
           Knows(t, rcp[RunOf(s)], got[RunOf(s)]),
           Stalling = {} => Agrees(t, rcp[RunOf(s)])
    PROVE  DGood
<1>1. PICK a \in Admin : TRUE
  BY DeliveryAssumption
<1>2. [Next]_vars
  BY DEF OnlyTask, vars
<1>3. DetailTypeOK' /\ task'[s] = t
  BY DEF OnlyTask, DState, DInv, Wellformed, DetailTypeOK
<1>4. Touches(RunOf(s), a)
  BY DEF OnlyTask, Touches
<1>5. \A u \in Slot \ {s} : task'[u] = task[u]
  BY DEF DState, DInv, Wellformed, DetailTypeOK
<1>6. Stalling = {} =>
        /\ row[RunOf(s)].dlv = Statuses(rcp[RunOf(s)])
        /\ Budgeted(rcp[RunOf(s)][a], got[RunOf(s)][a], sent[RunOf(s)][a])
  BY SenderAgrees
<1>7. /\ Summarizes(row[RunOf(s)], rcp[RunOf(s)])
      /\ Truthful(rcp[RunOf(s)][a], got[RunOf(s)][a])
  BY SenderFacts
<1>8. /\ UNCHANGED <<locked, job>> /\ row' = row /\ rcp' = rcp /\ got' = got /\ sent' = sent
  BY DEF OnlyTask
<1>9. Kept
  BY <1>1, <1>3, <1>4, <1>5, <1>6, <1>7, <1>8, WorkKeeps
<1> QED BY <1>2, <1>9 DEF DGood

\* The next recipient's turn, after this one or because there is nothing to do for it.
LEMMA NextTurnGood ==
    ASSUME DState, NEW s \in Slot, PassOver(s)
    PROVE  DGood
<1>1. At(s, "sending") /\ task[s] \in Task /\ OnlyTask /\ NextRecipient(s)
  BY SenderFacts DEF PassOver, Turn, Doing
<1> DEFINE t == [task[s] EXCEPT !.at = "next", !.todo = @ \ {Current(s)}]
<1>2. t \in Task /\ t.at = "next" /\ t.todo \subseteq task[s].todo /\ t.rows = task[s].rows
  BY <1>1 DEF Task, Phase
<1>3. task' = [task EXCEPT ![s] = t]
  BY <1>1 DEF NextRecipient, DState, DInv, Wellformed, DetailTypeOK
<1>4. Knows(t, rcp[RunOf(s)], got[RunOf(s)])
  BY <1>1, <1>2, SenderFacts DEF Knows, InHand
<1>5. Stalling = {} => Agrees(t, rcp[RunOf(s)])
  BY <1>1, <1>2, SenderAgrees DEF Agrees, InHand
<1> HIDE DEF t
<1> QED BY <1>1, <1>2, <1>3, <1>4, <1>5, OnlyTaskGood

\* A change of phase, as it reads for the task's memory.
LEMMA MoveForm ==
    ASSUME DState, NEW s \in Slot, NEW phase \in Phase, Move(s, phase), task[s] \in Task
    PROVE  \E t \in Task : /\ task' = [task EXCEPT ![s] = t]
                           /\ t.at = phase /\ t.rows = task[s].rows
                           /\ t.todo = task[s].todo /\ t.part = task[s].part
<1> DEFINE t == [task[s] EXCEPT !.at = phase]
<1>1. /\ t \in Task /\ t.at = phase /\ t.rows = task[s].rows
      /\ t.todo = task[s].todo /\ t.part = task[s].part
  BY DEF Task
<1>2. task' = [task EXCEPT ![s] = t]
  BY DEF Move, DState, DInv, Wellformed, DetailTypeOK
<1> QED BY <1>1, <1>2

LEMMA TakeUpGood ==
    ASSUME DState, NEW s \in Slot, TakeUp(s)
    PROVE  DGood
<1>1. /\ At(s, "sending") /\ task[s] \in Task /\ OnlyTask /\ task[s].todo # {}
      /\ Copy(s).status = "PENDING"
  BY SenderFacts DEF TakeUp, Turn, Doing
<1>2. PICK phase \in {"check", "giveup"} :
        Move(s, phase) /\ (phase = "check" => Copy(s).tries < MaxAttempts)
  BY DEF TakeUp
<1>3. PICK t \in Task : /\ task' = [task EXCEPT ![s] = t]
                        /\ t.at = phase /\ t.rows = task[s].rows
                        /\ t.todo = task[s].todo /\ t.part = task[s].part
  BY <1>1, <1>2, MoveForm DEF Phase
<1>4. Knows(t, rcp[RunOf(s)], got[RunOf(s)])
  BY <1>1, <1>2, <1>3, SenderFacts DEF Knows, InHand, Copy, Current
<1>5. Stalling = {} => Agrees(t, rcp[RunOf(s)])
  BY <1>1, <1>2, <1>3, SenderAgrees DEF Agrees, InHand
<1> QED BY <1>1, <1>3, <1>4, <1>5, OnlyTaskGood

LEMMA RefusedGood ==
    ASSUME DState, NEW s \in Slot, Refused(s)
    PROVE  DGood
<1>1. At(s, "sending") /\ task[s] \in Task /\ OnlyTask /\ task[s].at = "upload"
  BY SenderFacts DEF Refused, Doing
<1>2. PICK phase \in {"transient", "permanent"} : Move(s, phase)
  BY DEF Refused
<1>3. PICK t \in Task : /\ task' = [task EXCEPT ![s] = t]
                        /\ t.at = phase /\ t.rows = task[s].rows
                        /\ t.todo = task[s].todo /\ t.part = task[s].part
  BY <1>1, <1>2, MoveForm DEF Phase
<1>4. Knows(t, rcp[RunOf(s)], got[RunOf(s)])
  BY <1>1, <1>2, <1>3, SenderFacts DEF Knows, InHand
<1>5. Stalling = {} => Agrees(t, rcp[RunOf(s)])
  BY <1>1, <1>2, <1>3, SenderAgrees DEF Agrees, InHand
<1> QED BY <1>1, <1>3, <1>4, <1>5, OnlyTaskGood

LEMMA CheckGood ==
    ASSUME DState, NEW s \in Slot, Check(s)
    PROVE  DGood
<1>1. At(s, "sending") /\ task[s] \in Task /\ OnlyTask /\ task[s].at = "check"
  BY SenderFacts DEF Check, Doing
<1>2. Knows(task[s], rcp[RunOf(s)], got[RunOf(s)]) /\ task[s].todo # {}
  BY <1>1, SenderFacts DEF Knows
<1>3. Current(s) \in Admin /\ Copy(s) \in Recipient
  BY <1>1, <1>2, InHandFacts
<1>4. CASE Move(s, "skip")
  <2>1. PICK t \in Task : /\ task' = [task EXCEPT ![s] = t]
                          /\ t.at = "skip" /\ t.rows = task[s].rows
                          /\ t.todo = task[s].todo /\ t.part = task[s].part
    BY <1>1, <1>4, MoveForm DEF Phase
  <2>2. Knows(t, rcp[RunOf(s)], got[RunOf(s)])
    BY <1>1, <1>2, <2>1 DEF Knows, InHand
  <2>3. Stalling = {} => Agrees(t, rcp[RunOf(s)])
    BY <1>1, <2>1, SenderAgrees DEF Agrees, InHand
  <2> QED BY <1>1, <2>1, <2>2, <2>3, OnlyTaskGood
<1>5. CASE task' = [task EXCEPT ![s].at = "part", ![s].part = FirstPart(Copy(s))]
  <2>1. PICK k \in 1..(Parts + 1) : k = Copy(s).next
    BY <1>3 DEF Recipient
  <2> DEFINE t == [task[s] EXCEPT !.at = "part", !.part = k]
  <2>6. k \in 0..(Parts + 1) /\ k >= 1
    BY DeliveryAssumption
  <2>2. /\ t \in Task /\ t.at = "part" /\ t.part = k
        /\ t.rows = task[s].rows /\ t.todo = task[s].todo
    BY <1>1, <2>6 DEF Task, Phase
  <2>3. task' = [task EXCEPT ![s] = t]
    BY <1>5, <2>1 DEF FirstPart, DState, DInv, Wellformed, DetailTypeOK
  <2> HIDE DEF t
  <2>4. Knows(t, rcp[RunOf(s)], got[RunOf(s)])
    <3>1. 1..(k - 1) \subseteq got[RunOf(s)][First(t.todo)]
      BY <1>2, <1>3, <2>1, <2>2 DEF Knows, Copy, Current
    <3>2. First(t.todo) = First(task[s].todo)
      BY <2>2
    <3> QED BY <1>1, <1>2, <2>2, <2>6, <3>1, <3>2 DEF Knows, InHand
  <2>5. Stalling = {} => Agrees(t, rcp[RunOf(s)])
    BY <1>1, <2>1, <2>2, SenderAgrees DEF Agrees, InHand, Copy, Current
  <2> QED BY <1>1, <2>2, <2>3, <2>4, <2>5, OnlyTaskGood
<1> QED BY <1>4, <1>5 DEF Check

\* A function of runs and recipients that changes at one place.
LEMMA UpdateOne ==
    ASSUME NEW S, NEW f \in [Run -> [Admin -> S]], NEW r \in Run, NEW a \in Admin, NEW v \in S,
           NEW g, g = [f EXCEPT ![r][a] = v]
    PROVE  /\ g \in [Run -> [Admin -> S]] /\ g[r] = [f[r] EXCEPT ![a] = v] /\ g[r][a] = v
           /\ \A q \in Run, b \in Admin : ~(q = r /\ b = a) => g[q][b] = f[q][b]
OBVIOUS

\* A step on the recipient in hand that leaves its outcome open: the run's row stays.
LEMMA DetailGood ==
    ASSUME DState, NEW s \in Slot, At(s, "sending"), NEW a \in Admin, DetailTypeOK',
           UNCHANGED <<row, spool, locked, proc, ws, job>>, Touches(RunOf(s), a),
           \A t \in Slot \ {s} : task'[t] = task[t],
           rcp'[RunOf(s)][a].status = rcp[RunOf(s)][a].status,
           got[RunOf(s)][a] \subseteq got'[RunOf(s)][a],
           Truthful(rcp'[RunOf(s)][a], got'[RunOf(s)][a]),
           Knows(task'[s], rcp'[RunOf(s)], got'[RunOf(s)]),
           Stalling = {} =>
             /\ Budgeted(rcp'[RunOf(s)][a], got'[RunOf(s)][a], sent'[RunOf(s)][a])
             /\ Agrees(task'[s], rcp'[RunOf(s)])
    PROVE  DGood
<1>1. [Next]_vars
  BY DEF vars
<1>2. RunOf(s) \in Run
  BY SenderFacts
<1>3. \A b \in Admin : rcp'[RunOf(s)][b].status = rcp[RunOf(s)][b].status
  BY <1>2 DEF Touches
<1>4. Statuses(rcp'[RunOf(s)]) = Statuses(rcp[RunOf(s)])
  BY <1>3 DEF Statuses
<1>5. Summarizes(row'[RunOf(s)], rcp'[RunOf(s)])
  BY <1>4, SenderFacts DEF Summarizes
<1>6. Stalling = {} => row'[RunOf(s)].dlv = Statuses(rcp'[RunOf(s)])
  BY <1>4, SenderAgrees
<1>7. Kept
  BY <1>5, <1>6, WorkKeeps
<1> QED BY <1>1, <1>7 DEF DGood

LEMMA AcceptedGood ==
    ASSUME DState, NEW s \in Slot, Accepted(s)
    PROVE  DGood
<1>1. At(s, "sending") /\ task[s] \in Task /\ task[s].at = "upload"
  BY SenderFacts DEF Accepted, Doing
<1>2. Knows(task[s], rcp[RunOf(s)], got[RunOf(s)]) /\ task[s].todo # {} /\ RunOf(s) \in Run
  BY <1>1, SenderFacts DEF Knows
<1> PICK a \in Admin : a = Current(s)
  BY <1>1, <1>2, InHandFacts
<1> PICK k \in Part : k = task[s].part
  BY <1>1, <1>2 DEF Knows, InHand, Part, Task
<1>3. PICK phase \in {"acked", "transient"} : Move(s, phase)
  BY DEF Accepted
<1>4. PICK t \in Task : /\ task' = [task EXCEPT ![s] = t]
                        /\ t.at = phase /\ t.rows = task[s].rows
                        /\ t.todo = task[s].todo /\ t.part = task[s].part
  BY <1>1, <1>3, MoveForm DEF Phase
<1>5. got' = [got EXCEPT ![RunOf(s)][a] = @ \union {k}]
  BY DEF Accepted
<1>6. /\ DetailTypeOK' /\ task'[s] = t /\ (\A u \in Slot \ {s} : task'[u] = task[u])
      /\ got'[RunOf(s)][a] = got[RunOf(s)][a] \union {k}
      /\ rcp' = rcp /\ sent' = sent /\ Touches(RunOf(s), a)
  BY <1>2, <1>4, <1>5 DEF Accepted, DState, DInv, Wellformed, DetailTypeOK, Touches
<1>7. \A b \in Admin : got[RunOf(s)][b] \subseteq got'[RunOf(s)][b]
  BY <1>2, <1>6 DEF Touches
<1>8. Truthful(rcp'[RunOf(s)][a], got'[RunOf(s)][a])
  <2>1. Truthful(rcp[RunOf(s)][a], got[RunOf(s)][a])
    BY <1>1, SenderFacts
  <2> QED BY <1>6, <2>1 DEF Truthful
<1>9. Knows(task'[s], rcp'[RunOf(s)], got'[RunOf(s)])
  <2>1. Knows(t, rcp[RunOf(s)], got'[RunOf(s)])
    BY <1>1, <1>2, <1>3, <1>4, <1>6, <1>7 DEF Knows, InHand, Current
  <2> QED BY <1>6, <2>1
<1>10. ASSUME Stalling = {}
       PROVE  /\ Budgeted(rcp'[RunOf(s)][a], got'[RunOf(s)][a], sent'[RunOf(s)][a])
              /\ Agrees(task'[s], rcp'[RunOf(s)])
  <2>1. /\ Agrees(task[s], rcp[RunOf(s)])
        /\ Budgeted(rcp[RunOf(s)][a], got[RunOf(s)][a], sent[RunOf(s)][a])
    BY <1>1, <1>10, SenderAgrees
  <2>2. k = rcp[RunOf(s)][a].next
    BY <1>1, <2>1 DEF Agrees, InHand, Current
  <2>3. Budgeted(rcp[RunOf(s)][a], got[RunOf(s)][a] \union {k}, sent[RunOf(s)][a])
    BY <2>1, <2>2 DEF Budgeted, Part
  <2>4. Agrees(t, rcp[RunOf(s)])
    BY <1>1, <1>3, <1>4, <2>1 DEF Agrees, InHand
  <2> QED BY <1>6, <2>3, <2>4
<1>11. UNCHANGED <<row, spool, locked, proc, ws, job>>
  BY DEF Accepted
<1> QED BY <1>1, <1>6, <1>7, <1>8, <1>9, <1>10, <1>11, DetailGood

LEMMA AttemptGood ==
    ASSUME DState, NEW s \in Slot, Attempt(s)
    PROVE  DGood
<1>1. At(s, "sending") /\ task[s] \in Task /\ task[s].at = "part" /\ task[s].part <= Parts
  BY SenderFacts DEF Attempt, Doing
<1>2. /\ Knows(task[s], rcp[RunOf(s)], got[RunOf(s)]) /\ task[s].todo # {} /\ RunOf(s) \in Run
      /\ rcp[RunOf(s)] \in [Admin -> Recipient] /\ sent[RunOf(s)] \in [Admin -> [Part -> Nat]]
  BY <1>1, SenderFacts DEF Knows
<1> PICK a \in Admin : a = Current(s)
  BY <1>1, <1>2, InHandFacts
<1> PICK k \in Part : k = task[s].part
  BY <1>1, <1>2 DEF Knows, InHand, Part, Task
<1>3. Copy(s) \in Recipient /\ Copy(s) = task[s].rows[a] /\ rcp[RunOf(s)][a] \in Recipient
  BY <1>1, <1>2, InHandFacts DEF Copy
<1>4. PICK n \in 0..MaxAttempts : n = Copy(s).tries + 1
  BY <1>1, <1>2, <1>3, DeliveryAssumption DEF Knows, Recipient, Current
<1> DEFINE rec  == Counted(rcp[RunOf(s)][a], n)
           copy == Counted(Copy(s), n)
           t    == [task[s] EXCEPT !.at = "upload", !.rows[a] = copy]
<1>5. /\ rec \in Recipient /\ rec.status = rcp[RunOf(s)][a].status
      /\ rec.next = rcp[RunOf(s)][a].next /\ rec.tries = n /\ rec.due = FALSE
  BY <1>3 DEF Counted, Recipient
<1>6. copy \in Recipient /\ copy.status = Copy(s).status /\ copy.next = Copy(s).next
  BY <1>3 DEF Counted, Recipient
<1>7. /\ t \in Task /\ t.at = "upload" /\ t.part = k /\ t.todo = task[s].todo
      /\ t.rows = [task[s].rows EXCEPT ![a] = copy]
  BY <1>1, <1>6 DEF Task, Phase
<1>8. /\ rcp' = [rcp EXCEPT ![RunOf(s)][a] = rec]
      /\ task' = [task EXCEPT ![s] = t]
      /\ sent' = [sent EXCEPT ![RunOf(s)][a][k] = @ + 1]
      /\ UNCHANGED <<row, spool, locked, proc, ws, job, entitled, got>>
  BY <1>3, <1>4 DEF Attempt, DState, DInv, Wellformed, DetailTypeOK
<1> HIDE DEF rec, copy, t
<1>9. PICK m \in Nat : m = sent[RunOf(s)][a][k] + 1
  BY <1>2
<1>10. sent' = [sent EXCEPT ![RunOf(s)][a][k] = m]
  BY <1>8, <1>9
<1>11. /\ DetailTypeOK' /\ task'[s] = t /\ (\A u \in Slot \ {s} : task'[u] = task[u])
       /\ rcp'[RunOf(s)] = [rcp[RunOf(s)] EXCEPT ![a] = rec] /\ rcp'[RunOf(s)][a] = rec
       /\ sent'[RunOf(s)][a] = [sent[RunOf(s)][a] EXCEPT ![k] = m]
       /\ got' = got /\ Touches(RunOf(s), a)
  <2>1. DetailTypeOK
    BY DEF DState, DInv, Wellformed
  <2> DEFINE v == [sent[RunOf(s)][a] EXCEPT ![k] = m]
  <2>2. v \in [Part -> Nat] /\ sent' = [sent EXCEPT ![RunOf(s)][a] = v]
    BY <1>2, <1>10
  <2> HIDE DEF v
  <2>3. /\ rcp' \in [Run -> [Admin -> Recipient]] /\ rcp'[RunOf(s)][a] = rec
        /\ rcp'[RunOf(s)] = [rcp[RunOf(s)] EXCEPT ![a] = rec]
        /\ \A q \in Run, b \in Admin : ~(q = RunOf(s) /\ b = a) => rcp'[q][b] = rcp[q][b]
    BY <1>2, <1>5, <1>8, <2>1, UpdateOne DEF DetailTypeOK
  <2>4. /\ sent' \in [Run -> [Admin -> [Part -> Nat]]] /\ sent'[RunOf(s)][a] = v
        /\ \A q \in Run, b \in Admin : ~(q = RunOf(s) /\ b = a) => sent'[q][b] = sent[q][b]
    BY <1>2, <2>1, <2>2, UpdateOne DEF DetailTypeOK
  <2>5. task' \in [Slot -> Task] /\ task'[s] = t /\ \A u \in Slot \ {s} : task'[u] = task[u]
    BY <1>7, <1>8, <2>1 DEF DetailTypeOK
  <2> QED BY <1>8, <2>1, <2>3, <2>4, <2>5 DEF DetailTypeOK, Touches, v
<1>12. Truthful(rec, got[RunOf(s)][a])
  <2>1. Truthful(rcp[RunOf(s)][a], got[RunOf(s)][a]) /\ rcp[RunOf(s)][a].status # "ABSENT"
    BY <1>1, <1>2, SenderFacts, InHandFacts
  <2> QED BY <1>5, <2>1 DEF Truthful
<1>13. Knows(t, rcp'[RunOf(s)], got[RunOf(s)])
  <2>1. \A b \in Admin : /\ rcp'[RunOf(s)][b].status = rcp[RunOf(s)][b].status
                         /\ t.rows[b].status = task[s].rows[b].status
                         /\ t.rows[b].next = task[s].rows[b].next
    BY <1>1, <1>2, <1>3, <1>5, <1>6, <1>7, <1>11 DEF Task
  <2>2. task[s].todo \subseteq Admin
    BY <1>1 DEF Task
  <2>3. First(t.todo) = a /\ First(task[s].todo) = a
    BY <1>7 DEF Current
  <2> QED BY <1>1, <1>2, <1>7, <2>1, <2>2, <2>3 DEF Knows, InHand
<1>14. ASSUME Stalling = {}
       PROVE  /\ Budgeted(rec, got[RunOf(s)][a], sent'[RunOf(s)][a])
              /\ Agrees(t, rcp'[RunOf(s)])
  <2>1. /\ Agrees(task[s], rcp[RunOf(s)])
        /\ Budgeted(rcp[RunOf(s)][a], got[RunOf(s)][a], sent[RunOf(s)][a])
    BY <1>1, <1>14, SenderAgrees
  <2>2. k = rcp[RunOf(s)][a].next /\ Copy(s) = rcp[RunOf(s)][a] /\ copy = rec
    BY <1>1, <1>3, <2>1 DEF Agrees, InHand, Current, rec, copy
  <2>3. m <= n
    BY <1>2, <1>3, <1>4, <1>9, <2>1, <2>2 DEF Budgeted, Recipient
  <2>4. Budgeted(rec, got[RunOf(s)][a], sent'[RunOf(s)][a])
    <3> DEFINE u == [sent[RunOf(s)][a] EXCEPT ![k] = m]
    <3>1. m <= MaxAttempts
      BY <1>4, <1>9, <2>3, DeliveryAssumption
    <3>2. u[k] = m /\ \A j \in Part \ {k} : u[j] = sent[RunOf(s)][a][j]
      BY <1>2
    <3> HIDE DEF u
    <3>3. \A j \in Part \ {k} : j # rec.next
      BY <1>5, <2>2
    <3>4. rec.next = k /\ rec.tries = n /\ rcp[RunOf(s)][a].next = k
      BY <1>5, <2>2
    <3>5. ~(k > k)
      BY DEF Part
    <3>6. Budgeted(rec, got[RunOf(s)][a], u)
      BY <2>1, <2>3, <3>1, <3>2, <3>3, <3>4, <3>5 DEF Budgeted
    <3> QED BY <1>11, <3>6 DEF u
  <2>5. Agrees(t, rcp'[RunOf(s)])
    BY <1>5, <1>7, <1>11, <2>1, <2>2 DEF Agrees, InHand, Current
  <2> QED BY <2>4, <2>5
<1> QED BY <1>1, <1>5, <1>8, <1>11, <1>12, <1>13, <1>14, DetailGood

LEMMA RecordedForm ==
    ASSUME NEW rec \in Recipient, NEW k, NEW n \in 1..(Parts + 1), n = k + 1
    PROVE  /\ Recorded(rec, k) \in Recipient /\ Recorded(rec, k).status = rec.status
           /\ Recorded(rec, k).next = n /\ Recorded(rec, k).tries = 0
<1>1. 0 \in 0..MaxAttempts
  BY DeliveryAssumption
<1>2. Recorded(rec, k) = [rec EXCEPT !.next = n, !.tries = 0, !.due = TRUE]
  BY DEF Recorded
<1> QED BY <1>1, <1>2 DEF Recipient

LEMMA RecordGood ==
    ASSUME DState, NEW s \in Slot, Record(s)
    PROVE  DGood
<1>1. At(s, "sending") /\ task[s] \in Task /\ task[s].at = "acked"
  BY SenderFacts DEF Record, Doing
<1>2. /\ Knows(task[s], rcp[RunOf(s)], got[RunOf(s)]) /\ task[s].todo # {} /\ RunOf(s) \in Run
      /\ rcp[RunOf(s)] \in [Admin -> Recipient] /\ sent[RunOf(s)] \in [Admin -> [Part -> Nat]]
  BY <1>1, SenderFacts DEF Knows
<1> PICK a \in Admin : a = Current(s)
  BY <1>1, <1>2, InHandFacts
<1> PICK k \in Part : k = task[s].part
  BY <1>1, <1>2 DEF Knows, InHand, Part, Task
<1>3. /\ Copy(s) \in Recipient /\ Copy(s) = task[s].rows[a] /\ rcp[RunOf(s)][a] \in Recipient
      /\ Copy(s).status = "PENDING"
  BY <1>1, <1>2, InHandFacts DEF Copy, Knows, Current
<1>4. PICK n \in 1..(Parts + 1) : n = k + 1 /\ n \in 0..(Parts + 1)
  BY DeliveryAssumption DEF Part
<1> DEFINE rec  == Recorded(rcp[RunOf(s)][a], k)
           copy == Recorded(Copy(s), k)
           t    == [task[s] EXCEPT !.at = "part", !.rows[a] = copy, !.part = n]
<1>5. /\ rec \in Recipient /\ rec.status = rcp[RunOf(s)][a].status
      /\ rec.next = n /\ rec.tries = 0
  BY <1>3, <1>4, RecordedForm
<1>6. copy \in Recipient /\ copy.status = "PENDING" /\ copy.next = n /\ copy.tries = 0
  BY <1>3, <1>4, RecordedForm
<1>7. /\ t \in Task /\ t.at = "part" /\ t.part = n /\ t.todo = task[s].todo
      /\ t.rows = [task[s].rows EXCEPT ![a] = copy]
  BY <1>1, <1>4, <1>6 DEF Task, Phase
<1>8. /\ rcp' = [rcp EXCEPT ![RunOf(s)][a] = rec]
      /\ task' = [task EXCEPT ![s] = t]
      /\ UNCHANGED <<row, spool, locked, proc, ws, job, entitled, got, sent>>
  BY <1>3, <1>4 DEF Record, DState, DInv, Wellformed, DetailTypeOK
<1> HIDE DEF rec, copy, t
<1>9. /\ DetailTypeOK' /\ task'[s] = t /\ (\A u \in Slot \ {s} : task'[u] = task[u])
      /\ rcp'[RunOf(s)] = [rcp[RunOf(s)] EXCEPT ![a] = rec] /\ rcp'[RunOf(s)][a] = rec
      /\ got' = got /\ sent' = sent /\ Touches(RunOf(s), a)
  <2>1. DetailTypeOK
    BY DEF DState, DInv, Wellformed
  <2>2. /\ rcp' \in [Run -> [Admin -> Recipient]] /\ rcp'[RunOf(s)][a] = rec
        /\ rcp'[RunOf(s)] = [rcp[RunOf(s)] EXCEPT ![a] = rec]
        /\ \A q \in Run, b \in Admin : ~(q = RunOf(s) /\ b = a) => rcp'[q][b] = rcp[q][b]
    BY <1>2, <1>5, <1>8, <2>1, UpdateOne DEF DetailTypeOK
  <2>3. task' \in [Slot -> Task] /\ task'[s] = t /\ \A u \in Slot \ {s} : task'[u] = task[u]
    BY <1>7, <1>8, <2>1 DEF DetailTypeOK
  <2> QED BY <1>8, <2>1, <2>2, <2>3 DEF DetailTypeOK, Touches
<1>10. 1..(n - 1) \subseteq got[RunOf(s)][a]
  <2>1. 1..(k - 1) \subseteq got[RunOf(s)][a] /\ k \in got[RunOf(s)][a]
    BY <1>1, <1>2 DEF Knows, InHand, Current
  <2>2. \A j \in 1..(n - 1) : j \in 1..(k - 1) \/ j = k
    BY <1>4 DEF Part
  <2> QED BY <2>1, <2>2
<1>11. Truthful(rec, got[RunOf(s)][a])
  <2>1. Truthful(rcp[RunOf(s)][a], got[RunOf(s)][a]) /\ rcp[RunOf(s)][a].status # "ABSENT"
    BY <1>1, <1>2, SenderFacts, InHandFacts
  <2> QED BY <1>5, <1>10, <2>1 DEF Truthful
<1>12. Knows(t, rcp'[RunOf(s)], got[RunOf(s)])
  <2>1. \A b \in Admin : /\ rcp'[RunOf(s)][b].status = rcp[RunOf(s)][b].status
                         /\ b # a => t.rows[b] = task[s].rows[b]
    BY <1>1, <1>2, <1>5, <1>7, <1>9 DEF Task
  <2>2. task[s].todo \subseteq Admin /\ t.rows[a] = copy
    BY <1>1, <1>7 DEF Task
  <2>3. First(t.todo) = a /\ First(task[s].todo) = a
    BY <1>7 DEF Current
  <2>4. \A b \in Admin : 1..(t.rows[b].next - 1) \subseteq got[RunOf(s)][b]
    BY <1>2, <1>6, <1>10, <2>1, <2>2 DEF Knows
  <2>5. n >= 1 /\ 0 < MaxAttempts
    BY DeliveryAssumption
  <2> QED BY <1>2, <1>6, <1>7, <1>10, <2>1, <2>2, <2>3, <2>4, <2>5 DEF Knows, InHand
<1>13. ASSUME Stalling = {}
       PROVE  /\ Budgeted(rec, got[RunOf(s)][a], sent[RunOf(s)][a])
              /\ Agrees(t, rcp'[RunOf(s)])
  <2>1. /\ Agrees(task[s], rcp[RunOf(s)])
        /\ Budgeted(rcp[RunOf(s)][a], got[RunOf(s)][a], sent[RunOf(s)][a])
    BY <1>1, <1>13, SenderAgrees
  <2>2. k = rcp[RunOf(s)][a].next /\ Copy(s) = rcp[RunOf(s)][a] /\ copy = rec
    BY <1>1, <1>3, <2>1 DEF Agrees, InHand, Current, rec, copy
  <2>3. 1..k \subseteq 1..n /\ (\A j \in Part : j > n => j > k) /\ (\A j \in Part : j = n => j > k)
    BY <1>4 DEF Part
  <2>4. Budgeted(rec, got[RunOf(s)][a], sent[RunOf(s)][a])
    BY <1>5, <2>1, <2>2, <2>3 DEF Budgeted
  <2>5. Agrees(t, rcp'[RunOf(s)])
    BY <1>2, <1>5, <1>7, <1>9, <2>1, <2>2 DEF Agrees, InHand, Current
  <2> QED BY <2>4, <2>5
<1> QED BY <1>1, <1>5, <1>8, <1>9, <1>11, <1>12, <1>13, DetailGood

-----------------------------------------------------------------------------
(* Outcomes                                                                *)

Outcome == {"SUCCEEDED", "FAILED", "SKIPPED"}

\* A commit of the task leaves the summary as it is or is a checkpoint.
LEMMA SavesIsStep ==
    ASSUME DState, NEW s \in Slot, At(s, "sending"), NEW a \in Admin, NEW rows,
           UNCHANGED <<spool, locked, proc, ws, job>>,
           WritesRow(RunOf(s), [row[RunOf(s)] EXCEPT !.dlv = Statuses(rows)]),
           \A b \in Admin \ {a} : rows[b] = rcp[RunOf(s)][b],
           rcp[RunOf(s)][a].status # "ABSENT",
           rows[a].status \in Outcome \/ rows[a].status = rcp[RunOf(s)][a].status,
           Stalling = {} => rcp[RunOf(s)][a].status = "PENDING"
    PROVE  [Next]_vars
<1> PICK r \in Run : r = RunOf(s)
  BY SenderFacts
<1> PICK rec \in Row : rec = row[r]
  BY SenderFacts
<1> DEFINE old == Statuses(rcp[r])
           new == Statuses(rows)
           o   == rows[a].status
<1>1. /\ old \subseteq rec.dlv /\ rec.dlv \subseteq old \union {"PENDING"}
      /\ rcp[r][a].status \in DeliveryStatus
  BY SenderFacts DEF Summarizes, Recipient
<1>2. o # "ABSENT"
  BY DEF Outcome
<1>3. /\ new \subseteq old \union {o} /\ old \subseteq new \union {rcp[r][a].status}
      /\ o \in new /\ rcp[r][a].status \in old
  BY <1>2, StatusesAfter
<1>4. WritesRow(r, [rec EXCEPT !.dlv = new])
  OBVIOUS
<1> HIDE DEF old, new
<1>5. CASE new = rec.dlv
  <2>1. [rec EXCEPT !.dlv = rec.dlv] = rec
    BY SenderFacts DEF Row
  <2>2. row' = [row EXCEPT ![r] = row[r]]
    BY <1>4, <1>5, <2>1 DEF WritesRow
  <2>3. row' = row
    BY <2>2 DEF DState, DInv, IInv, RowsInv
  <2> QED BY <2>3 DEF vars
<1>6. CASE new # rec.dlv
  <2>1. o \in Outcome
    <3>1. CASE o \notin Outcome
      <4>1. o = "PENDING" /\ o = rcp[r][a].status
        BY <1>1, <3>1 DEF DeliveryStatus, Outcome
      <4>2. new \subseteq old /\ old \subseteq new
        BY <1>3, <4>1
      <4>3. rec.dlv \subseteq old
        BY <1>1, <1>3, <4>1
      <4> QED BY <1>1, <1>6, <4>2, <4>3
    <3> QED BY <3>1
  <2>2. CASE Stalling # {}
    <3>1. new \ {o} \in SUBSET rec.dlv /\ new = (new \ {o}) \union {o}
      BY <1>1, <1>3
    <3>2. \E rest \in IF Stalling = {} THEN {rec.dlv, rec.dlv \ {"PENDING"}} ELSE SUBSET rec.dlv :
            new = rest \union {o}
      BY <2>2, <3>1
    <3>3. Checkpoint(s, o)
      BY <1>4, <2>2, <3>2 DEF Checkpoint
    <3> QED BY <2>1, <3>3 DEF Delivers, Outcome, Next
  <2>3. CASE Stalling = {}
    <3>1. rec.dlv = old
      BY <2>3, SenderAgrees DEF old
    <3>2. rcp[r][a].status = "PENDING"
      BY <2>3
    <3>3. new = rec.dlv \union {o} \/ new = (rec.dlv \ {"PENDING"}) \union {o}
      BY <1>3, <3>1, <3>2
    <3>4. \E rest \in IF Stalling = {} THEN {rec.dlv, rec.dlv \ {"PENDING"}} ELSE SUBSET rec.dlv :
            new = rest \union {o}
      BY <2>3, <3>3
    <3>5. Checkpoint(s, o)
      BY <1>3, <1>4, <3>1, <3>2, <3>4 DEF Checkpoint
    <3> QED BY <2>1, <3>5 DEF Delivers, Outcome, Next
  <2> QED BY <2>2, <2>3
<1> QED BY <1>5, <1>6

LEMMA SavesGood ==
    ASSUME DState, NEW s \in Slot, At(s, "sending"), task[s].at \notin {"none", "next"},
           NEW db \in Recipient, NEW copy \in Recipient, Saves(s, db, copy),
           db.next = rcp[RunOf(s)][Current(s)].next,
           db.tries = rcp[RunOf(s)][Current(s)].tries,
           db.status \in Outcome \/ db.status = rcp[RunOf(s)][Current(s)].status,
           Truthful(db, got[RunOf(s)][Current(s)]),
           copy.next = Copy(s).next,
           Stalling = {} => copy = db
    PROVE  DGood
<1>1. task[s] \in Task /\ RunOf(s) \in Run /\ rcp[RunOf(s)] \in [Admin -> Recipient]
  BY SenderFacts
<1>2. Knows(task[s], rcp[RunOf(s)], got[RunOf(s)]) /\ task[s].todo # {}
  BY SenderFacts DEF Knows
<1> PICK a \in Admin : a = Current(s)
  BY <1>2, InHandFacts
<1>3. rcp[RunOf(s)][a].status # "ABSENT" /\ task[s].rows[a].status = "PENDING"
  BY <1>2, InHandFacts DEF Knows, Current
<1> DEFINE t == [task[s] EXCEPT !.rows[a] = copy, !.at = "next", !.todo = @ \ {a}]
<1>4. /\ t \in Task /\ t.at = "next" /\ t.todo \subseteq task[s].todo
      /\ t.rows = [task[s].rows EXCEPT ![a] = copy]
  BY <1>1 DEF Task, Phase
<1>5. /\ rcp' = [rcp EXCEPT ![RunOf(s)][a] = db]
      /\ task' = [task EXCEPT ![s] = t]
      /\ WritesRow(RunOf(s), [row[RunOf(s)] EXCEPT !.dlv = Statuses(rcp'[RunOf(s)])])
      /\ UNCHANGED <<spool, locked, proc, ws, job, entitled, got, sent>>
  BY DEF Saves, DState, DInv, Wellformed, DetailTypeOK
<1> HIDE DEF t
<1>6. /\ DetailTypeOK' /\ task'[s] = t /\ (\A u \in Slot \ {s} : task'[u] = task[u])
      /\ rcp'[RunOf(s)] = [rcp[RunOf(s)] EXCEPT ![a] = db] /\ rcp'[RunOf(s)][a] = db
      /\ got' = got /\ sent' = sent /\ Touches(RunOf(s), a)
  <2>1. DetailTypeOK
    BY DEF DState, DInv, Wellformed
  <2>2. /\ rcp' \in [Run -> [Admin -> Recipient]] /\ rcp'[RunOf(s)][a] = db
        /\ rcp'[RunOf(s)] = [rcp[RunOf(s)] EXCEPT ![a] = db]
        /\ \A q \in Run, b \in Admin : ~(q = RunOf(s) /\ b = a) => rcp'[q][b] = rcp[q][b]
    BY <1>1, <1>5, <2>1, UpdateOne DEF DetailTypeOK
  <2>3. task' \in [Slot -> Task] /\ task'[s] = t /\ \A u \in Slot \ {s} : task'[u] = task[u]
    BY <1>4, <1>5, <2>1 DEF DetailTypeOK
  <2> QED BY <1>5, <2>1, <2>2, <2>3 DEF DetailTypeOK, Touches
<1>7. ASSUME Stalling = {}
      PROVE  /\ Agrees(task[s], rcp[RunOf(s)]) /\ rcp[RunOf(s)][a].status = "PENDING"
             /\ Budgeted(rcp[RunOf(s)][a], got[RunOf(s)][a], sent[RunOf(s)][a])
  BY <1>3, <1>7, SenderAgrees DEF Agrees
<1>8. [Next]_vars
  <2> PICK rows : rows = rcp'[RunOf(s)]
    OBVIOUS
  <2>1. /\ \A b \in Admin \ {a} : rows[b] = rcp[RunOf(s)][b]
        /\ rows[a] = db
    BY <1>1, <1>6 DEF Touches
  <2>2. /\ WritesRow(RunOf(s), [row[RunOf(s)] EXCEPT !.dlv = Statuses(rows)])
        /\ UNCHANGED <<spool, locked, proc, ws, job>>
    BY <1>5
  <2>3. rows[a].status \in Outcome \/ rows[a].status = rcp[RunOf(s)][a].status
    BY <2>1
  <2>4. Stalling = {} => rcp[RunOf(s)][a].status = "PENDING"
    BY <1>7
  <2> QED BY <1>3, <2>1, <2>2, <2>3, <2>4, SavesIsStep
<1>9. /\ row'[RunOf(s)].dlv = Statuses(rcp'[RunOf(s)])
      /\ row'[RunOf(s)].status = row[RunOf(s)].status
      /\ \A q \in Run \ {RunOf(s)} : row'[q] = row[q]
  BY <1>1, <1>5 DEF WritesRow, DState, DInv, IInv, RowsInv, Row
<1>10. Summarizes(row'[RunOf(s)], rcp'[RunOf(s)])
  BY <1>9, SenderFacts DEF Summarizes
<1>11. Knows(t, rcp'[RunOf(s)], got[RunOf(s)])
  <2>1. task[s].todo \subseteq Admin /\ task[s].rows \in [Admin -> Recipient]
    BY <1>1 DEF Task
  <2>2. db.status # "ABSENT"
    BY <1>3 DEF Outcome
  <2>3. \A b \in Admin : t.rows[b].next = task[s].rows[b].next
    BY <1>4, <2>1 DEF Copy
  <2>4. \A b \in Admin : rcp[RunOf(s)][b].status # "ABSENT" => rcp'[RunOf(s)][b].status # "ABSENT"
    BY <1>1, <1>6, <2>2
  <2> QED BY <1>2, <1>4, <2>1, <2>3, <2>4 DEF Knows, InHand
<1>12. ASSUME Stalling = {}
       PROVE  /\ Budgeted(db, got[RunOf(s)][a], sent[RunOf(s)][a])
              /\ Agrees(t, rcp'[RunOf(s)])
  BY <1>4, <1>6, <1>7, <1>12 DEF Budgeted, Agrees, InHand
<1>13. Kept
  <2>1. Truthful(rcp'[RunOf(s)][a], got'[RunOf(s)][a]) /\ UNCHANGED <<locked, job>>
    BY <1>5, <1>6
  <2>2. Knows(task'[s], rcp'[RunOf(s)], got'[RunOf(s)])
    BY <1>6, <1>11
  <2>3. Stalling = {} =>
          /\ row'[RunOf(s)].dlv = Statuses(rcp'[RunOf(s)])
          /\ Budgeted(rcp'[RunOf(s)][a], got'[RunOf(s)][a], sent'[RunOf(s)][a])
          /\ Agrees(task'[s], rcp'[RunOf(s)])
    BY <1>6, <1>9, <1>12
  <2>4. got[RunOf(s)][a] \subseteq got'[RunOf(s)][a]
    BY <1>6
  <2>5. rcp'[RunOf(s)][a].status = "ABSENT" => rcp[RunOf(s)][a].status = "ABSENT"
    BY <1>6 DEF Outcome
  <2> QED BY <1>3, <1>6, <1>9, <1>10, <2>1, <2>2, <2>3, <2>4, <2>5, WorkKeeps
<1> QED BY <1>8, <1>13 DEF DGood

LEMMA ResolvedForm ==
    ASSUME NEW rec \in Recipient, NEW status \in DeliveryStatus
    PROVE  /\ Resolved(rec, status) \in Recipient /\ Resolved(rec, status).status = status
           /\ Resolved(rec, status).next = rec.next /\ Resolved(rec, status).tries = rec.tries
BY DEF Resolved, Recipient

\* Writing PENDING where it stands changes nothing but the time.
LEMMA PendingForm ==
    ASSUME NEW rec \in Recipient, rec.status = "PENDING"
    PROVE  Resolved(rec, "PENDING") = [rec EXCEPT !.due = FALSE]
<1> PICK st \in DeliveryStatus \union {"ABSENT"}, n \in 1..(Parts + 1), m \in 0..MaxAttempts,
         d \in BOOLEAN : rec = [status |-> st, next |-> n, tries |-> m, due |-> d]
  BY DEF Recipient
<1> QED BY DEF Resolved

\* A recipient who is given up or skipped, or is served with every part accepted.
LEMMA ResolvesGood ==
    ASSUME DState, NEW s \in Slot, At(s, "sending"), task[s].at \notin {"none", "next"},
           NEW status \in Outcome,
           Saves(s, Resolved(rcp[RunOf(s)][Current(s)], status), Resolved(Copy(s), status)),
           status = "SUCCEEDED" => got[RunOf(s)][Current(s)] = Part
    PROVE  DGood
<1>1. task[s].todo # {} /\ task[s].rows[Current(s)] = Copy(s)
  BY SenderFacts DEF Knows, Copy
<1>2. /\ Current(s) \in Admin /\ Copy(s) \in Recipient
      /\ rcp[RunOf(s)][Current(s)] \in Recipient
  BY <1>1, InHandFacts
<1> PICK rec \in Recipient : rec = rcp[RunOf(s)][Current(s)]
  BY <1>2
<1>3. status \in DeliveryStatus
  BY DEF Outcome, DeliveryStatus
<1>4. /\ Resolved(rec, status) \in Recipient /\ Resolved(rec, status).status = status
      /\ Resolved(rec, status).next = rec.next /\ Resolved(rec, status).tries = rec.tries
      /\ Resolved(Copy(s), status) \in Recipient /\ Resolved(Copy(s), status).next = Copy(s).next
  BY <1>2, <1>3, ResolvedForm
<1>5. Truthful(rec, got[RunOf(s)][Current(s)])
  BY <1>2, SenderFacts
<1>6. Truthful(Resolved(rec, status), got[RunOf(s)][Current(s)])
  BY <1>4, <1>5 DEF Truthful, Outcome
<1>7. Stalling = {} => Copy(s) = rec
  BY <1>1, SenderAgrees DEF Agrees
<1> QED BY <1>2, <1>4, <1>6, <1>7, SavesGood

LEMMA OutcomeGood ==
    ASSUME DState, NEW s \in Slot, GiveUp(s) \/ Skip(s) \/ Complete(s)
    PROVE  DGood
<1>1. CASE GiveUp(s)
  BY <1>1, ResolvesGood DEF GiveUp, Doing, Outcome
<1>2. CASE Skip(s)
  BY <1>2, ResolvesGood DEF Skip, Doing, Outcome
<1>3. CASE Complete(s)
  <2>1. At(s, "sending") /\ task[s].at = "part" /\ task[s].part > Parts
    BY <1>3 DEF Complete, Doing
  <2>2. /\ Knows(task[s], rcp[RunOf(s)], got[RunOf(s)]) /\ task[s] \in Task
        /\ got[RunOf(s)] \in [Admin -> SUBSET Part]
    BY <2>1, SenderFacts
  <2>3. Current(s) \in Admin
    BY <2>1, <2>2, InHandFacts DEF Knows
  <2>4. 1..(task[s].part - 1) \subseteq got[RunOf(s)][Current(s)]
    BY <2>1, <2>2 DEF Knows, InHand, Current
  <2>5. Part \subseteq 1..(task[s].part - 1)
    BY <2>1, <2>2, DeliveryAssumption DEF Part, Task
  <2>6. got[RunOf(s)][Current(s)] = Part
    BY <2>2, <2>3, <2>4, <2>5
  <2> QED BY <1>3, <2>1, <2>6, ResolvesGood DEF Complete, Outcome
<1> QED BY <1>1, <1>2, <1>3

LEMMA RecordErrorGood ==
    ASSUME DState, NEW s \in Slot, RecordError(s)
    PROVE  DGood
<1>1. At(s, "sending") /\ task[s].at \in {"transient", "permanent"}
  BY DEF RecordError, Doing
<1> DEFINE final == Doing(s, "permanent") \/ Copy(s).tries >= MaxAttempts
<1>2. CASE final
  BY <1>1, <1>2, ResolvesGood DEF RecordError, Outcome
<1>3. CASE ~final
  <2> DEFINE db == [rcp[RunOf(s)][Current(s)] EXCEPT !.due = FALSE]
             copy == Resolved(Copy(s), "PENDING")
  <2>1. Saves(s, db, copy)
    BY <1>3 DEF RecordError
  <2>2. task[s].todo # {} /\ Copy(s) = task[s].rows[Current(s)] /\ Copy(s).status = "PENDING"
    BY <1>1, SenderFacts DEF Knows, Copy, Current
  <2>3. /\ Current(s) \in Admin /\ Copy(s) \in Recipient
        /\ rcp[RunOf(s)][Current(s)] \in Recipient
        /\ rcp[RunOf(s)][Current(s)].status # "ABSENT"
    BY <1>1, <2>2, InHandFacts
  <2> PICK rec \in Recipient : rec = rcp[RunOf(s)][Current(s)]
    BY <2>3
  <2>4. /\ db \in Recipient /\ db.status = rec.status /\ db.next = rec.next
        /\ db.tries = rec.tries
    BY DEF Recipient
  <2>5. copy \in Recipient /\ copy.next = Copy(s).next
    BY <2>3, ResolvedForm DEF DeliveryStatus
  <2>6. Truthful(rec, got[RunOf(s)][Current(s)])
    BY <1>1, <2>3, SenderFacts
  <2>7. Stalling = {} => copy = db
    <3>1. Stalling = {} => Copy(s) = rec
      BY <1>1, <2>2, SenderAgrees DEF Agrees
    <3>2. Resolved(Copy(s), "PENDING") = [Copy(s) EXCEPT !.due = FALSE]
      BY <2>2, <2>3, PendingForm
    <3> QED BY <3>1, <3>2
  <2> HIDE DEF db, copy
  <2>8. Truthful(db, got[RunOf(s)][Current(s)])
    BY <2>3, <2>4, <2>6 DEF Truthful
  <2> QED BY <1>1, <2>1, <2>4, <2>5, <2>7, <2>8, SavesGood
<1> QED BY <1>2, <1>3

-----------------------------------------------------------------------------
(* The selection of the recipients                                         *)

LEMMA SelectedForm ==
    ASSUME NEW a \in Admin, NEW rec \in Recipient, NEW parts, Truthful(rec, parts)
    PROVE  LET new == SelectedRow(a, rec) IN
           /\ new \in Recipient /\ new.next = rec.next /\ new.tries = rec.tries
           /\ Truthful(new, parts)
           /\ new.status = "ABSENT" => rec.status = "ABSENT" /\ a \notin entitled
           /\ new.status = "SUCCEEDED" <=> rec.status = "SUCCEEDED"
           /\ new.status = "FAILED" => rec.status = "FAILED"
           /\ rec.status = "SKIPPED" => new.status = "SKIPPED"
           /\ new.status = "SKIPPED" => rec.status \in {"SKIPPED", "PENDING", "FAILED"}
<1> DEFINE new == SelectedRow(a, rec)
<1>1. CASE rec.status = "ABSENT" /\ a \in entitled
  <2>1. new = Fresh /\ rec = Unselected
    BY <1>1 DEF SelectedRow, Truthful
  <2>2. Fresh \in Recipient
    BY DeliveryAssumption DEF Fresh, Recipient, DeliveryStatus
  <2> QED BY <1>1, <2>1, <2>2 DEF Fresh, Unselected, Truthful
<1>2. CASE /\ ~(rec.status = "ABSENT" /\ a \in entitled)
           /\ a \in entitled \/ rec.status \in {"ABSENT", "SUCCEEDED"}
  <2>1. new = rec
    BY <1>2 DEF SelectedRow
  <2> QED BY <1>2, <2>1
<1>3. CASE a \notin entitled /\ rec.status \notin {"ABSENT", "SUCCEEDED"}
  <2>1. new = Resolved(rec, "SKIPPED")
    BY <1>3 DEF SelectedRow
  <2>2. /\ Resolved(rec, "SKIPPED") \in Recipient /\ Resolved(rec, "SKIPPED").status = "SKIPPED"
        /\ Resolved(rec, "SKIPPED").next = rec.next /\ Resolved(rec, "SKIPPED").tries = rec.tries
    BY ResolvedForm DEF DeliveryStatus
  <2>3. rec.status \in {"SKIPPED", "PENDING", "FAILED"}
    BY <1>3 DEF Recipient, DeliveryStatus
  <2> HIDE DEF new
  <2>4. Truthful(new, parts)
    BY <2>1, <2>2 DEF Truthful
  <2> QED BY <2>1, <2>2, <2>3, <2>4 DEF new
<1> QED BY <1>1, <1>2, <1>3

\* What RunLifecycle allows of a selection.
LEMMA SelectionIsSelected ==
    ASSUME NEW rec, NEW old \in [Admin -> Recipient], NEW parts, Summarizes(rec, old),
           \A a \in Admin : Truthful(old[a], parts[a]), NEW rows,
           rows = [a \in Admin |-> SelectedRow(a, old[a])]
    PROVE  Statuses(rows) \in Selections(rec.dlv)
<1>1. \A a \in Admin :
        /\ rows[a] \in Recipient
        /\ rows[a].status = "ABSENT" => old[a].status = "ABSENT"
        /\ rows[a].status = "SUCCEEDED" <=> old[a].status = "SUCCEEDED"
        /\ rows[a].status = "FAILED" => old[a].status = "FAILED"
        /\ old[a].status = "SKIPPED" => rows[a].status = "SKIPPED"
        /\ rows[a].status = "SKIPPED" => old[a].status \in {"SKIPPED", "PENDING", "FAILED"}
  BY SelectedForm
<1>2. Statuses(rows) \in SUBSET DeliveryStatus
  BY <1>1 DEF Statuses, Recipient
<1>3. /\ "SUCCEEDED" \in Statuses(rows) <=> "SUCCEEDED" \in Statuses(old)
      /\ "FAILED" \in Statuses(rows) => "FAILED" \in Statuses(old)
      /\ "SKIPPED" \in Statuses(old) => "SKIPPED" \in Statuses(rows)
  BY <1>1 DEF Statuses
<1>4. "SKIPPED" \in Statuses(rows) =>
        Statuses(old) \intersect {"SKIPPED", "PENDING", "FAILED"} # {}
  BY <1>1 DEF Statuses
<1>5. Statuses(old) # {} => Statuses(rows) # {}
  BY <1>1 DEF Statuses
<1> QED BY <1>2, <1>3, <1>4, <1>5 DEF Selections, Summarizes

LEMMA SelectGood ==
    ASSUME DState, NEW s \in Slot, SelectRecipients(s)
    PROVE  DGood
<1>1. IInv /\ Wellformed /\ DetailTypeOK /\ ~At(s, "idle") /\ At(s, "select")
  BY DEF DState, DInv, Wellformed, SelectRecipients, At
<1>2. RunOf(s) \in Run /\ row[RunOf(s)] \in Row
  BY <1>1, TaskFacts
<1> PICK r \in Run : r = RunOf(s)
  BY <1>2
<1> DEFINE rows == [a \in Admin |-> SelectedRow(a, rcp[r][a])]
           t    == [at |-> "next", rows |-> rows, todo |-> entitled, part |-> 0]
<1>3. /\ job[s].dir # NoBuild /\ row[r].final /\ spool[r][job[s].dir] # "none"
      /\ rcp' = [rcp EXCEPT ![r] = rows]
      /\ WritesRow(r, [row[r] EXCEPT !.dlv = Statuses(rows)])
      /\ task' = [task EXCEPT ![s] = t]
      /\ Goto(s, "sending")
      /\ UNCHANGED <<spool, locked, proc, ws, entitled, got, sent>>
  BY DEF SelectRecipients
<1>4. /\ rcp[r] \in [Admin -> Recipient] /\ Summarizes(row[r], rcp[r])
      /\ \A a \in Admin : Truthful(rcp[r][a], got[r][a])
  BY <1>1 DEF Wellformed, DetailTypeOK, RowsSummarize, RowsTruthful
<1>5. \A a \in Admin :
        /\ rows[a] \in Recipient
        /\ rows[a].next = rcp[r][a].next /\ rows[a].tries = rcp[r][a].tries
        /\ Truthful(rows[a], got[r][a])
        /\ rows[a].status = "ABSENT" => rcp[r][a].status = "ABSENT" /\ a \notin entitled
  BY <1>4, SelectedForm
<1>6. Statuses(rows) \in Selections(row[r].dlv)
  BY <1>4, SelectionIsSelected
<1>7. rows \in [Admin -> Recipient]
  BY <1>5
<1> HIDE DEF rows
<1>8. [Next]_vars
  <2>1. DeliverBegins(s)
    BY <1>1, <1>3, <1>6 DEF DeliverBegins
  <2> QED BY <2>1 DEF Next, Proceeds
<1>9. /\ row'[r].dlv = Statuses(rows) /\ row'[r].status = row[r].status
      /\ \A q \in Run \ {r} : row'[q] = row[q]
  BY <1>1, <1>2, <1>3 DEF WritesRow, IInv, RowsInv, Row
<1>10. /\ job'[s].pc = "sending" /\ job'[s].run = r
       /\ \A u \in Slot \ {s} : job'[u] = job[u]
  BY <1>1, <1>3 DEF Goto, RunOf, IInv, RestInv, Job
<1>11. t \in Task
  BY <1>1, <1>7, DeliveryAssumption DEF Task, Phase, DetailTypeOK
<1>12. DetailTypeOK'
  BY <1>1, <1>3, <1>7, <1>11 DEF DetailTypeOK
<1>13. /\ rcp'[r] = rows /\ got' = got /\ sent' = sent /\ task'[s] = t
       /\ \A q \in Run \ {r} : rcp'[q] = rcp[q]
       /\ \A u \in Slot \ {s} : task'[u] = task[u]
  BY <1>1, <1>3 DEF DetailTypeOK
<1>14. row[r].status # "ABSENT"
  BY <1>1 DEF Wellformed, TasksHaveRows, At, RunOf
<1>15. RowsSummarize'
  <2> SUFFICES ASSUME NEW q \in Run PROVE Summarizes(row'[q], rcp'[q])
    BY DEF RowsSummarize, Statuses, Summarizes
  <2>1. CASE q = r
    <3>1. Summarizes(row'[r], rows)
      BY <1>9, <1>14 DEF Summarizes
    <3> QED BY <1>13, <2>1, <3>1
  <2>2. CASE q # r
    BY <1>1, <1>9, <1>13, <2>2 DEF Wellformed, RowsSummarize
  <2> QED BY <2>1, <2>2
<1>16. RowsTruthful'
  <2> SUFFICES ASSUME NEW q \in Run, NEW b \in Admin PROVE Truthful(rcp'[q][b], got[q][b])
    BY <1>13 DEF RowsTruthful
  <2> QED BY <1>1, <1>5, <1>13 DEF Wellformed, RowsTruthful
<1>17. TasksHaveRows'
  <2> SUFFICES ASSUME NEW u \in Slot, job'[u].pc # "idle" \/ job'[u].beat
               PROVE  row'[job'[u].run].status # "ABSENT"
    BY DEF TasksHaveRows
  <2>1. CASE u = s
    BY <1>9, <1>10, <1>14, <2>1
  <2>2. CASE u # s
    BY <1>1, <1>9, <1>10, <2>2 DEF Wellformed, TasksHaveRows, IInv, RestInv, JobsHaveRuns
  <2> QED BY <2>1, <2>2
<1>18. SendersKnow'
  <2> SUFFICES ASSUME NEW u \in Slot, job'[u].pc = "sending"
               PROVE  Knows(task'[u], rcp'[job'[u].run], got[job'[u].run])
    BY <1>13 DEF SendersKnow
  <2>1. CASE u = s
    <3>1. Knows(t, rows, got[r])
      BY <1>1, <1>5 DEF Knows, InHand, DetailTypeOK, Truthful
    <3> QED BY <1>10, <1>13, <2>1, <3>1
  <2>2. CASE u # s
    <3>1. PICK q \in Run : q = job[u].run
      BY <1>1, <1>10, <2>2 DEF IInv, RestInv, JobsHaveRuns
    <3>2. Knows(task[u], rcp[q], got[q]) /\ job'[u].run = q /\ task'[u] = task[u]
      BY <1>1, <1>10, <1>13, <2>2, <3>1 DEF Wellformed, SendersKnow
    <3>3. CASE q = r
      <4>1. task[u].todo \subseteq Admin
        BY <1>1 DEF DetailTypeOK, Task
      <4>2. Knows(task[u], rows, got[q])
        BY <1>5, <3>2, <3>3, <4>1 DEF Knows, InHand
      <4> QED BY <1>13, <3>2, <3>3, <4>2
    <3> QED BY <1>13, <3>2, <3>3
  <2> QED BY <2>1, <2>2
<1>19. ASSUME Stalling = {} PROVE Exact'
  <2>1. EInv /\ locked # r
    BY <1>1, <1>19, TaskKnows DEF DState, EInv
  <2>2. \A u \in Slot \ {s} : job[u].run # r
    BY <2>1, RunRowsAssumption DEF EInv, CInv, SingleExecutor, RunOf
  <2>3. ASSUME NEW q \in Run PROVE row'[q].dlv = Statuses(rcp'[q])
    BY <1>9, <1>13, <2>1 DEF EInv, Exact
  <2>4. ASSUME NEW q \in Run, NEW b \in Admin
        PROVE  Budgeted(rcp'[q][b], got'[q][b], sent'[q][b])
    <3>1. Budgeted(rcp[q][b], got[q][b], sent[q][b])
      BY <2>1 DEF EInv, Exact
    <3>2. rcp'[q][b].next = rcp[q][b].next /\ rcp'[q][b].tries = rcp[q][b].tries
      BY <1>5, <1>13
    <3>3. Budgeted(rcp'[q][b], got[q][b], sent[q][b])
      BY <3>1, <3>2 DEF Budgeted
    <3> QED BY <1>13, <3>3
  <2>5. ASSUME NEW u \in Slot, job'[u].pc = "sending"
        PROVE  Agrees(task'[u], rcp'[job'[u].run])
    <3>1. CASE u = s
      <4>1. Agrees(t, rows)
        BY DEF Agrees, InHand
      <4> QED BY <1>10, <1>13, <3>1, <4>1
    <3>2. CASE u # s
      <4>1. job[u].run \in Run \ {r} /\ job'[u].run = job[u].run /\ task'[u] = task[u]
        BY <1>1, <1>10, <1>13, <2>2, <2>5, <3>2 DEF IInv, RestInv, JobsHaveRuns
      <4>2. Agrees(task[u], rcp[job[u].run])
        BY <1>10, <2>1, <2>5, <3>2 DEF EInv, Exact
      <4> QED BY <1>13, <4>1, <4>2
    <3> QED BY <3>1, <3>2
  <2>6. locked' # NoRun => "FAILED" \in row'[locked'].dlv
    BY <1>1, <1>3, <1>9, <2>1 DEF EInv, Exact, IInv, RestInv
  <2> QED BY <2>3, <2>4, <2>5, <2>6 DEF Exact
<1>20. HeldHasRows'
  <2> SUFFICES ASSUME locked # NoRun PROVE row'[locked].dlv # {}
    BY <1>3 DEF HeldHasRows
  <2>1. locked \in Run /\ row[locked].dlv # {} /\ Summarizes(row[locked], rcp[locked])
    BY <1>1 DEF IInv, RestInv, Wellformed, HeldHasRows, RowsSummarize
  <2>2. CASE locked = r
    <3>1. PICK b \in Admin : rcp[r][b].status # "ABSENT"
      BY <2>1, <2>2 DEF Summarizes, Statuses
    <3>2. Statuses(rows) # {}
      BY <1>5, <3>1 DEF Statuses
    <3> QED BY <1>9, <2>2, <3>2
  <2> QED BY <1>9, <2>1, <2>2
<1> QED BY <1>8, <1>12, <1>15, <1>16, <1>17, <1>18, <1>19, <1>20 DEF Wellformed, Kept, DGood

-----------------------------------------------------------------------------
(* The end of an attempt                                                   *)

LEMMA ResultsJudged ==
    ASSUME DState, NEW s \in Slot, At(s, "sending")
    PROVE  Results(s) \in Judged(s)
<1>1. task[s].rows \in [Admin -> Recipient]
  BY SenderFacts DEF Task
<1>2. Results(s) \subseteq DeliveryStatus
  BY <1>1, StatusesAreStatuses DEF Results
<1>3. Stalling = {} => Results(s) = row[RunOf(s)].dlv
  BY SenderAgrees DEF Agrees, Results
<1> QED BY <1>2, <1>3 DEF Judged

LEMMA FinishGood ==
    ASSUME DState, NEW s \in Slot, FinishPending(s) \/ FinishFailed(s) \/ FinishSucceeded(s)
    PROVE  DGood
<1>1. /\ At(s, "sending") /\ InCharge(s) /\ Forget /\ UNCHANGED <<rcp, entitled, got, sent>>
      /\ row[RunOf(s)].status = "DELIVERY_PENDING" /\ UNCHANGED <<spool, locked, proc, ws>>
  BY DEF FinishPending, FinishFailed, FinishSucceeded, LoopOver, Doing, Keep, Finishes
<1>2. Results(s) \in Judged(s)
  BY <1>1, ResultsJudged
<1>3. row[RunOf(s)] \in Row
  BY <1>1, SenderFacts
<1>4. Ends(s)
  <2>1. CASE FinishPending(s)
    <3>1. [Released(row[RunOf(s)]) EXCEPT !.status = "DELIVERY_PENDING"]
            = Released(row[RunOf(s)])
      BY <1>1, <1>3 DEF Released, Row
    <3> QED BY <1>1, <1>2, <2>1, <3>1 DEF FinishPending, Keep, Finishes, EndPending, Ends
  <2>2. CASE FinishFailed(s)
    BY <1>1, <1>2, <2>2 DEF FinishFailed, Keep, Finishes, EndFailed, Ends
  <2>3. CASE FinishSucceeded(s)
    BY <1>1, <1>2, <2>3 DEF FinishSucceeded, Keep, Finishes, EndSucceeded, Ends
  <2> QED BY <2>1, <2>2, <2>3
<1>5. Detached /\ [Next]_vars
  BY <1>4, EndsDetached DEF DState, DInv, Next, Proceeds
<1> QED BY <1>1, <1>5, KeepGood

\* The steps that the details only accompany.
LEMMA AccompaniedGood ==
    ASSUME DState,
           \/ Keep(World)
           \/ \E s \in Slot, r \in Run : ClaimDue(s, r)
           \/ \E s \in Slot : \/ Keep(Builds(s)) \/ Keep(Handles(s)) \/ StopsAtBoundary(s)
                              \/ Keep(Breaks(s)) \/ Keep(Beats(s))
    PROVE  DGood
<1>1. Forget /\ UNCHANGED <<rcp, entitled, got, sent>>
  BY DEF Keep, ClaimDue, StopsAtBoundary
<1>2. IInv
  BY DEF DState, DInv
<1>3. CASE Keep(World)
  <2>1. Detached /\ [Next]_vars
    BY <1>2, <1>3, WorldDetached DEF Keep, Next
  <2> QED BY <1>1, <2>1, KeepGood
<1>4. CASE \E s \in Slot, r \in Run : ClaimDue(s, r)
  <2> PICK s \in Slot, r \in Run : ClaimDue(s, r)
    BY <1>4
  <2>1. Detached /\ [Next]_vars
    BY <1>2, ClaimDetached DEF ClaimDue, Keep, Next
  <2> QED BY <1>1, <2>1, KeepGood
<1>5. CASE \E s \in Slot : Keep(Builds(s)) \/ Keep(Handles(s)) \/ StopsAtBoundary(s)
  <2> PICK s \in Slot : Keep(Builds(s)) \/ Keep(Handles(s)) \/ StopsAtBoundary(s)
    BY <1>5
  <2>1. Builds(s) \/ Handles(s) \/ Stops(s)
    BY DEF Keep, StopsAtBoundary
  <2>2. Detached /\ [Next]_vars
    BY <1>2, <2>1, BuildsDetached, HandlesDetached, EndsDetached DEF Next, Proceeds
  <2> QED BY <1>1, <2>2, KeepGood
<1>6. CASE \E s \in Slot : Keep(Breaks(s)) \/ Keep(Beats(s))
  <2> PICK s \in Slot : Keep(Breaks(s)) \/ Keep(Beats(s))
    BY <1>6
  <2>1. Breaks(s) \/ Beats(s)
    BY DEF Keep
  <2>2. Detached
    BY <1>2, <2>1, EndsDetached, BeatsDetached DEF Breaks
  <2>3. [Next]_vars
    BY <2>1 DEF Next
  <2> QED BY <1>1, <2>2, <2>3, KeepGood
<1> QED BY <1>3, <1>4, <1>5, <1>6

-----------------------------------------------------------------------------
(* The world around a delivery                                             *)

LEMMA EntitleGood ==
    ASSUME DState, NEW a \in Admin, Entitle(a)
    PROVE  DGood
<1>1. UNCHANGED <<row, spool, locked, proc, ws, job, rcp, task, got, sent>>
  BY DEF Entitle
<1>2. entitled' \in SUBSET Admin
  BY DEF Entitle, DState, DInv, Wellformed, DetailTypeOK
<1>3. Wellformed'
  <2>1. DetailTypeOK'
    BY <1>1, <1>2 DEF DState, DInv, Wellformed, DetailTypeOK
  <2>2. RowsSummarize'
    BY <1>1 DEF DState, DInv, Wellformed, RowsSummarize, Summarizes, Statuses
  <2>3. RowsTruthful' /\ TasksHaveRows' /\ SendersKnow' /\ HeldHasRows'
    BY <1>1 DEF DState, DInv, Wellformed, RowsTruthful, TasksHaveRows, SendersKnow, HeldHasRows
  <2> QED BY <2>1, <2>2, <2>3 DEF Wellformed
<1>4. Stalling = {} => Exact'
  BY <1>1 DEF DState, EInv, Exact, Statuses
<1> QED BY <1>1, <1>3, <1>4 DEF DGood, Kept, vars

LEMMA BecomesDueGood ==
    ASSUME DState, NEW r \in Run, NEW a \in Admin, BecomesDue(r, a)
    PROVE  DGood
<1>1. IInv /\ Wellformed /\ DetailTypeOK
  BY DEF DState, DInv, Wellformed
<1>2. UNCHANGED <<row, spool, locked, proc, ws, job, entitled, got, sent>>
  BY DEF BecomesDue
<1> DEFINE rec == [rcp[r][a] EXCEPT !.due = TRUE]
<1>3. /\ rec \in Recipient /\ rec.status = rcp[r][a].status /\ rec.next = rcp[r][a].next
      /\ rec.tries = rcp[r][a].tries /\ rec.status = "PENDING"
  <2> PICK old \in Recipient : old = rcp[r][a]
    BY <1>1 DEF DetailTypeOK
  <2>1. old.status = "PENDING"
    BY DEF BecomesDue
  <2> QED BY <2>1 DEF Recipient
<1>4. rcp' = [rcp EXCEPT ![r][a] = rec]
  BY <1>1 DEF BecomesDue, DetailTypeOK
<1> HIDE DEF rec
<1>5. /\ rcp' \in [Run -> [Admin -> Recipient]] /\ rcp'[r] = [rcp[r] EXCEPT ![a] = rec]
      /\ \A q \in Run, b \in Admin : ~(q = r /\ b = a) => rcp'[q][b] = rcp[q][b]
      /\ rcp'[r][a] = rec
  BY <1>1, <1>3, <1>4, UpdateOne DEF DetailTypeOK
<1>6. \A q \in Run, b \in Admin :
        /\ rcp'[q][b].status = rcp[q][b].status /\ rcp'[q][b].next = rcp[q][b].next
        /\ rcp'[q][b].tries = rcp[q][b].tries
        /\ rcp[q][b].status = "ABSENT" => rcp'[q][b] = rcp[q][b]
  BY <1>3, <1>5
<1>7. \A q \in Run : Statuses(rcp'[q]) = Statuses(rcp[q])
  BY <1>6 DEF Statuses
<1>8. ASSUME NEW s \in Slot
      PROVE  /\ task'[s] \in Task
             /\ task'[s].at = task[s].at /\ task'[s].todo = task[s].todo
             /\ task'[s].part = task[s].part
             /\ \A b \in Admin : /\ task'[s].rows[b].status = task[s].rows[b].status
                                 /\ task'[s].rows[b].next = task[s].rows[b].next
                                 /\ task'[s].rows[b].tries = task[s].rows[b].tries
             /\ ~(At(s, "sending") /\ RunOf(s) = r) => task'[s] = task[s]
             /\ At(s, "sending") /\ RunOf(s) = r =>
                  task'[s].rows = [task[s].rows EXCEPT ![a].due = TRUE]
  <2>1. task[s] \in Task
    BY <1>1 DEF DetailTypeOK
  <2>2. task'[s] = IF At(s, "sending") /\ RunOf(s) = r
                     THEN [task[s] EXCEPT !.rows[a].due = TRUE] ELSE task[s]
    BY DEF BecomesDue
  <2> DEFINE rows == [task[s].rows EXCEPT ![a].due = TRUE]
             t    == [task[s] EXCEPT !.rows = rows]
  <2>3. task[s].rows \in [Admin -> Recipient]
    BY <2>1 DEF Task
  <2> DEFINE copy == [task[s].rows[a] EXCEPT !.due = TRUE]
  <2>4. /\ copy \in Recipient /\ copy.status = task[s].rows[a].status
        /\ copy.next = task[s].rows[a].next /\ copy.tries = task[s].rows[a].tries
    BY <2>3 DEF Recipient
  <2> HIDE DEF copy
  <2>5. rows = [task[s].rows EXCEPT ![a] = copy]
    BY <2>3 DEF copy
  <2>6. /\ rows \in [Admin -> Recipient]
        /\ \A b \in Admin : /\ rows[b].status = task[s].rows[b].status
                            /\ rows[b].next = task[s].rows[b].next
                            /\ rows[b].tries = task[s].rows[b].tries
    BY <2>3, <2>4, <2>5
  <2> HIDE DEF rows
  <2>7. /\ t \in Task /\ t.at = task[s].at /\ t.todo = task[s].todo /\ t.part = task[s].part
        /\ t.rows = rows
    BY <2>1, <2>6 DEF Task
  <2>8. [task[s] EXCEPT !.rows[a].due = TRUE] = t
    BY <2>1 DEF Task, rows
  <2> QED BY <2>1, <2>2, <2>6, <2>7, <2>8 DEF rows
<1>9. DetailTypeOK'
  <2>1. task' \in [Slot -> Task]
    BY <1>8 DEF BecomesDue
  <2> QED BY <1>1, <1>2, <1>5, <2>1 DEF DetailTypeOK
<1>10. RowsSummarize' /\ RowsTruthful' /\ TasksHaveRows' /\ HeldHasRows'
  <2>1. ASSUME NEW q \in Run PROVE Summarizes(row'[q], rcp'[q])
    BY <1>1, <1>2, <1>7 DEF Wellformed, RowsSummarize, Summarizes
  <2>2. ASSUME NEW q \in Run, NEW b \in Admin PROVE Truthful(rcp'[q][b], got[q][b])
    BY <1>1, <1>6 DEF Wellformed, RowsTruthful, Truthful
  <2>3. TasksHaveRows' /\ HeldHasRows'
    BY <1>1, <1>2 DEF Wellformed, TasksHaveRows, HeldHasRows
  <2> QED BY <1>2, <2>1, <2>2, <2>3 DEF RowsSummarize, RowsTruthful, Statuses, Summarizes
<1>11. SendersKnow'
  <2> SUFFICES ASSUME NEW s \in Slot, job[s].pc = "sending"
               PROVE  Knows(task'[s], rcp'[job[s].run], got[job[s].run])
    BY <1>2 DEF SendersKnow
  <2>1. PICK q \in Run : q = job[s].run
    BY <1>1 DEF IInv, RestInv, JobsHaveRuns
  <2>2. Knows(task[s], rcp[q], got[q]) /\ task[s] \in Task
    BY <1>1, <2>1 DEF Wellformed, SendersKnow, DetailTypeOK
  <2>3. task[s].todo \in SUBSET Admin
    BY <2>2 DEF Task
  <2>4. task[s].at \notin {"none", "next"} => First(task[s].todo) \in Admin
    BY <2>2, <2>3, FirstIsMember DEF Knows
  <2>5. Knows(task'[s], rcp'[q], got[q])
    <3> PICK old \in Task : old = task[s]
      BY <2>2
    <3> PICK new \in Task : new = task'[s]
      BY <1>8
    <3>1. /\ new.at = old.at /\ new.todo = old.todo /\ new.part = old.part
          /\ \A b \in Admin : /\ new.rows[b].status = old.rows[b].status
                              /\ new.rows[b].next = old.rows[b].next
                              /\ new.rows[b].tries = old.rows[b].tries
      BY <1>8
    <3>2. Knows(new, rcp'[q], got[q])
      BY <1>6, <2>2, <2>3, <2>4, <3>1 DEF Knows, InHand
    <3> QED BY <3>2
  <2> QED BY <2>1, <2>5
<1>12. ASSUME Stalling = {} PROVE Exact'
  <2>1. EInv
    BY <1>12 DEF DState
  <2>2. ASSUME NEW q \in Run, NEW b \in Admin PROVE Budgeted(rcp'[q][b], got[q][b], sent[q][b])
    BY <1>6, <2>1 DEF EInv, Exact, Budgeted
  <2>3. ASSUME NEW s \in Slot, job[s].pc = "sending" PROVE Agrees(task'[s], rcp'[job[s].run])
    <3>1. PICK q \in Run : q = job[s].run
      BY <1>1, <2>3 DEF IInv, RestInv, JobsHaveRuns
    <3>2. Agrees(task[s], rcp[q]) /\ task[s] \in Task
      BY <1>1, <2>1, <2>3, <3>1 DEF EInv, Exact, DetailTypeOK
    <3>3. task'[s].rows = rcp'[q]
      <4>1. CASE q = r
        <5>1. task'[s].rows = [task[s].rows EXCEPT ![a].due = TRUE] /\ task[s].rows = rcp[r]
          BY <1>8, <2>3, <3>1, <3>2, <4>1 DEF Agrees, At, RunOf
        <5>2. rcp[r] \in [Admin -> Recipient]
          BY <1>1 DEF DetailTypeOK
        <5>3. [rcp[r] EXCEPT ![a].due = TRUE] = [rcp[r] EXCEPT ![a] = rec]
          BY <5>2 DEF rec
        <5> QED BY <1>5, <4>1, <5>1, <5>3
      <4>2. CASE q # r
        <5>1. rcp'[q] = rcp[q]
          BY <1>1, <1>4, <4>2 DEF DetailTypeOK
        <5> QED BY <1>8, <3>1, <3>2, <4>2, <5>1 DEF Agrees, RunOf
      <4> QED BY <4>1, <4>2
    <3>4. task[s].todo \in SUBSET Admin /\ Knows(task[s], rcp[q], got[q])
      BY <1>1, <2>3, <3>1, <3>2 DEF Wellformed, SendersKnow, Task
    <3>5. task[s].at \in InHand => First(task[s].todo) \in Admin
      BY <3>4, FirstIsMember DEF Knows, InHand
    <3>6. Agrees(task'[s], rcp'[q])
      <4> PICK old \in Task : old = task[s]
        BY <3>2
      <4> PICK new \in Task : new = task'[s]
        BY <1>8
      <4>1. new.at = old.at /\ new.todo = old.todo /\ new.part = old.part
        BY <1>8
      <4>2. Agrees(new, rcp'[q])
        BY <1>6, <3>2, <3>3, <3>5, <4>1 DEF Agrees
      <4> QED BY <4>2
    <3> QED BY <3>1, <3>6
  <2> QED BY <1>2, <1>7, <2>1, <2>2, <2>3 DEF EInv, Exact
<1>13. [Next]_vars
  BY <1>2 DEF vars
<1> QED BY <1>9, <1>10, <1>11, <1>12, <1>13 DEF Wellformed, Kept, DGood

\* What a retry that the index admits does to the row of one recipient.
LEMMA RenewedForm ==
    ASSUME NEW rec \in Recipient, rec.status = "FAILED"
    PROVE  /\ Renewed(rec) \in Recipient /\ Renewed(rec).status = "PENDING"
           /\ Renewed(rec).next = rec.next /\ Renewed(rec).tries = 0
<1>1. 0 \in 0..MaxAttempts
  BY DeliveryAssumption
<1> QED BY <1>1 DEF Renewed, Recipient, DeliveryStatus

\* Rows in which those that failed are pending again.
LEMMA RenewedStatuses ==
    ASSUME NEW old, NEW new,
           \A a \in Admin : new[a].status = IF old[a].status = "FAILED" THEN "PENDING"
                                            ELSE old[a].status
    PROVE  /\ Statuses(new) \union {"PENDING"} = (Statuses(old) \ {"FAILED"}) \union {"PENDING"}
           /\ "FAILED" \in Statuses(old) => "PENDING" \in Statuses(new)
           /\ Statuses(old) # {} => Statuses(new) # {}
<1>1. \A x : x \notin {"PENDING", "FAILED"} => (x \in Statuses(new) <=> x \in Statuses(old))
  BY DEF Statuses
<1>2. "FAILED" \notin Statuses(new)
  BY DEF Statuses
<1>3. "FAILED" \in Statuses(old) => "PENDING" \in Statuses(new)
  BY DEF Statuses
<1>4. Statuses(old) # {} => Statuses(new) # {}
  BY DEF Statuses
<1> QED BY <1>1, <1>2, <1>3, <1>4

\* A retry that the index refuses, or that finds the row changed.
LEMMA RetryRefused ==
    ASSUME DState, Retry, UNCHANGED row
    PROVE  DGood
<1>1. IInv /\ locked \in Run /\ DetailTypeOK
  BY DEF DState, DInv, IInv, RestInv, Wellformed, Retry, RetryCommits
<1>2. rcp' = [rcp EXCEPT ![locked] = [a \in Admin |-> rcp[locked][a]]]
  BY <1>1 DEF Retry, RetryResets, DetailTypeOK
<1>3. sent' = [sent EXCEPT ![locked] = [a \in Admin |-> sent[locked][a]]]
  BY <1>1 DEF Retry, RetryResets, DetailTypeOK
<1>4. UNCHANGED <<rcp, entitled, got, sent>> /\ Forget
  BY <1>1, <1>2, <1>3 DEF Retry, DetailTypeOK
<1>5. locked' = NoRun /\ Unattended /\ [Next]_vars
  BY DEF Retry, RetryCommits, Next
<1>6. Detached
  BY <1>1, <1>5, SameRowsKept, SameTasksKept DEF Unattended, Detached, HoldKept
<1> QED BY <1>4, <1>5, <1>6, KeepGood

\* A retry that commits.
LEMMA RetryRenews ==
    ASSUME DState, Retry, row' # row
    PROVE  DGood
<1>1. /\ IInv /\ Wellformed /\ DetailTypeOK
      /\ row[locked].status = "FAILED" /\ row[locked].owner = NoProc
      /\ WritesRow(locked, RetriedRow(locked)) /\ locked # NoRun /\ locked' = NoRun
      /\ UNCHANGED <<proc, ws, job, entitled, got>> /\ Forget
  BY DEF DState, DInv, Wellformed, Retry, RetryCommits, Unattended
<1> PICK r \in Run : r = locked
  BY <1>1 DEF IInv, RestInv
<1>2. row[r] \in Row /\ rcp[r] \in [Admin -> Recipient] /\ Summarizes(row[r], rcp[r])
  BY <1>1 DEF IInv, RowsInv, DetailTypeOK, Wellformed, RowsSummarize
<1> DEFINE rows  == [a \in Admin |-> IF rcp[r][a].status = "FAILED" THEN Renewed(rcp[r][a])
                                     ELSE rcp[r][a]]
           sends == [a \in Admin |-> IF rcp[r][a].status = "FAILED" THEN [k \in Part |-> 0]
                                     ELSE sent[r][a]]
<1>3. rcp' = [rcp EXCEPT ![r] = rows] /\ sent' = [sent EXCEPT ![r] = sends]
  BY <1>1 DEF Retry, RetryResets, DetailTypeOK
<1>4. \A a \in Admin :
        /\ rows[a] \in Recipient
        /\ rows[a].status = IF rcp[r][a].status = "FAILED" THEN "PENDING" ELSE rcp[r][a].status
        /\ rows[a].next = rcp[r][a].next
        /\ rcp[r][a].status # "FAILED" => rows[a] = rcp[r][a]
        /\ rcp[r][a].status = "FAILED" => rows[a].tries = 0
  BY <1>2, RenewedForm
<1>5. \A a \in Admin :
        /\ sends[a] \in [Part -> Nat]
        /\ rcp[r][a].status # "FAILED" => sends[a] = sent[r][a]
        /\ rcp[r][a].status = "FAILED" => \A k \in Part : sends[a][k] = 0
  BY <1>1 DEF DetailTypeOK
<1>6. rows \in [Admin -> Recipient] /\ sends \in [Admin -> [Part -> Nat]]
  BY <1>4, <1>5
<1> HIDE DEF rows, sends
<1>7. /\ rcp' \in [Run -> [Admin -> Recipient]] /\ sent' \in [Run -> [Admin -> [Part -> Nat]]]
      /\ rcp'[r] = rows /\ sent'[r] = sends
      /\ \A q \in Run \ {r} : rcp'[q] = rcp[q] /\ sent'[q] = sent[q]
  BY <1>1, <1>3, <1>6 DEF DetailTypeOK
<1>8. /\ row'[r].status = "DELIVERY_PENDING"
      /\ row'[r].dlv = (row[r].dlv \ {"FAILED"}) \union {"PENDING"}
      /\ \A q \in Run \ {r} : row'[q] = row[q]
  BY <1>1, <1>2 DEF WritesRow, RetriedRow, IInv, RowsInv, Row
<1>9. \A s \in Slot : /\ task'[s] \in {task[s], NoTask}
                      /\ job[s].pc = "sending" => task'[s] = task[s]
  BY <1>1 DEF Forget
<1>10. DetailTypeOK'
  <2>1. NoTask \in Task
    BY NoTaskIsTask
  <2>2. task' \in [Slot -> Task]
    BY <1>1, <1>9, <2>1 DEF DetailTypeOK, Forget
  <2> QED BY <1>1, <1>7, <2>2 DEF DetailTypeOK
<1>11. RowsSummarize'
  <2> SUFFICES ASSUME NEW q \in Run PROVE Summarizes(row'[q], rcp'[q])
    BY DEF RowsSummarize, Statuses, Summarizes
  <2>1. CASE q = r
    <3>1. /\ Statuses(rows) \union {"PENDING"} = (Statuses(rcp[r]) \ {"FAILED"}) \union {"PENDING"}
          /\ Statuses(rcp[r]) # {} => Statuses(rows) # {}
      BY <1>4, RenewedStatuses
    <3>2. Statuses(rcp[r]) # {}
      BY <1>1, <1>2 DEF Wellformed, HeldHasRows, Summarizes
    <3>3. Summarizes(row'[r], rows)
      BY <1>2, <1>8, <3>1, <3>2 DEF Summarizes
    <3> QED BY <1>7, <2>1, <3>3
  <2>2. CASE q # r
    BY <1>1, <1>7, <1>8, <2>2 DEF Wellformed, RowsSummarize
  <2> QED BY <2>1, <2>2
<1>12. RowsTruthful'
  <2> SUFFICES ASSUME NEW q \in Run, NEW a \in Admin PROVE Truthful(rcp'[q][a], got[q][a])
    BY <1>1 DEF RowsTruthful
  <2>1. Truthful(rcp[q][a], got[q][a])
    BY <1>1 DEF Wellformed, RowsTruthful
  <2>2. CASE q = r
    BY <1>4, <1>7, <2>1, <2>2 DEF Truthful
  <2>3. CASE q # r
    BY <1>7, <2>1, <2>3
  <2> QED BY <2>2, <2>3
<1>13. TasksHaveRows' /\ HeldHasRows'
  <2>1. TasksHaveRows'
    BY <1>1, <1>8 DEF Wellformed, TasksHaveRows, IInv, RestInv, JobsHaveRuns
  <2> QED BY <1>1, <2>1 DEF HeldHasRows
<1>14. SendersKnow'
  <2> SUFFICES ASSUME NEW s \in Slot, job[s].pc = "sending"
               PROVE  Knows(task'[s], rcp'[job[s].run], got[job[s].run])
    BY <1>1 DEF SendersKnow
  <2>1. PICK q \in Run : q = job[s].run
    BY <1>1 DEF IInv, RestInv, JobsHaveRuns
  <2>2. Knows(task[s], rcp[q], got[q]) /\ task[s] \in Task /\ task'[s] = task[s]
    <3>1. task[s] \in Task
      BY <1>1 DEF DetailTypeOK
    <3>2. Knows(task[s], rcp[q], got[q])
      BY <1>1, <2>1 DEF Wellformed, SendersKnow
    <3>3. task'[s] = task[s]
      BY <1>9
    <3> QED BY <3>1, <3>2, <3>3
  <2>3. task[s].todo \subseteq Admin
    BY <2>2 DEF Task
  <2>4. \A a \in Admin : rcp[q][a].status # "ABSENT" => rcp'[q][a].status # "ABSENT"
    BY <1>4, <1>7
  <2>5. Knows(task[s], rcp'[q], got[q])
    BY <2>2, <2>3, <2>4 DEF Knows
  <2> QED BY <2>1, <2>2, <2>5
<1>15. ASSUME Stalling = {} PROVE Exact'
  <2>1. EInv /\ \A s \in Slot : job[s].pc = "sending" => job[s].run # r
    BY <1>1, <1>15, TaskKnows DEF DState, EInv, At, RunOf
  <2>2. ASSUME NEW q \in Run PROVE row'[q].dlv = Statuses(rcp'[q])
    <3>1. CASE q = r
      <4>1. row[r].dlv = Statuses(rcp[r]) /\ "FAILED" \in row[r].dlv
        BY <1>1, <2>1 DEF EInv, Exact
      <4>2. \A a \in Admin :
              rows[a].status = IF rcp[r][a].status = "FAILED" THEN "PENDING" ELSE rcp[r][a].status
        BY <1>4
      <4>3. Statuses(rows) = (Statuses(rcp[r]) \ {"FAILED"}) \union {"PENDING"}
        BY <4>1, <4>2, RenewedStatuses
      <4> QED BY <1>7, <1>8, <3>1, <4>1, <4>3
    <3>2. CASE q # r
      BY <1>7, <1>8, <2>1, <3>2 DEF EInv, Exact
    <3> QED BY <3>1, <3>2
  <2>3. ASSUME NEW q \in Run, NEW a \in Admin PROVE Budgeted(rcp'[q][a], got[q][a], sent'[q][a])
    <3>1. Budgeted(rcp[q][a], got[q][a], sent[q][a])
      BY <2>1 DEF EInv, Exact
    <3>2. CASE q = r /\ rcp[r][a].status = "FAILED"
      <4>1. Budgeted(rows[a], got[r][a], sends[a])
        BY <1>4, <1>5, <3>1, <3>2, DeliveryAssumption DEF Budgeted
      <4> QED BY <1>7, <3>2, <4>1
    <3>3. CASE q = r /\ rcp[r][a].status # "FAILED"
      BY <1>4, <1>5, <1>7, <3>1, <3>3
    <3>4. CASE q # r
      BY <1>7, <3>1, <3>4
    <3> QED BY <3>2, <3>3, <3>4
  <2>4. ASSUME NEW s \in Slot, job[s].pc = "sending" PROVE Agrees(task'[s], rcp'[job[s].run])
    <3> PICK q \in Run \ {r} : q = job[s].run
      BY <1>1, <2>1, <2>4 DEF IInv, RestInv, JobsHaveRuns
    <3>1. Agrees(task[s], rcp[q])
      BY <2>1, <2>4 DEF EInv, Exact
    <3>2. task'[s] = task[s]
      BY <1>9, <2>4
    <3>3. rcp'[q] = rcp[q]
      BY <1>7
    <3> QED BY <3>1, <3>2, <3>3
  <2> QED BY <1>1, <2>2, <2>3, <2>4 DEF Exact
<1>16. [Next]_vars
  BY DEF Retry, Next
<1> QED BY <1>10, <1>11, <1>12, <1>13, <1>14, <1>15, <1>16 DEF Wellformed, Kept, DGood

LEMMA RetryGood == DState /\ Retry => DGood
BY RetryRefused, RetryRenews

-----------------------------------------------------------------------------
(* Every step                                                              *)

LEMMA DeliveringGood ==
    ASSUME DState, NEW s \in Slot, Delivering(s)
    PROVE  DGood
BY SelectGood, NextTurnGood, TakeUpGood, OutcomeGood, CheckGood, AttemptGood, AcceptedGood,
   RefusedGood, RecordErrorGood, RecordGood, FinishGood DEF Delivering

LEMMA DeliveryStepGood ==
    ASSUME DState, [DeliveryNext]_dvars
    PROVE  DGood
<1>1. CASE /\ ~Retry /\ ~(\E s \in Slot : Delivering(s))
           /\ ~(\E a \in Admin : Entitle(a)) /\ ~(\E r \in Run, a \in Admin : BecomesDue(r, a))
           /\ DeliveryNext
  BY <1>1, AccompaniedGood DEF DeliveryNext, TaskStep
<1>2. CASE Retry \/ (\E s \in Slot : Delivering(s)) \/ (\E a \in Admin : Entitle(a))
  BY <1>2, RetryGood, DeliveringGood, EntitleGood
<1>3. CASE \E r \in Run, a \in Admin : BecomesDue(r, a)
  BY <1>3, BecomesDueGood
<1>4. CASE UNCHANGED dvars
  <2>1. DetailTypeOK' /\ RowsTruthful' /\ TasksHaveRows' /\ SendersKnow' /\ HeldHasRows'
    BY <1>4 DEF dvars, DState, DInv, Wellformed, DetailTypeOK, RowsTruthful, TasksHaveRows,
                SendersKnow, HeldHasRows
  <2>2. RowsSummarize'
    BY <1>4 DEF dvars, DState, DInv, Wellformed, RowsSummarize, Summarizes, Statuses
  <2>3. Stalling = {} => Exact'
    BY <1>4 DEF dvars, DState, EInv, Exact, Statuses
  <2> QED BY <1>4, <2>1, <2>2, <2>3 DEF dvars, vars, DGood, Kept, Wellformed
<1> QED BY <1>1, <1>2, <1>3, <1>4

LEMMA DStateHolds == DState /\ [DeliveryNext]_dvars => DState'
<1> SUFFICES ASSUME DState, [DeliveryNext]_dvars PROVE DState'
  OBVIOUS
<1>1. [Next]_vars /\ Kept
  BY DeliveryStepGood DEF DGood
<1>2. IInv'
  BY <1>1, StepKeeps DEF DState, DInv
<1>3. Stalling = {} => CInv'
  BY <1>1, StepGood DEF DState, DInv, EInv, Good
<1> QED BY <1>1, <1>2, <1>3 DEF DState, DInv, EInv, Kept

LEMMA DeliveryBegins == DeliveryInit => DState
<1> SUFFICES ASSUME DeliveryInit PROVE DState
  OBVIOUS
<1>1. IInv /\ CInv
  BY InitEstablishes, InitConsistent DEF DeliveryInit
<1>2. /\ \A r \in Run : row[r].status = "ABSENT" /\ row[r].dlv = {}
      /\ locked = NoRun
      /\ \A s \in Slot : job[s] = Idle
  BY DEF DeliveryInit, Init, RowsInit, NewRow
<1>3. /\ \A r \in Run, a \in Admin : rcp[r][a] = Unselected /\ got[r][a] = {}
      /\ \A r \in Run, a \in Admin, k \in Part : sent[r][a][k] = 0
  BY DEF DeliveryInit
<1>4. Unselected \in Recipient
  BY DeliveryAssumption DEF Unselected, Recipient, DeliveryStatus
<1>5. DetailTypeOK
  BY <1>4, NoTaskIsTask DEF DeliveryInit, DetailTypeOK
<1>6. \A r \in Run : Statuses(rcp[r]) = {}
  <2>1. \A r \in Run, a \in Admin : rcp[r][a].status = "ABSENT"
    BY <1>3 DEF Unselected
  <2> SUFFICES ASSUME NEW r \in Run PROVE Statuses(rcp[r]) = {}
    OBVIOUS
  <2> PICK rows : rows = rcp[r]
    OBVIOUS
  <2>2. \A a \in Admin : rows[a].status = "ABSENT"
    BY <2>1
  <2>3. Statuses(rows) = {}
    BY <2>2 DEF Statuses
  <2> QED BY <2>3
<1>7. RowsSummarize /\ TasksHaveRows /\ SendersKnow /\ HeldHasRows
  BY <1>2, <1>6 DEF RowsSummarize, Summarizes, TasksHaveRows, SendersKnow, HeldHasRows, Idle
<1>8. RowsTruthful
  <2>1. \A parts : Truthful(Unselected, parts)
    BY DEF Truthful, Unselected
  <2> QED BY <1>3, <2>1 DEF RowsTruthful
<1>9. Exact
  <2>1. ASSUME NEW r \in Run, NEW a \in Admin PROVE Budgeted(rcp[r][a], got[r][a], sent[r][a])
    <3>1. Unselected.next = 1 /\ Unselected.tries = 0
      BY DEF Unselected
    <3>2. Budgeted(Unselected, {}, sent[r][a])
      BY <1>3, <3>1, DeliveryAssumption DEF Budgeted
    <3> QED BY <1>3, <3>2
  <2>2. \A s \in Slot : job[s].pc # "sending"
    BY <1>2 DEF Idle
  <2>3. \A r \in Run : row[r].dlv = Statuses(rcp[r])
    BY <1>2, <1>6
  <2> QED BY <1>2, <2>1, <2>2, <2>3 DEF Exact
<1> QED BY <1>1, <1>5, <1>7, <1>8, <1>9 DEF DState, DInv, EInv, Wellformed

-----------------------------------------------------------------------------
(* Theorems                                                                *)

\* Tables, files, tasks and Telegram fit each other in every reachable state: for any
\* workers as far as Wellformed says, exactly where none stalls.
THEOREM DeliveryInvariant == DeliverySpec => []DState
<1> QED BY DeliveryBegins, DStateHolds, PTL DEF DeliverySpec

\* Delivery to several recipients, part by part, does what RunLifecycle says of it, also
\* where stalled workers and their successors overwrite each other's rows.
THEOREM DeliveryImplements == DeliverySpec => ImplementsLifecycle
<1>1. DState /\ [DeliveryNext]_dvars => [Next]_vars
  BY DeliveryStepGood DEF DGood
<1> QED BY <1>1, DeliveryInvariant, PTL DEF DeliverySpec, ImplementsLifecycle

\* No row tells of a part that Telegram has not accepted, whoever writes the rows.
THEOREM RealProgress == DeliverySpec => []ProgressIsReal
<1>1. DState => ProgressIsReal
  BY DEF DState, DInv, Wellformed, RowsTruthful, Truthful, ProgressIsReal
<1> QED BY <1>1, DeliveryInvariant, PTL

\* Attempts stay within the budget and at most one part is ahead of the rows, where no
\* worker outlives its lease.
THEOREM DeliveryIsSound ==
    ASSUME Stalling = {}
    PROVE  DeliverySpec => []DeliveryInv
<1>1. DState => DeliveryInv
  <2> SUFFICES ASSUME DState PROVE DeliveryInv
    OBVIOUS
  <2>1. TypeOK
    BY DEF DState, DInv, IInv, RowsInv, RestInv, TypeOK, RowsTypeOK
  <2>2. UploadsBudgeted /\ AtMostOneAhead
    BY DEF DState, EInv, Exact, Budgeted, UploadsBudgeted, AtMostOneAhead
  <2> QED BY <2>1, <2>2 DEF DState, DInv, Wellformed, DetailTypeOK, DeliveryInv, DeliveryTypeOK
<1> QED BY <1>1, DeliveryInvariant, PTL

\* A counter that changes is the one that was counted up.
LEMMA OnlyOneSent ==
    ASSUME NEW old \in [Run -> [Admin -> [Part -> Nat]]], NEW new, NEW q, NEW b, NEW n,
           new = [old EXCEPT ![q][b][n] = @ + 1],
           NEW r \in Run, NEW a \in Admin, NEW k \in Part, new[r][a][k] # old[r][a][k]
    PROVE  r = q /\ a = b /\ k = n
<1>1. r = q
  OBVIOUS
<1>2. new[r] = [old[r] EXCEPT ![b][n] = @ + 1]
  BY <1>1
<1>3. a = b
  BY <1>2
<1>4. new[r][a] = [old[r][a] EXCEPT ![n] = @ + 1]
  BY <1>2, <1>3
<1> QED BY <1>1, <1>3, <1>4

\* An upload of part k begins only where k is the next part of the row.
LEMMA UploadsNextPart ==
    ASSUME Stalling = {}, DState, [DeliveryNext]_dvars,
           NEW r \in Run, NEW a \in Admin, NEW k \in Part, sent'[r][a][k] > sent[r][a][k]
    PROVE  rcp[r][a].next = k
<1>1. sent \in [Run -> [Admin -> [Part -> Nat]]]
  BY DEF DState, DInv, Wellformed, DetailTypeOK
<1>2. sent'[r][a][k] # sent[r][a][k]
  BY <1>1
<1>3. CASE Retry
  <2>1. sent'[r][a][k] \in {sent[r][a][k], 0}
    BY <1>1, <1>3 DEF Retry, RetryResets
  <2> QED BY <1>1, <2>1
<1>4. CASE \E s \in Slot : Attempt(s)
  <2> PICK s \in Slot : Attempt(s)
    BY <1>4
  <2>1. /\ At(s, "sending") /\ task[s].at = "part"
        /\ sent' = [sent EXCEPT ![RunOf(s)][Current(s)][task[s].part] = @ + 1]
    BY DEF Attempt, Doing
  <2>2. r = RunOf(s) /\ a = Current(s) /\ k = task[s].part
    BY <1>1, <1>2, <2>1, OnlyOneSent
  <2>3. Agrees(task[s], rcp[RunOf(s)])
    BY <2>1, SenderAgrees
  <2> QED BY <2>1, <2>2, <2>3 DEF Agrees, InHand, Current
<1>5. CASE ~Retry /\ ~(\E s \in Slot : Attempt(s))
  <2>1. ASSUME NEW s \in Slot, Delivering(s), ~Attempt(s)
        PROVE  UNCHANGED sent
    <3>1. CASE SelectRecipients(s) \/ PassOver(s) \/ TakeUp(s) \/ Check(s) \/ Accepted(s)
      BY <3>1 DEF SelectRecipients, PassOver, TakeUp, Check, Accepted, OnlyTask
    <3>2. CASE GiveUp(s) \/ Skip(s) \/ RecordError(s) \/ Complete(s)
      BY <3>2 DEF GiveUp, Skip, RecordError, Complete, Saves
    <3>3. CASE Refused(s) \/ Record(s)
      BY <3>3 DEF Refused, Record, OnlyTask
    <3>4. CASE FinishPending(s) \/ FinishFailed(s) \/ FinishSucceeded(s)
      BY <3>4 DEF FinishPending, FinishFailed, FinishSucceeded, Keep
    <3> QED BY <2>1, <3>1, <3>2, <3>3, <3>4 DEF Delivering
  <2>2. UNCHANGED sent
    <3>1. CASE \E s \in Slot : TaskStep(s)
      BY <1>5, <2>1, <3>1 DEF TaskStep, Keep, StopsAtBoundary
    <3>2. CASE \/ Keep(World)
               \/ \E s \in Slot, q \in Run : ClaimDue(s, q)
               \/ \E s \in Slot : Keep(Breaks(s)) \/ Keep(Beats(s))
      BY <3>2 DEF ClaimDue, Keep
    <3>3. CASE \/ \E b \in Admin : Entitle(b)
               \/ \E q \in Run, b \in Admin : BecomesDue(q, b)
               \/ UNCHANGED dvars
      BY <3>3 DEF Entitle, BecomesDue, dvars
    <3> QED BY <1>5, <3>1, <3>2, <3>3 DEF DeliveryNext
  <2> QED BY <1>2, <2>2
<1> QED BY <1>3, <1>4, <1>5

\* No part goes out again after its progress was committed, where no worker outlives its
\* lease: crashes, retries and lost acknowledgments included.
THEOREM NeverResent ==
    ASSUME Stalling = {}
    PROVE  DeliverySpec => NotResent
<1> DEFINE Step == \A r \in Run, a \in Admin, k \in Part :
                     sent'[r][a][k] > sent[r][a][k] => rcp[r][a].next = k
<1>1. DState /\ [DeliveryNext]_dvars => [Step]_dvars
  BY UploadsNextPart
<1> HIDE DEF Step
<1>2. DeliverySpec => [][Step]_dvars
  BY <1>1, DeliveryInvariant, PTL DEF DeliverySpec
<1> QED BY <1>2 DEF Step, NotResent
=============================================================================
