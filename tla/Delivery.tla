------------------------------ MODULE Delivery ------------------------------
(***************************************************************************)
(* Multipart delivery to several recipients (src/pipeline/delivery.py), in *)
(* place of the set of statuses that RunLifecycle keeps of it.  The module *)
(* adds to RunLifecycle the rows of backup_deliveries, what a delivery     *)
(* task remembers of them, and Telegram; every step is a step of           *)
(* RunLifecycle or leaves its variables alone.                             *)
(*                                                                         *)
(* A recipient is an administrator whom the run's configuration snapshot   *)
(* assigns, or a superadmin.  Times are reduced to whether they are due,   *)
(* error classes to transient (retried later) and permanent.               *)
(***************************************************************************)
EXTENDS RunLifecycle, Naturals

CONSTANTS
    Admin,        \* user ids of the possible recipients
    Super,        \* those of them who are superadmins
    Parts,        \* number of parts of the artifact
    MaxAttempts   \* attempts per incomplete part

ASSUME DeliveryAssumption ==
    /\ Admin \subseteq Nat /\ Admin # {}
    /\ Super \subseteq Admin
    /\ Parts \in Nat \ {0}
    /\ MaxAttempts \in Nat \ {0}

VARIABLES
    rcp,       \* rcp[r][a]: row (r, a) of backup_deliveries
    task,      \* task[s]: what the task in slot s remembers while it delivers
    entitled,  \* who is enabled, not deleted and, unless superadmin, still assigned
    got,       \* got[r][a]: the parts that Telegram accepted
    sent       \* sent[r][a][k]: uploads of part k since the operator's last retry

detail == <<rcp, task, entitled, got, sent>>
dvars  == <<row, spool, locked, proc, ws, job, rcp, task, entitled, got, sent>>

Part == 1..Parts

Recipient == [status : DeliveryStatus \union {"ABSENT"}, next : 1..(Parts + 1),
              tries : 0..MaxAttempts, due : BOOLEAN]
Unselected == [status |-> "ABSENT", next |-> 1, tries |-> 0, due |-> FALSE]
Fresh      == [status |-> "PENDING", next |-> 1, tries |-> 0, due |-> TRUE]

Phase == {"none", "next", "giveup", "check", "skip", "part", "upload", "acked",
          "transient", "permanent"}

\* rows is the session's copy of the recipients' rows, todo the recipients still
\* to be visited, part the part in hand of the first of them.
Task   == [at : Phase, rows : [Admin -> Recipient], todo : SUBSET Admin, part : 0..(Parts + 1)]
NoTask == [at |-> "none", rows |-> [a \in Admin |-> Unselected], todo |-> {}, part |-> 0]

DeliveryInit ==
    /\ Init
    /\ rcp = [r \in Run |-> [a \in Admin |-> Unselected]]
    /\ task = [s \in Slot |-> NoTask]
    /\ entitled \in SUBSET Admin
    /\ got = [r \in Run |-> [a \in Admin |-> {}]]
    /\ sent = [r \in Run |-> [a \in Admin |-> [k \in Part |-> 0]]]

DeliveryTypeOK ==
    /\ TypeOK
    /\ rcp \in [Run -> [Admin -> Recipient]]
    /\ task \in [Slot -> Task]
    /\ entitled \in SUBSET Admin
    /\ got \in [Run -> [Admin -> SUBSET Part]]
    /\ sent \in [Run -> [Admin -> [Part -> Nat]]]

-----------------------------------------------------------------------------
Statuses(rows) == {rows[a].status : a \in Admin} \ {"ABSENT"}

First(S) == CHOOSE a \in S : \A b \in S : a <= b

\* Recipients are visited in the order of their ids.
Current(s) == First(task[s].todo)
Copy(s)    == task[s].rows[Current(s)]
Doing(s, phase) == At(s, "sending") /\ task[s].at = phase

Move(s, phase) == task' = [task EXCEPT ![s].at = phase]
NextRecipient(s) ==
    task' = [task EXCEPT ![s].at = "next", ![s].todo = @ \ {Current(s)}]

\* A step of RunLifecycle that the details only accompany: a task that stops
\* delivering forgets what it knew.
Forget == task' = [s \in Slot |-> IF job'[s].pc = "sending" THEN task[s] ELSE NoTask]
Keep(A) == A /\ Forget /\ UNCHANGED <<rcp, entitled, got, sent>>

\* A commit of the task: db is the current recipient's row as written, copy the
\* same object in the session.
Saves(s, db, copy) ==
    LET r == RunOf(s)
    IN /\ rcp' = [rcp EXCEPT ![r][Current(s)] = db]
       /\ WritesRow(r, [row[r] EXCEPT !.dlv = Statuses(rcp'[r])])
       /\ task' = [task EXCEPT ![s].rows[Current(s)] = copy, ![s].at = "next",
                               ![s].todo = @ \ {Current(s)}]
       /\ UNCHANGED <<spool, locked, proc, ws, job, entitled, got, sent>>

Resolved(rec, status) == [rec EXCEPT !.status = status, !.due = FALSE]
Counted(rec, n)       == [rec EXCEPT !.tries = n, !.due = FALSE]
Recorded(rec, k)      == [rec EXCEPT !.next = k + 1, !.tries = 0, !.due = TRUE]
Renewed(rec)          == [rec EXCEPT !.status = "PENDING", !.tries = 0, !.due = TRUE]

-----------------------------------------------------------------------------
(* The world around a delivery                                             *)

\* An administrator is disabled, deleted, unassigned, or the reverse.
Entitle(a) ==
    /\ entitled' = IF a \in entitled THEN entitled \ {a} ELSE entitled \union {a}
    /\ UNCHANGED <<row, spool, locked, proc, ws, job, rcp, task, got, sent>>

\* next_attempt_at passes, for the row and for the copies of it.
BecomesDue(r, a) ==
    /\ rcp[r][a].status = "PENDING" /\ ~rcp[r][a].due
    /\ rcp' = [rcp EXCEPT ![r][a].due = TRUE]
    /\ task' = [s \in Slot |-> IF At(s, "sending") /\ RunOf(s) = r
                                 THEN [task[s] EXCEPT !.rows[a].due = TRUE] ELSE task[s]]
    /\ UNCHANGED <<row, spool, locked, proc, ws, job, entitled, got, sent>>

\* claim looks for a pending recipient that is due.
ClaimDue(s, r) ==
    /\ row[r].status = "DELIVERY_PENDING" /\ row[r].dlv # {} =>
         \E a \in Admin : rcp[r][a].status = "PENDING" /\ rcp[r][a].due
    /\ Keep(Claim(s, r))

\* retry_failed: the failed recipients get a new budget and keep their progress.
RetryResets ==
    LET again == IF row' = row THEN {}
                 ELSE {a \in Admin : rcp[locked][a].status = "FAILED"}
    IN /\ rcp' = [rcp EXCEPT ![locked] = [a \in Admin |->
                    IF a \in again THEN Renewed(@[a]) ELSE @[a]]]
       /\ sent' = [sent EXCEPT ![locked] = [a \in Admin |->
                    IF a \in again THEN [k \in Part |-> 0] ELSE @[a]]]

Retry ==
    /\ RetryCommits /\ Unattended
    /\ RetryResets
    /\ Forget
    /\ UNCHANGED <<entitled, got>>

-----------------------------------------------------------------------------
(* One attempt                                                             *)

\* Seeded bug: recipients who were served are skipped too.
SelectedRowSkipsServed(a, rec) ==
    IF a \in entitled
      THEN IF rec.status = "ABSENT" THEN Fresh ELSE rec
      ELSE IF rec.status = "ABSENT" THEN rec ELSE Resolved(rec, "SKIPPED")

\* A recipient who may no longer receive is SKIPPED unless served; one who has no
\* row yet gets one.
SelectedRow(a, rec) ==
    IF a \in entitled
      THEN IF rec.status = "ABSENT" THEN Fresh ELSE rec
      ELSE IF rec.status \in {"ABSENT", "SUCCEEDED"} THEN rec ELSE Resolved(rec, "SKIPPED")

SelectRecipients(s) ==
    /\ At(s, "select")
    /\ LET r    == RunOf(s)
           rows == [a \in Admin |-> SelectedRow(a, rcp[r][a])]
       IN /\ job[s].dir # NoBuild /\ row[r].final
          /\ spool[r][job[s].dir] # "none"
          /\ rcp' = [rcp EXCEPT ![r] = rows]
          /\ WritesRow(r, [row[r] EXCEPT !.dlv = Statuses(rows)])
          /\ task' = [task EXCEPT ![s] = [at |-> "next", rows |-> rows,
                                          todo |-> entitled, part |-> 0]]
    /\ Goto(s, "sending")
    /\ UNCHANGED <<spool, locked, proc, ws, entitled, got, sent>>

\* The loop over the recipients begins each turn at a boundary.
Turn(s) == Doing(s, "next") /\ task[s].todo # {} /\ InCharge(s)

OnlyTask == UNCHANGED <<row, spool, locked, proc, ws, job, rcp, entitled, got, sent>>

PassOver(s) ==
    /\ Turn(s)
    /\ Copy(s).status # "PENDING" \/ ~Copy(s).due
    /\ NextRecipient(s)
    /\ OnlyTask

\* Seeded bug: a recipient whose budget is used up is merely passed over.
TakeUpOrIgnore(s) ==
    /\ Turn(s)
    /\ Copy(s).status = "PENDING" /\ Copy(s).due
    /\ IF Copy(s).tries < MaxAttempts THEN Move(s, "check") ELSE NextRecipient(s)
    /\ OnlyTask

TakeUp(s) ==
    /\ Turn(s)
    /\ Copy(s).status = "PENDING" /\ Copy(s).due
    /\ Move(s, IF Copy(s).tries < MaxAttempts THEN "check" ELSE "giveup")
    /\ OnlyTask

\* The budget was used up before a crash could say so.
GiveUp(s) ==
    /\ Doing(s, "giveup")
    /\ LET a == Current(s)
       IN Saves(s, Resolved(rcp[RunOf(s)][a], "FAILED"), Resolved(Copy(s), "FAILED"))

\* Seeded bug: every attempt begins with the first part.
FirstPartAlways(rec) == 1

\* artifacts[delivery.next_part - 1 :]
FirstPart(rec) == rec.next

\* The recipient's authorization, read again.  A superadmin is judged by the
\* object that the selection loaded into the session.
Check(s) ==
    /\ Doing(s, "check")
    /\ IF Current(s) \in entitled \union Super
         THEN task' = [task EXCEPT ![s].at = "part", ![s].part = FirstPart(Copy(s))]
         ELSE Move(s, "skip")
    /\ OnlyTask

Skip(s) ==
    /\ Doing(s, "skip")
    /\ LET a == Current(s)
       IN Saves(s, Resolved(rcp[RunOf(s)][a], "SKIPPED"), Resolved(Copy(s), "SKIPPED"))

\* Seeded bug: the attempt is counted in memory only.
AttemptUncounted(s) ==
    /\ Doing(s, "part") /\ task[s].part <= Parts
    /\ InCharge(s)
    /\ LET a == Current(s)
       IN /\ task' = [task EXCEPT ![s].at = "upload",
                                  ![s].rows[a] = Counted(@, Copy(s).tries + 1)]
          /\ sent' = [sent EXCEPT ![RunOf(s)][a][task[s].part] = @ + 1]
    /\ UNCHANGED <<row, spool, locked, proc, ws, job, rcp, entitled, got>>

\* Seeded bug: the part is recorded as delivered before it is uploaded.
AttemptRecordsFirst(s) ==
    /\ Doing(s, "part") /\ task[s].part <= Parts
    /\ InCharge(s)
    /\ LET r == RunOf(s)
           a == Current(s)
       IN /\ rcp' = [rcp EXCEPT ![r][a] = Recorded(@, task[s].part)]
          /\ task' = [task EXCEPT ![s].at = "upload"]
          /\ sent' = [sent EXCEPT ![r][a][task[s].part] = @ + 1]
    /\ UNCHANGED <<row, spool, locked, proc, ws, job, entitled, got>>

\* The attempt is counted and committed under the row lock of the boundary, and
\* then the upload begins.
Attempt(s) ==
    /\ Doing(s, "part") /\ task[s].part <= Parts
    /\ InCharge(s)
    /\ LET r == RunOf(s)
           a == Current(s)
           n == Copy(s).tries + 1
       IN /\ rcp' = [rcp EXCEPT ![r][a] = Counted(@, n)]
          /\ task' = [task EXCEPT ![s].at = "upload", ![s].rows[a] = Counted(@, n)]
          /\ sent' = [sent EXCEPT ![r][a][task[s].part] = @ + 1]
    /\ UNCHANGED <<row, spool, locked, proc, ws, job, entitled, got>>

\* Telegram accepts the part: the acknowledgment arrives or is lost.
Accepted(s) ==
    /\ Doing(s, "upload")
    /\ got' = [got EXCEPT ![RunOf(s)][Current(s)] = @ \union {task[s].part}]
    /\ \E phase \in {"acked", "transient"} : Move(s, phase)
    /\ UNCHANGED <<row, spool, locked, proc, ws, job, rcp, entitled, sent>>

\* It does not: the network, a timeout, a flood wait, a refusal.
Refused(s) ==
    /\ Doing(s, "upload")
    /\ \E phase \in {"transient", "permanent"} : Move(s, phase)
    /\ OnlyTask

\* The error is recorded; it ends the recipient if it is permanent or was the last.
RecordError(s) ==
    /\ Doing(s, "transient") \/ Doing(s, "permanent")
    /\ InCharge(s)
    /\ LET a      == Current(s)
           final  == Doing(s, "permanent") \/ Copy(s).tries >= MaxAttempts
           status == IF final THEN "FAILED" ELSE "PENDING"
           db     == IF final THEN Resolved(rcp[RunOf(s)][a], "FAILED")
                     ELSE [rcp[RunOf(s)][a] EXCEPT !.due = FALSE]
       IN Saves(s, db, Resolved(Copy(s), status))

\* An acknowledged part is recorded by the owner, cancelled or not.
Record(s) ==
    /\ Doing(s, "acked") /\ Mine(s)
    /\ LET r == RunOf(s)
           a == Current(s)
           k == task[s].part
       IN /\ rcp' = [rcp EXCEPT ![r][a] = Recorded(@, k)]
          /\ task' = [task EXCEPT ![s].at = "part", ![s].rows[a] = Recorded(@, k),
                                  ![s].part = k + 1]
    /\ UNCHANGED <<row, spool, locked, proc, ws, job, entitled, got, sent>>

\* All parts are recorded: the recipient is served.
Complete(s) ==
    /\ Doing(s, "part") /\ task[s].part > Parts
    /\ LET a == Current(s)
       IN Saves(s, Resolved(rcp[RunOf(s)][a], "SUCCEEDED"), Resolved(Copy(s), "SUCCEEDED"))

\* The loop is over; the run ends according to the session's copies.
LoopOver(s) == Doing(s, "next") /\ task[s].todo = {} /\ InCharge(s)
Results(s)  == Statuses(task[s].rows)

Finishes(s, status) ==
    /\ row[RunOf(s)].status = "DELIVERY_PENDING"
    /\ WritesRow(RunOf(s), [Released(row[RunOf(s)]) EXCEPT !.status = status])
    /\ UNCHANGED <<spool, locked, proc, ws>>

FinishPending(s) ==
    /\ LoopOver(s)
    /\ "PENDING" \in Results(s)
    /\ Keep(Finishes(s, "DELIVERY_PENDING") /\ Finish(s))

FinishFailed(s) ==
    /\ LoopOver(s)
    /\ "PENDING" \notin Results(s) /\ "FAILED" \in Results(s)
    /\ Keep(Finishes(s, "FAILED") /\ Finish(s))

FinishSucceeded(s) ==
    /\ LoopOver(s)
    /\ Results(s) \intersect {"PENDING", "FAILED"} = {}
    /\ Keep(Finishes(s, "SUCCEEDED") /\ Goto(s, "cleanup"))

\* The boundaries of an attempt: all but the one after an acknowledgment also
\* look at cancel_requested, and nothing is looked at before Check, GiveUp,
\* Skip and Complete.
StopsAtBoundary(s) ==
    /\ Keep(Stops(s))
    /\ At(s, "sending") =>
         \/ task[s].at \in {"next", "transient", "permanent"}
         \/ task[s].at = "part" /\ task[s].part <= Parts
         \/ task[s].at = "acked" /\ ~Mine(s)

-----------------------------------------------------------------------------
Delivering(s) ==
    \/ SelectRecipients(s) \/ PassOver(s) \/ TakeUp(s) \/ GiveUp(s) \/ Check(s) \/ Skip(s)
    \/ Attempt(s) \/ Accepted(s) \/ Refused(s) \/ RecordError(s) \/ Record(s) \/ Complete(s)
    \/ FinishPending(s) \/ FinishFailed(s) \/ FinishSucceeded(s)

TaskStep(s) ==
    Keep(Builds(s)) \/ Keep(Handles(s)) \/ StopsAtBoundary(s) \/ Delivering(s)

DeliveryNext ==
    \/ Keep(World)
    \/ Retry
    \/ \E s \in Slot, r \in Run : ClaimDue(s, r)
    \/ \E s \in Slot : TaskStep(s) \/ Keep(Breaks(s)) \/ Keep(Beats(s))
    \/ \E a \in Admin : Entitle(a)
    \/ \E r \in Run, a \in Admin : BecomesDue(r, a)

DeliverySpec == DeliveryInit /\ [][DeliveryNext]_dvars

\* As in RunLifecycle; in addition backoffs run out, an upload ends at the latest
\* with TELEGRAM_UPLOAD_TIMEOUT_SECONDS, and exceptions that attempt() does not
\* expect stop in the end: there is no bound on how often a run is taken up again
\* after one.
DeliveryFairness ==
    /\ \A p \in Proc : WF_dvars(Keep(StartProc(p)))
    /\ \A r \in Run : WF_dvars(Keep(LeaseExpires(r)))
    /\ \A r \in Run : WF_dvars(\E s \in Slot : ClaimDue(s, r) \/ Keep(ClaimCancel(s, r)))
    /\ \A r \in Run, a \in Admin : WF_dvars(BecomesDue(r, a))
    /\ \A s \in Slot : WF_dvars(TaskStep(s)) /\ WF_dvars(Keep(HeartbeatCancels(s)))
    /\ \A s \in Slot : SF_dvars(Keep(HandlerCancels(s)))
    /\ <>[][\A s \in Slot : ~Breaks(s)]_dvars

FairDelivery == DeliverySpec /\ DeliveryFairness

-----------------------------------------------------------------------------
(* Properties                                                              *)

\* Every step of the detailed delivery is a step of RunLifecycle: its summary of
\* the recipients by the set of their statuses, and so all that is proved or
\* checked from its steps, holds of the code's delivery loop.
ImplementsLifecycle == [][Next]_vars

\* Progress is real: what is recorded as delivered was accepted by Telegram, and
\* a recipient that counts as served has every part.
ProgressIsReal ==
    \A r \in Run, a \in Admin :
        /\ 1..(rcp[r][a].next - 1) \subseteq got[r][a]
        /\ rcp[r][a].status = "SUCCEEDED" => got[r][a] = Part

\* At most the part in hand can be accepted without being recorded, whatever
\* crashes: parts arrive in order, and a restart repeats one part at most.
AtMostOneAhead ==
    \A r \in Run, a \in Admin : got[r][a] \subseteq 1..rcp[r][a].next

\* Between two retries by an operator, a part goes out at most MaxAttempts times,
\* because attempts are committed before the upload.
UploadsBudgeted ==
    \A r \in Run, a \in Admin, k \in Part : sent[r][a][k] <= MaxAttempts

\* The recipients' rows are well formed, attempts stay within the budget, and Telegram
\* is at most one part ahead of the rows.
DeliveryInv == DeliveryTypeOK /\ UploadsBudgeted /\ AtMostOneAhead

\* A part is not uploaded again after its progress was committed, also not by a
\* restarted worker or after an operator's retry.
NotResent ==
    [][\A r \in Run, a \in Admin, k \in Part :
         sent'[r][a][k] > sent[r][a][k] => rcp[r][a].next = k]_dvars

\* Whoever waits for a backup is served, given up or no longer entitled in the
\* end, or the run ends: crashes, backoffs and lost acknowledgments do not leave
\* a recipient pending for ever.
PendingSettles ==
    \A r \in Run, a \in Admin :
        (rcp[r][a].status = "PENDING") ~>
            (rcp[r][a].status # "PENDING" \/ row[r].status # "DELIVERY_PENDING")
=============================================================================
