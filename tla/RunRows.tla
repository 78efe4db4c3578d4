------------------------------ MODULE RunRows ------------------------------
(***************************************************************************)
(* The backup_runs table and the operations of RunService                  *)
(* (src/pipeline/jobs.py): enqueue, claim, cancel, retry and purge.  One   *)
(* action is one committed database transaction; a row lock or a           *)
(* conditional UPDATE is what makes it atomic in the code.                 *)
(*                                                                         *)
(* A lease is [owner, live]: live says that lease_expires_at is in the     *)
(* future.  Clock values, messages, sizes and snapshots are abstracted.    *)
(***************************************************************************)
CONSTANTS
    Run,        \* identities of run rows
    Profile,    \* backup profiles
    ProfileOf,  \* the profile a row belongs to, for the row's whole life
    Proc,       \* worker process incarnations: one lease_owner string each
    NoProc,     \* lease_owner IS NULL
    Build,      \* names of directories under PENDING_DELIVERY_ROOT
    NoBuild,    \* pending_directory IS NULL
    NoRun       \* no row locked

ASSUME RunRowsAssumption ==
    /\ ProfileOf \in [Run -> Profile]
    /\ NoProc \notin Proc
    /\ NoBuild \notin Build
    /\ NoRun \notin Run

VARIABLES
    row,      \* the table
    spool,    \* spool[r][b]: what directory b of run r holds on disk
    locked    \* the row a retry holds FOR UPDATE across its verification

Active   == {"QUEUED", "RUNNING", "DELIVERY_PENDING"}
Terminal == {"SUCCEEDED", "FAILED", "CANCELLED", "SKIPPED"}
Status   == Active \union Terminal \union {"ABSENT"}

DeliveryStatus == {"PENDING", "SUCCEEDED", "FAILED", "SKIPPED"}

\* "partial" is a directory whose manifest is not yet published.
SpoolContent == {"none", "partial", "complete"}

\* dlv is the set of statuses that the run's delivery rows have; final says
\* that final_filename, final_size_bytes, final_sha256 and the artifact rows
\* are recorded; wsp that workspace_path is set.
Row == [status : Status,
        cancel : BOOLEAN,
        owner  : Proc \union {NoProc},
        live   : BOOLEAN,
        wsp    : BOOLEAN,
        pend   : Build \union {NoBuild},
        final  : BOOLEAN,
        dlv    : SUBSET DeliveryStatus]

NewRow(status) == [status |-> status, cancel |-> FALSE, owner |-> NoProc,
                   live |-> FALSE, wsp |-> FALSE, pend |-> NoBuild,
                   final |-> FALSE, dlv |-> {}]

RowsInit ==
    /\ row = [r \in Run |-> NewRow("ABSENT")]
    /\ spool = [r \in Run |-> [b \in Build |-> "none"]]
    /\ locked = NoRun

RowsTypeOK ==
    /\ row \in [Run -> Row]
    /\ spool \in [Run -> [Build -> SpoolContent]]
    /\ locked \in Run \union {NoRun}

-----------------------------------------------------------------------------
IsActive(r)   == row[r].status \in Active
IsTerminal(r) == row[r].status \in Terminal

\* active_for_profile: some row of the profile is active.
ActiveForProfile(p) == \E q \in Run : ProfileOf[q] = p /\ IsActive(q)

\* Seeded bug: a schema without the index.
IndexAbsent(r) == r \in Run

\* The partial unique index uq_backup_runs_active_profile admits r as active.
IndexAllows(r) == \A q \in Run \ {r} : ProfileOf[q] = ProfileOf[r] => ~IsActive(q)

\* Seeded bug: the comparison with lease_expires_at turned round.
LeaseFreeTurned(r) == row[r].owner = NoProc \/ row[r].live

\* Nobody holds the lease, or it has run out.
LeaseFree(r) == row[r].owner = NoProc \/ ~row[r].live

\* Seeded bug: the lease columns get each other's values.
LeasedSwapped(r, p) == [row[r] EXCEPT !.owner = p, !.live = p]

Leased(r, p)  == [row[r] EXCEPT !.owner = p, !.live = TRUE]
Released(rec) == [rec EXCEPT !.owner = NoProc, !.live = FALSE]

WritesRow(r, rec) == row' = [row EXCEPT ![r] = rec]

\* _verify_pending and _verified_parts: the manifest, which is published last, is
\* there, and so is every part it names, unchanged, with its size and its hash.
Verifies(r, b) == spool[r][b] = "complete"

\* verified_retained_artifact: the recorded directory verifies, and it holds the
\* artifact that the row recorded.
RetainedArtifactVerifies(r) ==
    /\ row[r].pend # NoBuild
    /\ Verifies(r, row[r].pend)
    /\ row[r].final

-----------------------------------------------------------------------------
\* _enqueue: insert a QUEUED run.  The profile row is locked, the active run is
\* looked up, and the index rejects what slips in between.
Enqueue(r) ==
    /\ row[r].status = "ABSENT"
    /\ ~ActiveForProfile(ProfileOf[r])
    /\ IndexAllows(r)
    /\ WritesRow(r, NewRow("QUEUED"))
    /\ UNCHANGED <<spool, locked>>

\* _record_skipped: a scheduled occurrence that overlaps an active run.
EnqueueSkipped(r) ==
    /\ row[r].status = "ABSENT"
    /\ ActiveForProfile(ProfileOf[r])
    /\ WritesRow(r, NewRow("SKIPPED"))
    /\ UNCHANGED <<spool, locked>>

\* request_cancel: the flag, and at once CANCELLED if nobody ever claimed it.
RequestCancel(r) ==
    /\ IsActive(r)
    /\ WritesRow(r, [row[r] EXCEPT
                       !.cancel = TRUE,
                       !.status = IF @ = "QUEUED" /\ row[r].owner = NoProc
                                    THEN "CANCELLED" ELSE @])
    /\ UNCHANGED <<spool, locked>>

\* retry_failed with no artifact: a new run instead of this one.
RetryRecreates(r, q) ==
    /\ row[r].status = "FAILED" /\ row[r].owner = NoProc
    /\ row[r].pend = NoBuild
    /\ "SUCCEEDED" \notin row[r].dlv
    /\ ProfileOf[q] = ProfileOf[r]
    /\ locked # r
    /\ Enqueue(q)

\* retry_failed with a retained artifact, first half: under the row lock, the
\* refusals, the verification of the artifact and the look for an active run.
RetryChecks(r) ==
    /\ locked = NoRun
    /\ row[r].status = "FAILED" /\ row[r].owner = NoProc
    /\ row[r].pend # NoBuild
    /\ "FAILED" \in row[r].dlv
    /\ RetainedArtifactVerifies(r)
    /\ ~ActiveForProfile(ProfileOf[r])
    /\ locked' = r
    /\ UNCHANGED <<row, spool>>

RetriedRow(r) == [row[r] EXCEPT !.status = "DELIVERY_PENDING",
                                !.cancel = FALSE,
                                !.dlv = (@ \ {"FAILED"}) \union {"PENDING"}]

\* retry_failed, second half: the UPDATE commits unless the index refuses it
\* because another run of the profile became active since the check.
RetryCommits ==
    /\ locked # NoRun
    /\ IF /\ row[locked].status = "FAILED" /\ row[locked].owner = NoProc
          /\ row[locked].pend # NoBuild
          /\ IndexAllows(locked)
         THEN WritesRow(locked, RetriedRow(locked)) ELSE UNCHANGED row
    /\ locked' = NoRun
    /\ UNCHANGED spool

\* purge_failed_artifact: the operator discards a verified artifact.
Purge(r) ==
    /\ locked # r
    /\ row[r].status = "FAILED" /\ row[r].owner = NoProc
    /\ RetainedArtifactVerifies(r)
    /\ spool' = [spool EXCEPT ![r][row[r].pend] = "none"]
    /\ WritesRow(r, [row[r] EXCEPT !.pend = NoBuild])
    /\ UNCHANGED locked

-----------------------------------------------------------------------------
\* Seeded bug: only QUEUED and DELIVERY_PENDING among the claimed statuses.
ClaimQueuedRow(r, p) ==
    /\ row[r].status \in {"QUEUED", "DELIVERY_PENDING"} /\ ~row[r].cancel
    /\ LeaseFree(r)
    /\ WritesRow(r, Leased(r, p))
    /\ UNCHANGED <<spool, locked>>

\* claim: the lease changes hands; neither status nor cancel does.  That a
\* pending delivery is due is left to time, so only its existence counts.
ClaimRow(r, p) ==
    /\ IsActive(r) /\ ~row[r].cancel
    /\ LeaseFree(r)
    /\ \/ row[r].status # "DELIVERY_PENDING"
       \/ row[r].dlv = {}
       \/ "PENDING" \in row[r].dlv
    /\ WritesRow(r, Leased(r, p))
    /\ UNCHANGED <<spool, locked>>

\* Seeded bug: a cancelled run is taken from its worker at once.
ClaimCancelAtOnce(r, p) ==
    /\ IsActive(r) /\ row[r].cancel
    /\ WritesRow(r, Leased(r, p))
    /\ UNCHANGED <<spool, locked>>

\* Seeded bug: the lease of a dead worker is not considered.
ClaimCancelUnowned(r, p) ==
    /\ IsActive(r) /\ row[r].cancel
    /\ row[r].owner = NoProc
    /\ WritesRow(r, Leased(r, p))
    /\ UNCHANGED <<spool, locked>>

\* claim_cancel_requested: any active run whose cancellation was asked for.
ClaimCancelRow(r, p) ==
    /\ IsActive(r) /\ row[r].cancel
    /\ LeaseFree(r)
    /\ WritesRow(r, Leased(r, p))
    /\ UNCHANGED <<spool, locked>>

\* The condition of the conditional UPDATE in finalize_cancel_requested.
CancelMatches(r, p) == IsActive(r) /\ row[r].cancel /\ row[r].owner = p

\* renew: only lease_owner is compared, so a lease already run out revives.
RenewRow(r, p) ==
    /\ row[r].owner = p
    /\ WritesRow(r, [row[r] EXCEPT !.live = TRUE])
    /\ UNCHANGED <<spool, locked>>
=============================================================================
