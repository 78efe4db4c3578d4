--------------------------- MODULE MssqlArtifacts ---------------------------
(***************************************************************************)
(* The backup files a run leaves on an MSSQL server, and the cleanup       *)
(* records that fence them (pipeline/worker.py, acquisition/mssql.py and   *)
(* cleanup_orphaned_mssql_artifacts in pipeline/recovery.py).              *)
(*                                                                         *)
(* Each attempt at a run has an operation id: its record is committed      *)
(* before the server is asked for a backup, the file has the id in its     *)
(* name, and once a copy has been hashed the record says so.  Only then    *)
(* may a file be removed: by the attempt, by the next attempt at the run,  *)
(* or by a sweep, which a worker does when it starts and after a failure.  *)
(*                                                                         *)
(* The lease of an attempt that stalls or dies runs out, and another may   *)
(* claim the run while the first one still works.  Attempts look at        *)
(* lease_owner only at their ownership boundaries.  Renewing a lease that  *)
(* has run out is left out: it would only forbid claims and sweeps.        *)
(***************************************************************************)
EXTENDS Naturals, FiniteSets

CONSTANTS
    Operation,  \* attempts at one run, by operation id
    Sweep,      \* sweeps for orphaned artifacts
    Nobody,     \* no attempt, no operation
    MaxFaults   \* bound: kills, stalls, changed files and failing removals

ASSUME MssqlAssumption == Nobody \notin Operation /\ MaxFaults \in Nat

VARIABLES
    status,     \* of the run: "running", "failed" or "succeeded"
    lease,      \* by: lease_owner, live: lease_expires_at is not past
    attempt,    \* where each attempt is, see Fresh
    record,     \* the cleanup record of each operation
    file,       \* what is at the operation's path on the server
    got,        \* history: what the operation has copied and hashed
    sweep,      \* what each sweep has to do and to commit
    blind,      \* history: operations whose file could not be examined
    faults      \* faults so far, at most MaxFaults

vars == <<status, lease, attempt, record, file, got, sweep, blind, faults>>

Content == {"none", "partial", "backup", "other"}

\* at: the step it is at.  of: the operation whose file it removes.  todo: operations
\* of earlier attempts it has still to remove.  result: of the last removal.
Fresh == [at |-> "idle", of |-> Nobody, todo |-> {}, result |-> "none"]
NoRecord == [exists |-> FALSE, retrieved |-> "none", cleaned |-> FALSE]
NoSweep == [at |-> "idle", todo |-> {}, marks |-> {}]

Attempt == [at : {"idle", "previous", "recorded", "asked", "copied", "retrieved", "removing",
                  "removed", "cleaned", "failing", "over"},
            of : Operation \union {Nobody}, todo : SUBSET Operation,
            result : {"none", "removed", "missing", "error"}]
CleanupRecord == [exists : BOOLEAN, retrieved : Content \ {"partial"}, cleaned : BOOLEAN]
SweepState == [at : {"idle", "busy"}, todo : SUBSET Operation, marks : SUBSET Operation]

MssqlTypeOK ==
    /\ status \in {"running", "failed", "succeeded"}
    /\ lease \in [by : Operation \union {Nobody}, live : BOOLEAN]
    /\ status # "running" => lease.by = Nobody
    /\ attempt \in [Operation -> Attempt]
    /\ \A o \in Operation : attempt[o].at \in {"removing", "removed"} => attempt[o].of # Nobody
    /\ record \in [Operation -> CleanupRecord]
    /\ \A o \in Operation :
          /\ record[o].cleaned => record[o].retrieved # "none"
          /\ record[o].retrieved # "none" => record[o].exists
    /\ file \in [Operation -> Content] /\ got \in [Operation -> Content \ {"partial"}]
    /\ sweep \in [Sweep -> SweepState]
    /\ blind \subseteq Operation /\ faults \in 0 .. MaxFaults

Init ==
    /\ status = "running" /\ lease = [by |-> Nobody, live |-> FALSE]
    /\ attempt = [o \in Operation |-> Fresh]
    /\ record = [o \in Operation |-> NoRecord]
    /\ file = [o \in Operation |-> "none"] /\ got = [o \in Operation |-> "none"]
    /\ sweep = [s \in Sweep |-> NoSweep]
    /\ blind = {} /\ faults = 0

Fault == faults < MaxFaults /\ faults' = faults + 1

\* _ownership_boundary passes: lease_owner alone is compared.  It names a worker process;
\* each attempt here is of a process of its own (two slots of one would own each other's).
Owns(o) == lease.by = o

Moves(o, stage) == attempt' = [attempt EXCEPT ![o].at = stage]

-----------------------------------------------------------------------------
(* Leases, and how an attempt ends. *)

\* Records retrieved and not cleaned.
Pending == {p \in Operation : record[p].retrieved # "none" /\ ~record[p].cleaned}

\* A worker claims the run: nobody has it, or its lease has run out.
Claim(o) ==
    /\ attempt[o].at = "idle" /\ status = "running" /\ ~lease.live
    /\ lease' = [by |-> o, live |-> TRUE]
    /\ attempt' = [attempt EXCEPT ![o].at = "previous", ![o].todo = Pending]
    /\ UNCHANGED <<status, record, file, got, sweep, blind, faults>>

\* The lease runs out: its holder is over, or stalls.
Expires ==
    /\ lease.live /\ lease' = [lease EXCEPT !.live = FALSE]
    /\ IF attempt[lease.by].at = "over" THEN UNCHANGED faults ELSE Fault
    /\ UNCHANGED <<status, attempt, record, file, got, sweep, blind>>

Active(o) == attempt[o].at \notin {"idle", "failing", "over"}

\* The worker process is killed.
Killed(o) ==
    /\ Active(o) /\ Fault /\ Moves(o, "over")
    /\ UNCHANGED <<status, lease, record, file, got, sweep, blind>>

\* A step raises, or the boundary after it finds another owner or a cancellation.
Raises(o) ==
    /\ Active(o)
    /\ IF Owns(o) THEN Fault ELSE UNCHANGED faults
    /\ Moves(o, "failing")
    /\ UNCHANGED <<status, lease, record, file, got, sweep, blind>>

\* The run of an attempt that ends is finished if the attempt still owns it.
Finish(o, outcome) ==
    /\ Moves(o, "over")
    /\ IF Owns(o)
       THEN status' = outcome /\ lease' = [by |-> Nobody, live |-> FALSE]
       ELSE UNCHANGED <<status, lease>>
    /\ UNCHANGED <<record, file, got, sweep, blind, faults>>

Fails(o) == attempt[o].at = "failing" /\ Finish(o, "failed")

\* _persist_acquisition and everything after it.
Succeeds(o) == attempt[o].at = "cleaned" /\ Owns(o) /\ Finish(o, "succeeded")

-----------------------------------------------------------------------------
(* Backup and retrieval. *)

\* Seeded bug: the record is added with the retrieval, not before the backup.
RecordsLater(o) ==
    /\ attempt[o].at = "previous" /\ attempt[o].todo = {}
    /\ Moves(o, "recorded")
    /\ UNCHANGED <<status, lease, record, file, got, sweep, blind, faults>>

\* The record of this operation is committed; no boundary here.
Records(o) ==
    /\ attempt[o].at = "previous" /\ attempt[o].todo = {}
    /\ record' = [record EXCEPT ![o].exists = TRUE] /\ Moves(o, "recorded")
    /\ UNCHANGED <<status, lease, file, got, sweep, blind, faults>>

\* The runner process sends BACKUP DATABASE; the server creates the file.
AsksForBackup(o) ==
    /\ attempt[o].at = "recorded" /\ Moves(o, "asked")
    /\ file' = [file EXCEPT ![o] = "partial"]
    /\ UNCHANGED <<status, lease, record, got, sweep, blind, faults>>

\* The server completes the backup, whether or not somebody waits for it.
ServerCompletes(o) ==
    /\ file[o] = "partial" /\ file' = [file EXCEPT ![o] = "backup"]
    /\ UNCHANGED <<status, lease, attempt, record, got, sweep, blind, faults>>

\* Somebody else writes to the path.
Overwritten(o) ==
    /\ file[o] = "backup" /\ Fault /\ file' = [file EXCEPT ![o] = "other"]
    /\ UNCHANGED <<status, lease, attempt, record, got, sweep, blind>>

\* The runner has answered; the file is copied and the copy hashed.
Copies(o) ==
    /\ attempt[o].at = "asked" /\ file[o] \in {"backup", "other"} /\ Owns(o)
    /\ got' = [got EXCEPT ![o] = file[o]] /\ Moves(o, "copied")
    /\ UNCHANGED <<status, lease, record, file, sweep, blind, faults>>

\* record_mssql_retrieval: size and checksum of the copy.
RecordsRetrieval(o) ==
    /\ attempt[o].at = "copied" /\ Owns(o)
    /\ record' = [record EXCEPT ![o].retrieved = got[o]]
    /\ Moves(o, "retrieved")
    /\ UNCHANGED <<status, lease, file, got, sweep, blind, faults>>

-----------------------------------------------------------------------------
(* Removal: _cleanup_mssql_record and cleanup_mssql_server_artifact. *)

\* Seeded bug: whatever is at the path is removed.
MatchesAnything(p) == file[p] # "none"
\* What is there has the size and checksum that were recorded.
Matches(p) == file[p] = record[p].retrieved

Removal(result, gone, unseen) == [result |-> result, gone |-> gone, unseen |-> unseen]

\* How an attempt to remove the file of p can end.  A removal over SSH may be done
\* although its answer is lost; examining a local file may fail with any OSError, which
\* is reported as MISSING.
Removals(p) ==
    {Removal("error", FALSE, FALSE), Removal("missing", FALSE, TRUE)} \union
    (IF file[p] = "none" THEN {Removal("missing", FALSE, FALSE)}
     ELSE IF Matches(p) THEN {Removal("removed", TRUE, FALSE), Removal("error", TRUE, FALSE)}
     ELSE {Removal("error", FALSE, FALSE)})

IsFault(p, r) == r.unseen \/ (r.result = "error" /\ (file[p] = "none" \/ Matches(p)))

\* The file of p is removed with outcome r.
Remove(p, r) ==
    /\ IF IsFault(p, r) THEN Fault ELSE UNCHANGED faults
    /\ file' = IF r.gone THEN [file EXCEPT ![p] = "none"] ELSE file
    /\ blind' = IF r.unseen THEN blind \union {p} ELSE blind

\* Seeded bug: a removal that was tried counts.
SettlesAlways(result) == TRUE
\* Outcomes after which cleaned_at is set.
Settles(result) == result \in {"removed", "missing"}

\* The boundary before a removal: of an earlier operation, then of its own.
BeginsRemoval(o) ==
    /\ Owns(o)
    /\ \E p \in Operation :
          /\ \/ attempt[o].at = "previous" /\ p \in attempt[o].todo
             \/ attempt[o].at = "retrieved" /\ p = o
          /\ attempt' = [attempt EXCEPT ![o].at = "removing", ![o].of = p]
    /\ UNCHANGED <<status, lease, record, file, got, sweep, blind, faults>>

RemovesFile(o) ==
    /\ attempt[o].at = "removing"
    /\ \E r \in Removals(attempt[o].of) :
          /\ Remove(attempt[o].of, r)
          /\ attempt' = [attempt EXCEPT ![o].at = "removed", ![o].result = r.result]
    /\ UNCHANGED <<status, lease, record, got, sweep>>

\* The record is committed; after a removal only past another boundary.
CommitsRemoval(o) ==
    /\ attempt[o].at = "removed"
    /\ attempt[o].result = "removed" => Owns(o)
    /\ LET p == attempt[o].of IN
          /\ record' = IF Settles(attempt[o].result)
                       THEN [record EXCEPT ![p].cleaned = TRUE] ELSE record
          /\ attempt' = [attempt EXCEPT ![o].at = IF p = o THEN "cleaned" ELSE "previous",
                                        ![o].todo = @ \ {p}, ![o].of = Nobody]
    /\ UNCHANGED <<status, lease, file, got, sweep, blind, faults>>

-----------------------------------------------------------------------------
(* cleanup_orphaned_mssql_artifacts *)

\* Not the records of a run some attempt holds with a live lease.
Orphans == IF status = "running" /\ lease.live THEN {} ELSE Pending

SweepStarts(s) ==
    /\ sweep[s].at = "idle" /\ Orphans # {}
    /\ sweep' = [sweep EXCEPT ![s] = [at |-> "busy", todo |-> Orphans, marks |-> {}]]
    /\ UNCHANGED <<status, lease, attempt, record, file, got, blind, faults>>

SweepRemoves(s) ==
    /\ sweep[s].at = "busy"
    /\ \E p \in sweep[s].todo : \E r \in Removals(p) :
          /\ Remove(p, r)
          /\ sweep' = [sweep EXCEPT ![s].todo = @ \ {p},
                          ![s].marks = IF Settles(r.result) THEN @ \union {p} ELSE @]
    /\ UNCHANGED <<status, lease, attempt, record, got>>

\* One commit for all records of the sweep.
SweepCommits(s) ==
    /\ sweep[s].at = "busy" /\ sweep[s].todo = {}
    /\ record' = [p \in Operation |-> IF p \in sweep[s].marks
                                      THEN [record[p] EXCEPT !.cleaned = TRUE] ELSE record[p]]
    /\ sweep' = [sweep EXCEPT ![s] = NoSweep]
    /\ UNCHANGED <<status, lease, attempt, file, got, blind, faults>>

\* The worker dies: what it has removed is not marked.
SweepDies(s) ==
    /\ sweep[s].at = "busy" /\ Fault
    /\ sweep' = [sweep EXCEPT ![s] = NoSweep]
    /\ UNCHANGED <<status, lease, attempt, record, file, got, blind>>

Next ==
    \/ Expires
    \/ \E o \in Operation :
          \/ Claim(o) \/ Killed(o) \/ Raises(o) \/ Fails(o) \/ Succeeds(o)
          \/ Records(o) \/ AsksForBackup(o) \/ ServerCompletes(o) \/ Overwritten(o)
          \/ Copies(o) \/ RecordsRetrieval(o)
          \/ BeginsRemoval(o) \/ RemovesFile(o) \/ CommitsRemoval(o)
    \/ \E s \in Sweep :
          \/ SweepStarts(s) \/ SweepRemoves(s) \/ SweepCommits(s) \/ SweepDies(s)

Spec == Init /\ [][Next]_vars

-----------------------------------------------------------------------------
(* Properties *)

\* Whatever is at the path of an operation, complete or not, some record names it: an
\* attempt that dies during the backup leaves a file that can be found.
EveryFileIsRecorded == \A o \in Operation : file[o] # "none" => record[o].exists

\* The records are well formed and name every file on the server.
MssqlInv == MssqlTypeOK /\ EveryFileIsRecorded

\* A record marked cleaned has no file on the server any more, whoever marked it and
\* after whatever failures; except where the file could not be examined and the code
\* takes the error for a missing file.
CleanedIsGone == \A o \in Operation : record[o].cleaned => file[o] = "none" \/ o \in blind

\* A file is removed only while it is what its own operation has copied and hashed: not
\* when it is being written or was never retrieved, and not when it was replaced since.
RemovedIsRetrieved ==
    [][\A o \in Operation : file[o] # "none" /\ file'[o] = "none" => got[o] = file[o]]_vars
=============================================================================
