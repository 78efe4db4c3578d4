------------------------ MODULE MssqlArtifacts_proofs ------------------------
(***************************************************************************)
(* Proofs about MssqlArtifacts, for any attempts and sweeps and any number *)
(* of faults.                                                              *)
(*                                                                         *)
(* The inductive invariant says how far an attempt has come by what its    *)
(* record holds.  Its core is Retrieved: once a record says what was       *)
(* copied, its operation is past every step that writes the file or the    *)
(* copy, so that a file that was removed does not come back, and whatever  *)
(* matches the record is what was copied.                                  *)
(***************************************************************************)
EXTENDS MssqlArtifacts, TLAPS

\* The operation is before the retrieval of its own backup.
Before(o) ==
    \/ attempt[o].at \in {"idle", "previous", "recorded", "asked", "copied"}
    \/ attempt[o].at \in {"removing", "removed"} /\ attempt[o].of # o

\* What an attempt has done by the step it is at.
Progress ==
    \A o \in Operation :
       /\ attempt[o].at \in {"recorded", "asked", "copied"} => record[o].exists
       /\ attempt[o].at = "copied" => got[o] # "none"
       /\ attempt[o].at = "retrieved" => record[o].retrieved # "none"

\* A record says what was copied, and says it once.
Retrieved ==
    \A o \in Operation :
       record[o].retrieved # "none" => ~Before(o) /\ got[o] = record[o].retrieved

\* Only records of retrieved backups are worked on.
WorkIsRetrieved ==
    /\ \A o \in Operation :
          /\ \A p \in attempt[o].todo : record[p].retrieved # "none"
          /\ attempt[o].at \in {"removing", "removed"} =>
                record[attempt[o].of].retrieved # "none"
    /\ \A s \in Sweep : \A p \in sweep[s].todo \union sweep[s].marks :
          record[p].retrieved # "none"

\* The file of p is away, or nobody could look.
Gone(p) == file[p] = "none" \/ p \in blind

\* What is about to be marked cleaned is gone.
MarkedIsGone ==
    /\ \A o \in Operation :
          attempt[o].at = "removed" /\ Settles(attempt[o].result) => Gone(attempt[o].of)
    /\ \A s \in Sweep : \A p \in sweep[s].marks : Gone(p)

IInv ==
    /\ MssqlTypeOK /\ EveryFileIsRecorded
    /\ Progress /\ Retrieved /\ WorkIsRetrieved
    /\ MarkedIsGone /\ CleanedIsGone

-----------------------------------------------------------------------------
LEMMA ExpiresKeeps == ASSUME IInv, Expires PROVE IInv'
<1>1. lease' \in [by : Operation \union {Nobody}, live : BOOLEAN] /\ lease'.by = lease.by
  BY DEF IInv, MssqlTypeOK, Expires
<1>2. faults' \in 0 .. MaxFaults
  BY MssqlAssumption DEF IInv, MssqlTypeOK, Expires, Fault
<1>3. MssqlTypeOK'
  BY <1>1, <1>2 DEF IInv, MssqlTypeOK, Expires
<1>4. (EveryFileIsRecorded /\ Progress /\ Retrieved /\ WorkIsRetrieved)'
  BY DEF IInv, EveryFileIsRecorded, Progress, Retrieved, Before, WorkIsRetrieved, Expires
<1>5. (MarkedIsGone /\ CleanedIsGone)'
  BY DEF IInv, MarkedIsGone, CleanedIsGone, Gone, Expires
<1> QED BY <1>3, <1>4, <1>5 DEF IInv

LEMMA ClaimKeeps == ASSUME IInv, NEW o \in Operation, Claim(o) PROVE IInv'
<1>1. attempt' \in [Operation -> Attempt]
  <2>1. attempt[o] \in Attempt /\ Pending \subseteq Operation
    BY DEF IInv, MssqlTypeOK, Pending
  <2>2. [attempt[o] EXCEPT !.at = "previous", !.todo = Pending] \in Attempt
    BY <2>1 DEF Attempt
  <2> QED BY <2>2 DEF IInv, MssqlTypeOK, Claim
<1>2. MssqlTypeOK'
  BY <1>1, MssqlAssumption DEF IInv, MssqlTypeOK, Claim
<1>3. (EveryFileIsRecorded /\ Progress /\ Retrieved)'
  BY MssqlAssumption DEF IInv, MssqlTypeOK, EveryFileIsRecorded, Progress, Retrieved, Before,
                         Claim
<1>4. (WorkIsRetrieved /\ MarkedIsGone /\ CleanedIsGone)'
  BY MssqlAssumption DEF IInv, MssqlTypeOK, WorkIsRetrieved, MarkedIsGone, CleanedIsGone, Gone,
                         Claim, Pending
<1> QED BY <1>2, <1>3, <1>4 DEF IInv

LEMMA KilledKeeps == ASSUME IInv, NEW o \in Operation, Killed(o) PROVE IInv'
<1>1. attempt' \in [Operation -> Attempt]
  BY DEF IInv, MssqlTypeOK, Attempt, Killed, Fault, Moves
<1>2. MssqlTypeOK'
  BY <1>1, MssqlAssumption DEF IInv, MssqlTypeOK, Killed, Fault, Moves
<1>3. (EveryFileIsRecorded /\ Progress /\ Retrieved)'
  BY MssqlAssumption DEF IInv, EveryFileIsRecorded, Progress, Retrieved, Before, Killed, Moves
<1>4. (WorkIsRetrieved /\ MarkedIsGone /\ CleanedIsGone)'
  BY MssqlAssumption DEF IInv, WorkIsRetrieved, MarkedIsGone, CleanedIsGone, Gone, Killed, Moves
<1> QED BY <1>2, <1>3, <1>4 DEF IInv

LEMMA RaisesKeeps == ASSUME IInv, NEW o \in Operation, Raises(o) PROVE IInv'
<1>1. attempt' \in [Operation -> Attempt]
  BY DEF IInv, MssqlTypeOK, Attempt, Raises, Active, Fault, Moves, Owns
<1>2. MssqlTypeOK'
  BY <1>1, MssqlAssumption DEF IInv, MssqlTypeOK, Raises, Fault, Moves
<1>3. (EveryFileIsRecorded /\ Progress /\ Retrieved)'
  BY MssqlAssumption DEF IInv, EveryFileIsRecorded, Progress, Retrieved, Before, Raises, Moves
<1>4. (WorkIsRetrieved /\ MarkedIsGone /\ CleanedIsGone)'
  BY MssqlAssumption DEF IInv, WorkIsRetrieved, MarkedIsGone, CleanedIsGone, Gone, Raises, Moves
<1> QED BY <1>2, <1>3, <1>4 DEF IInv

LEMMA FinishKeeps ==
    ASSUME IInv, NEW o \in Operation, attempt[o].at \in {"failing", "cleaned"},
           NEW outcome \in {"failed", "succeeded"}, Finish(o, outcome)
    PROVE  IInv'
<1>1. attempt' \in [Operation -> Attempt]
  BY DEF IInv, MssqlTypeOK, Attempt, Finish, Moves
<1>2. /\ status' \in {"running", "failed", "succeeded"}
      /\ lease' \in [by : Operation \union {Nobody}, live : BOOLEAN]
      /\ status' # "running" => lease'.by = Nobody
  <2>1. CASE Owns(o)
    <3>1. status' = outcome /\ lease' = [by |-> Nobody, live |-> FALSE]
      BY <2>1 DEF Finish
    <3> QED BY <3>1
  <2>2. CASE ~Owns(o) BY <2>2 DEF Finish, IInv, MssqlTypeOK
  <2> QED BY <2>1, <2>2
<1>3. MssqlTypeOK'
  BY <1>1, <1>2 DEF IInv, MssqlTypeOK, Finish, Moves
<1>4. (EveryFileIsRecorded /\ Progress /\ Retrieved)'
  BY DEF IInv, EveryFileIsRecorded, Progress, Retrieved, Before, Finish, Moves
<1>5. (WorkIsRetrieved /\ MarkedIsGone /\ CleanedIsGone)'
  BY DEF IInv, WorkIsRetrieved, MarkedIsGone, CleanedIsGone, Gone, Finish, Moves
<1> QED BY <1>3, <1>4, <1>5 DEF IInv

LEMMA RecordsKeeps == ASSUME IInv, NEW o \in Operation, Records(o) PROVE IInv'
<1>1. attempt' \in [Operation -> Attempt]
  BY DEF IInv, MssqlTypeOK, Attempt, Records, Moves
<1>2. record' \in [Operation -> CleanupRecord]
  <2>1. [record[o] EXCEPT !.exists = TRUE] \in CleanupRecord
    BY DEF IInv, MssqlTypeOK, CleanupRecord
  <2> QED BY <2>1 DEF IInv, MssqlTypeOK, Records
<1>3. MssqlTypeOK'
  BY <1>1, <1>2, MssqlAssumption DEF IInv, MssqlTypeOK, Records, Moves
<1>4. (EveryFileIsRecorded /\ Progress /\ Retrieved)'
  BY MssqlAssumption DEF IInv, MssqlTypeOK, EveryFileIsRecorded, Progress, Retrieved, Before,
                         Records, Moves
<1>5. (WorkIsRetrieved /\ MarkedIsGone /\ CleanedIsGone)'
  BY MssqlAssumption DEF IInv, WorkIsRetrieved, MarkedIsGone, CleanedIsGone, Gone, Records, Moves
<1> QED BY <1>3, <1>4, <1>5 DEF IInv

LEMMA AsksForBackupKeeps == ASSUME IInv, NEW o \in Operation, AsksForBackup(o) PROVE IInv'
<1>1. attempt' \in [Operation -> Attempt]
  BY DEF IInv, MssqlTypeOK, Attempt, AsksForBackup, Moves
<1>2. MssqlTypeOK'
  BY <1>1, MssqlAssumption DEF IInv, MssqlTypeOK, Content, AsksForBackup, Moves
<1>3. (EveryFileIsRecorded /\ Progress /\ Retrieved)'
  BY MssqlAssumption DEF IInv, EveryFileIsRecorded, Progress, Retrieved, Before, AsksForBackup,
                         Moves
<1>4. (WorkIsRetrieved /\ MarkedIsGone /\ CleanedIsGone)'
  BY MssqlAssumption DEF IInv, MssqlTypeOK, Retrieved, Before, WorkIsRetrieved, MarkedIsGone,
                         CleanedIsGone, Gone, AsksForBackup, Moves
<1> QED BY <1>2, <1>3, <1>4 DEF IInv

LEMMA ServerCompletesKeeps == ASSUME IInv, NEW o \in Operation, ServerCompletes(o) PROVE IInv'
<1>1. MssqlTypeOK'
  BY MssqlAssumption DEF IInv, MssqlTypeOK, Content, ServerCompletes
<1>2. (EveryFileIsRecorded /\ Progress /\ Retrieved)'
  BY MssqlAssumption DEF IInv, EveryFileIsRecorded, Progress, Retrieved, Before, ServerCompletes
<1>3. (WorkIsRetrieved /\ MarkedIsGone /\ CleanedIsGone)'
  BY MssqlAssumption DEF IInv, WorkIsRetrieved, MarkedIsGone, CleanedIsGone, Gone, ServerCompletes
<1> QED BY <1>1, <1>2, <1>3 DEF IInv

LEMMA OverwrittenKeeps == ASSUME IInv, NEW o \in Operation, Overwritten(o) PROVE IInv'
<1>1. MssqlTypeOK'
  BY MssqlAssumption DEF IInv, MssqlTypeOK, Content, Overwritten, Fault
<1>2. (EveryFileIsRecorded /\ Progress /\ Retrieved)'
  BY MssqlAssumption DEF IInv, EveryFileIsRecorded, Progress, Retrieved, Before, Overwritten
<1>3. (WorkIsRetrieved /\ MarkedIsGone /\ CleanedIsGone)'
  BY MssqlAssumption DEF IInv, WorkIsRetrieved, MarkedIsGone, CleanedIsGone, Gone, Overwritten
<1> QED BY <1>1, <1>2, <1>3 DEF IInv

LEMMA CopiesKeeps == ASSUME IInv, NEW o \in Operation, Copies(o) PROVE IInv'
<1>1. attempt' \in [Operation -> Attempt]
  BY DEF IInv, MssqlTypeOK, Attempt, Copies, Moves
<1>2. MssqlTypeOK'
  BY <1>1, MssqlAssumption DEF IInv, MssqlTypeOK, Copies, Moves
<1>3. (EveryFileIsRecorded /\ Progress /\ Retrieved)'
  BY MssqlAssumption DEF IInv, MssqlTypeOK, EveryFileIsRecorded, Progress, Retrieved, Before,
                         Copies, Moves
<1>4. (WorkIsRetrieved /\ MarkedIsGone /\ CleanedIsGone)'
  BY MssqlAssumption DEF IInv, WorkIsRetrieved, MarkedIsGone, CleanedIsGone, Gone, Copies, Moves
<1> QED BY <1>2, <1>3, <1>4 DEF IInv

LEMMA RecordsRetrievalKeeps == ASSUME IInv, NEW o \in Operation, RecordsRetrieval(o) PROVE IInv'
<1>1. attempt' \in [Operation -> Attempt]
  BY DEF IInv, MssqlTypeOK, Attempt, RecordsRetrieval, Moves, Owns
<1>2. record' \in [Operation -> CleanupRecord]
  BY DEF IInv, MssqlTypeOK, CleanupRecord, RecordsRetrieval
<1>3. MssqlTypeOK'
  BY <1>1, <1>2, MssqlAssumption DEF IInv, MssqlTypeOK, Progress, RecordsRetrieval, Moves
<1>4. (EveryFileIsRecorded /\ Progress /\ Retrieved)'
  BY MssqlAssumption DEF IInv, MssqlTypeOK, EveryFileIsRecorded, Progress, Retrieved, Before,
                         RecordsRetrieval, Moves
<1>5. (WorkIsRetrieved /\ MarkedIsGone /\ CleanedIsGone)'
  BY MssqlAssumption DEF IInv, Progress, WorkIsRetrieved, MarkedIsGone, CleanedIsGone, Gone,
                         RecordsRetrieval, Moves
<1> QED BY <1>3, <1>4, <1>5 DEF IInv

LEMMA BeginsRemovalKeeps == ASSUME IInv, NEW o \in Operation, BeginsRemoval(o) PROVE IInv'
<1>1. attempt' \in [Operation -> Attempt]
  <2>1. attempt[o] \in Attempt
    BY DEF IInv, MssqlTypeOK
  <2>2. ASSUME NEW p \in Operation
        PROVE  [attempt[o] EXCEPT !.at = "removing", !.of = p] \in Attempt
    BY <2>1 DEF Attempt
  <2> QED BY <2>2 DEF IInv, MssqlTypeOK, BeginsRemoval
<1>2. MssqlTypeOK'
  BY <1>1, MssqlAssumption DEF IInv, MssqlTypeOK, BeginsRemoval
<1>3. (EveryFileIsRecorded /\ Progress /\ Retrieved)'
  BY MssqlAssumption DEF IInv, MssqlTypeOK, EveryFileIsRecorded, Progress, Retrieved, Before,
                         BeginsRemoval
<1>4. (WorkIsRetrieved /\ MarkedIsGone /\ CleanedIsGone)'
  BY MssqlAssumption DEF IInv, MssqlTypeOK, Progress, WorkIsRetrieved, MarkedIsGone,
                         CleanedIsGone, Gone, BeginsRemoval
<1> QED BY <1>2, <1>3, <1>4 DEF IInv

LEMMA CommitsRemovalKeeps == ASSUME IInv, NEW o \in Operation, CommitsRemoval(o) PROVE IInv'
<1>1. attempt' \in [Operation -> Attempt]
  BY DEF IInv, MssqlTypeOK, Attempt, CommitsRemoval
<1>2. record' \in [Operation -> CleanupRecord]
  <2>1. [record[attempt[o].of] EXCEPT !.cleaned = TRUE] \in CleanupRecord
    BY DEF IInv, MssqlTypeOK, Attempt, CommitsRemoval
  <2> QED BY <2>1 DEF IInv, MssqlTypeOK, CommitsRemoval
<1>3. MssqlTypeOK'
  BY <1>1, <1>2, MssqlAssumption DEF IInv, MssqlTypeOK, WorkIsRetrieved, CommitsRemoval
<1>4. (EveryFileIsRecorded /\ Progress /\ Retrieved)'
  BY MssqlAssumption DEF IInv, MssqlTypeOK, Attempt, CleanupRecord, Content, EveryFileIsRecorded,
                         CommitsRemoval
<1>5. (WorkIsRetrieved /\ MarkedIsGone /\ CleanedIsGone)'
  BY MssqlAssumption DEF IInv, MssqlTypeOK, Attempt, CleanupRecord, SweepState, Retrieved,
                         Before, Progress, CommitsRemoval
<1> QED BY <1>3, <1>4, <1>5 DEF IInv

LEMMA SweepStartsKeeps == ASSUME IInv, NEW s \in Sweep, SweepStarts(s) PROVE IInv'
<1>1. sweep' \in [Sweep -> SweepState]
  BY DEF IInv, MssqlTypeOK, SweepState, SweepStarts, Orphans, Pending
<1>2. MssqlTypeOK'
  BY <1>1, MssqlAssumption DEF IInv, MssqlTypeOK, SweepStarts
<1>3. (EveryFileIsRecorded /\ Progress /\ Retrieved)'
  BY MssqlAssumption DEF IInv, EveryFileIsRecorded, Progress, Retrieved, Before, SweepStarts
<1>4. (WorkIsRetrieved /\ MarkedIsGone /\ CleanedIsGone)'
  BY MssqlAssumption DEF IInv, WorkIsRetrieved, MarkedIsGone, CleanedIsGone, Gone, SweepStarts,
                         Orphans, Pending
<1> QED BY <1>2, <1>3, <1>4 DEF IInv

LEMMA SweepCommitsKeeps == ASSUME IInv, NEW s \in Sweep, SweepCommits(s) PROVE IInv'
<1>1. sweep' \in [Sweep -> SweepState]
  BY DEF IInv, MssqlTypeOK, SweepState, SweepCommits, NoSweep
<1>2. record' \in [Operation -> CleanupRecord]
  <2>1. ASSUME NEW p \in Operation
        PROVE  [record[p] EXCEPT !.cleaned = TRUE] \in CleanupRecord
    BY DEF IInv, MssqlTypeOK, CleanupRecord
  <2> QED BY <2>1 DEF IInv, MssqlTypeOK, SweepCommits
<1>3. MssqlTypeOK'
  BY <1>1, <1>2, MssqlAssumption DEF IInv, MssqlTypeOK, WorkIsRetrieved, SweepCommits
<1>4. (EveryFileIsRecorded /\ Progress /\ Retrieved)'
  BY MssqlAssumption DEF IInv, EveryFileIsRecorded, Progress, Retrieved, Before, SweepCommits
<1>5. (WorkIsRetrieved /\ MarkedIsGone /\ CleanedIsGone)'
  BY MssqlAssumption DEF IInv, MssqlTypeOK, Attempt, SweepState, WorkIsRetrieved, MarkedIsGone,
                         CleanedIsGone, Gone, SweepCommits, NoSweep
<1> QED BY <1>3, <1>4, <1>5 DEF IInv

LEMMA SweepDiesKeeps == ASSUME IInv, NEW s \in Sweep, SweepDies(s) PROVE IInv'
<1>1. sweep' \in [Sweep -> SweepState]
  BY DEF IInv, MssqlTypeOK, SweepState, SweepDies, NoSweep
<1>2. MssqlTypeOK'
  BY <1>1, MssqlAssumption DEF IInv, MssqlTypeOK, SweepDies, Fault
<1>3. (EveryFileIsRecorded /\ Progress /\ Retrieved)'
  BY MssqlAssumption DEF IInv, EveryFileIsRecorded, Progress, Retrieved, Before, SweepDies
<1>4. (WorkIsRetrieved /\ MarkedIsGone /\ CleanedIsGone)'
  BY MssqlAssumption DEF IInv, WorkIsRetrieved, MarkedIsGone, CleanedIsGone, Gone, SweepDies,
                         NoSweep
<1> QED BY <1>2, <1>3, <1>4 DEF IInv

\* What a removal of a retrieved backup does to files, whoever does it.
LEMMA RemoveEffect ==
    ASSUME IInv, NEW p \in Operation, NEW r \in Removals(p), Remove(p, r),
           record[p].retrieved # "none"
    PROVE  /\ r.result \in {"removed", "missing", "error"}
           /\ file' \in [Operation -> Content]
           /\ \A q \in Operation : file'[q] \in {file[q], "none"}
           /\ \A q \in Operation : file[q] # "none" /\ file'[q] = "none" => got[q] = file[q]
           /\ blind \subseteq blind' /\ blind' \subseteq Operation
           /\ Settles(r.result) => Gone(p)'
           /\ faults' \in 0 .. MaxFaults
<1>1. /\ r.result \in {"removed", "missing", "error"}
      /\ r.gone => file[p] = record[p].retrieved
      /\ Settles(r.result) => r.gone \/ r.unseen \/ file[p] = "none"
  BY DEF Removals, Removal, Matches, Settles
<1>2. file' = IF r.gone THEN [file EXCEPT ![p] = "none"] ELSE file
  BY DEF Remove
<1>3. got[p] = record[p].retrieved
  BY DEF IInv, Retrieved
<1>4. blind' = IF r.unseen THEN blind \union {p} ELSE blind
  BY DEF Remove
<1>5. faults' \in 0 .. MaxFaults
  BY MssqlAssumption DEF Remove, Fault, IInv, MssqlTypeOK
<1> QED BY <1>1, <1>2, <1>3, <1>4, <1>5 DEF IInv, MssqlTypeOK, Content, Gone

LEMMA RemovesFileKeeps ==
    ASSUME IInv, NEW o \in Operation, RemovesFile(o)
    PROVE  IInv' /\ \A q \in Operation : file[q] # "none" /\ file'[q] = "none" => got[q] = file[q]
<1>1. PICK p \in Operation : p = attempt[o].of /\ record[p].retrieved # "none"
  BY DEF IInv, MssqlTypeOK, Attempt, WorkIsRetrieved, RemovesFile
<1>2. PICK r \in Removals(p) :
         /\ Remove(p, r)
         /\ attempt' = [attempt EXCEPT ![o].at = "removed", ![o].result = r.result]
  BY <1>1 DEF RemovesFile
<1>3. /\ r.result \in {"removed", "missing", "error"}
      /\ file' \in [Operation -> Content]
      /\ \A q \in Operation : file'[q] \in {file[q], "none"}
      /\ \A q \in Operation : file[q] # "none" /\ file'[q] = "none" => got[q] = file[q]
      /\ blind \subseteq blind' /\ blind' \subseteq Operation
      /\ Settles(r.result) => Gone(p)'
      /\ faults' \in 0 .. MaxFaults
  BY <1>1, <1>2, RemoveEffect
<1>4. UNCHANGED <<status, lease, record, got, sweep>> /\ attempt[o].at = "removing"
  BY DEF RemovesFile
<1>5. attempt' \in [Operation -> Attempt]
  <2>1. attempt[o] \in Attempt
    BY DEF IInv, MssqlTypeOK
  <2>2. [attempt[o] EXCEPT !.at = "removed", !.result = r.result] \in Attempt
    BY <1>3, <2>1 DEF Attempt
  <2> QED BY <1>2, <2>2 DEF IInv, MssqlTypeOK
<1>6. /\ \A q \in Operation \ {o} : attempt'[q] = attempt[q]
      /\ attempt'[o].at = "removed" /\ attempt'[o].of = p
      /\ attempt'[o].todo = attempt[o].todo /\ attempt'[o].result = r.result
  BY <1>1, <1>2 DEF IInv, MssqlTypeOK, Attempt
<1>7. MssqlTypeOK'
  BY <1>1, <1>3, <1>4, <1>5, <1>6 DEF IInv, MssqlTypeOK
<1>8. (EveryFileIsRecorded /\ Progress /\ Retrieved /\ WorkIsRetrieved)'
  BY <1>1, <1>3, <1>4, <1>6
     DEF IInv, EveryFileIsRecorded, Progress, Retrieved, Before, WorkIsRetrieved
<1>9. (MarkedIsGone /\ CleanedIsGone)'
  BY <1>1, <1>3, <1>4, <1>6
     DEF IInv, MssqlTypeOK, Attempt, SweepState, MarkedIsGone, CleanedIsGone, Gone
<1> QED BY <1>3, <1>7, <1>8, <1>9 DEF IInv

LEMMA SweepRemovesKeeps ==
    ASSUME IInv, NEW s \in Sweep, SweepRemoves(s)
    PROVE  IInv' /\ \A q \in Operation : file[q] # "none" /\ file'[q] = "none" => got[q] = file[q]
<1>0. PICK p \in sweep[s].todo : \E r \in Removals(p) :
         /\ Remove(p, r)
         /\ sweep' = [sweep EXCEPT ![s].todo = @ \ {p},
                         ![s].marks = IF Settles(r.result) THEN @ \union {p} ELSE @]
  BY DEF SweepRemoves
<1>1. PICK r \in Removals(p) :
         /\ Remove(p, r)
         /\ sweep' = [sweep EXCEPT ![s].todo = @ \ {p},
                         ![s].marks = IF Settles(r.result) THEN @ \union {p} ELSE @]
  BY <1>0
<1>2. p \in Operation /\ record[p].retrieved # "none"
  BY DEF IInv, MssqlTypeOK, SweepState, WorkIsRetrieved
<1>3. /\ file' \in [Operation -> Content]
      /\ \A q \in Operation : file'[q] \in {file[q], "none"}
      /\ \A q \in Operation : file[q] # "none" /\ file'[q] = "none" => got[q] = file[q]
      /\ blind \subseteq blind' /\ blind' \subseteq Operation
      /\ Settles(r.result) => Gone(p)'
      /\ faults' \in 0 .. MaxFaults
  BY <1>1, <1>2, RemoveEffect
<1>4. UNCHANGED <<status, lease, attempt, record, got>>
  BY DEF SweepRemoves
<1> DEFINE marks == IF Settles(r.result) THEN sweep[s].marks \union {p} ELSE sweep[s].marks
<1>5. sweep' \in [Sweep -> SweepState]
  <2>1. [sweep[s] EXCEPT !.todo = sweep[s].todo \ {p}, !.marks = marks] \in SweepState
    BY <1>2 DEF IInv, MssqlTypeOK, SweepState
  <2> QED BY <1>1, <2>1 DEF IInv, MssqlTypeOK
<1>6. /\ \A t \in Sweep \ {s} : sweep'[t] = sweep[t]
      /\ sweep'[s].todo \subseteq sweep[s].todo /\ sweep'[s].marks = marks
  BY <1>1 DEF IInv, MssqlTypeOK, SweepState
<1>7. MssqlTypeOK'
  BY <1>3, <1>4, <1>5 DEF IInv, MssqlTypeOK
<1>8. (EveryFileIsRecorded /\ Progress /\ Retrieved /\ WorkIsRetrieved)'
  BY <1>2, <1>3, <1>4, <1>6
     DEF IInv, EveryFileIsRecorded, Progress, Retrieved, Before, WorkIsRetrieved
<1>9. (MarkedIsGone /\ CleanedIsGone)'
  BY <1>2, <1>3, <1>4, <1>6
     DEF IInv, MssqlTypeOK, Attempt, SweepState, MarkedIsGone, CleanedIsGone, Gone
<1> QED BY <1>3, <1>7, <1>8, <1>9 DEF IInv

-----------------------------------------------------------------------------
LEMMA InitHolds == ASSUME Init PROVE IInv
<1>1. attempt \in [Operation -> Attempt]
  BY DEF Init, Fresh, Attempt
<1>2. record \in [Operation -> CleanupRecord] /\ sweep \in [Sweep -> SweepState]
  BY DEF Init, NoRecord, CleanupRecord, Content, NoSweep, SweepState
<1>3. MssqlTypeOK
  <2>1. lease \in [by : Operation \union {Nobody}, live : BOOLEAN] /\ status = "running"
    BY DEF Init
  <2>2. file \in [Operation -> Content] /\ got \in [Operation -> Content \ {"partial"}]
    BY DEF Init, Content
  <2>3. \A o \in Operation : attempt[o].at = "idle" /\ record[o].retrieved = "none"
                              /\ ~record[o].cleaned
    BY DEF Init, Fresh, NoRecord
  <2>4. blind = {} /\ faults \in 0 .. MaxFaults
    BY MssqlAssumption DEF Init
  <2> QED BY <1>1, <1>2, <2>1, <2>2, <2>3, <2>4 DEF MssqlTypeOK
<1>4. EveryFileIsRecorded /\ Progress /\ Retrieved /\ WorkIsRetrieved /\ MarkedIsGone
  BY DEF Init, Fresh, NoRecord, NoSweep, EveryFileIsRecorded, Progress, Retrieved,
         WorkIsRetrieved, MarkedIsGone
<1>5. CleanedIsGone
  BY DEF Init, NoRecord, CleanedIsGone
<1> QED BY <1>3, <1>4, <1>5 DEF IInv

LEMMA SameKeeps == ASSUME IInv, UNCHANGED vars PROVE IInv'
BY DEF vars, IInv, MssqlTypeOK, EveryFileIsRecorded, Progress, Retrieved, Before,
       WorkIsRetrieved, MarkedIsGone, CleanedIsGone, Gone

\* A file goes only in a removal, and then it is what was copied.
GoesCopied ==
    \A o \in Operation : file[o] # "none" /\ file'[o] = "none" => got[o] = file[o]

LEMMA StepKeeps == ASSUME IInv, [Next]_vars PROVE IInv' /\ GoesCopied
<1>1. CASE Expires
  BY <1>1, ExpiresKeeps DEF Expires, GoesCopied
<1>2. ASSUME NEW o \in Operation, Claim(o) PROVE IInv' /\ GoesCopied
  BY <1>2, ClaimKeeps DEF Claim, GoesCopied
<1>3. ASSUME NEW o \in Operation, Killed(o) PROVE IInv' /\ GoesCopied
  BY <1>3, KilledKeeps DEF Killed, GoesCopied
<1>4. ASSUME NEW o \in Operation, Raises(o) PROVE IInv' /\ GoesCopied
  BY <1>4, RaisesKeeps DEF Raises, GoesCopied
<1>5. ASSUME NEW o \in Operation, Fails(o) PROVE IInv' /\ GoesCopied
  BY <1>5, FinishKeeps DEF Fails, Finish, GoesCopied
<1>6. ASSUME NEW o \in Operation, Succeeds(o) PROVE IInv' /\ GoesCopied
  BY <1>6, FinishKeeps DEF Succeeds, Finish, GoesCopied
<1>7. ASSUME NEW o \in Operation, Records(o) PROVE IInv' /\ GoesCopied
  BY <1>7, RecordsKeeps DEF Records, GoesCopied
<1>8. ASSUME NEW o \in Operation, AsksForBackup(o) PROVE IInv' /\ GoesCopied
  BY <1>8, AsksForBackupKeeps DEF AsksForBackup, GoesCopied, IInv, MssqlTypeOK
<1>9. ASSUME NEW o \in Operation, ServerCompletes(o) PROVE IInv' /\ GoesCopied
  BY <1>9, ServerCompletesKeeps DEF ServerCompletes, GoesCopied, IInv, MssqlTypeOK
<1>10. ASSUME NEW o \in Operation, Overwritten(o) PROVE IInv' /\ GoesCopied
  BY <1>10, OverwrittenKeeps DEF Overwritten, GoesCopied, IInv, MssqlTypeOK
<1>11. ASSUME NEW o \in Operation, Copies(o) PROVE IInv' /\ GoesCopied
  BY <1>11, CopiesKeeps DEF Copies, GoesCopied
<1>12. ASSUME NEW o \in Operation, RecordsRetrieval(o) PROVE IInv' /\ GoesCopied
  BY <1>12, RecordsRetrievalKeeps DEF RecordsRetrieval, GoesCopied
<1>13. ASSUME NEW o \in Operation, BeginsRemoval(o) PROVE IInv' /\ GoesCopied
  BY <1>13, BeginsRemovalKeeps DEF BeginsRemoval, GoesCopied
<1>14. ASSUME NEW o \in Operation, RemovesFile(o) PROVE IInv' /\ GoesCopied
  BY <1>14, RemovesFileKeeps DEF GoesCopied
<1>15. ASSUME NEW o \in Operation, CommitsRemoval(o) PROVE IInv' /\ GoesCopied
  BY <1>15, CommitsRemovalKeeps DEF CommitsRemoval, GoesCopied
<1>16. ASSUME NEW s \in Sweep, SweepStarts(s) PROVE IInv' /\ GoesCopied
  BY <1>16, SweepStartsKeeps DEF SweepStarts, GoesCopied
<1>17. ASSUME NEW s \in Sweep, SweepRemoves(s) PROVE IInv' /\ GoesCopied
  BY <1>17, SweepRemovesKeeps DEF GoesCopied
<1>18. ASSUME NEW s \in Sweep, SweepCommits(s) PROVE IInv' /\ GoesCopied
  BY <1>18, SweepCommitsKeeps DEF SweepCommits, GoesCopied
<1>19. ASSUME NEW s \in Sweep, SweepDies(s) PROVE IInv' /\ GoesCopied
  BY <1>19, SweepDiesKeeps DEF SweepDies, GoesCopied
<1>20. CASE UNCHANGED vars
  BY <1>20, SameKeeps DEF vars, GoesCopied
<1> QED
  BY <1>1, <1>2, <1>3, <1>4, <1>5, <1>6, <1>7, <1>8, <1>9, <1>10, <1>11, <1>12, <1>13, <1>14,
     <1>15, <1>16, <1>17, <1>18, <1>19, <1>20 DEF Next

-----------------------------------------------------------------------------
\* The inductive invariant holds: over kills, stalls, late attempts and sweeps, an
\* operation's record, file and copy agree with how far its attempt has come.
THEOREM Invariant == Spec => []IInv
<1>1. Init => IInv BY InitHolds
<1>2. IInv /\ [Next]_vars => IInv' BY StepKeeps
<1> QED BY <1>1, <1>2, PTL DEF Spec

\* Every state is well typed and every file on the server is named by a record that was
\* committed before the server was asked for it.
THEOREM FilesRecorded == Spec => []MssqlInv
<1>1. IInv => MssqlInv BY DEF IInv, MssqlInv
<1> QED BY <1>1, Invariant, PTL

\* A record that says cleaned says the truth, except for files nobody could examine.
THEOREM Cleaned == Spec => []CleanedIsGone
<1>1. IInv => CleanedIsGone BY DEF IInv
<1> QED BY <1>1, Invariant, PTL

\* Whoever removes a file, it is what its own operation has copied and hashed.
THEOREM Removed == Spec => RemovedIsRetrieved
<1>1. IInv /\ [Next]_vars =>
        [\A o \in Operation : file[o] # "none" /\ file'[o] = "none" => got[o] = file[o]]_vars
  BY StepKeeps DEF GoesCopied
<1> QED BY <1>1, Invariant, PTL DEF Spec, RemovedIsRetrieved
=============================================================================
