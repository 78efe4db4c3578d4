---------------------- MODULE GitlabAcquisition_proofs -----------------------
(***************************************************************************)
(* Proofs about GitlabAcquisition, for any runs, foreign backups and       *)
(* number of faults, local and remote.                                     *)
(*                                                                         *)
(* Why a run gets its own backup: its file cannot be in its first listing, *)
(* is there when its command has ended, and is removed by nobody else; so  *)
(* if exactly one file is new, it is its own.                              *)
(***************************************************************************)
EXTENDS GitlabAcquisition, FiniteSetTheorems, SequenceTheorems, TLAPS

\* What is seen, copied and received for a run was made by it.
Owned ==
    \A r \in Run :
       /\ r \notin job[r].before
       /\ job[r].at \in {"detected", "stable", "copied", "removed"} =>
             job[r].seen \in File /\ job[r].seen.by = r
       /\ job[r].copy = Nobody \/ (job[r].copy \in File /\ job[r].copy.by = r)
       /\ taken[r] = Nobody \/ (taken[r] \in File /\ taken[r].by = r)

\* Where the file of a run is, by the stage of the work for it.
Stages ==
    \A r \in Run :
       /\ run[r] = "idle" => job[r].at = "none"
       /\ job[r].at \in {"none", "queued"} => r \notin commands /\ native[r] = 0
       /\ r \in commands => job[r].at \in {"running", "failed", "lost"} /\ native[r] = 0
       /\ job[r].at = "exited" => native[r] # 0
       /\ job[r].at = "copied" => job[r].copy = job[r].seen
       /\ job[r].at = "removed" => native[r] = 0
       /\ run[r] = "collecting" => job[r].at = "removed"
       /\ run[r] = "done" => job[r].at = "removed" /\ job[r].copy = Nobody

\* Only faults rewrite a file.
Rewrites == \A m \in Maker : native[m] <= 1 + faults

IInv == GitlabTypeOK /\ Rewrites /\ Stages /\ Owned

-----------------------------------------------------------------------------
(* The queue of requests. *)

LEMMA QueueAppends ==
    ASSUME NEW q \in Seq(Run), IsInjective(q), NEW r \in Run, r \notin Range(q)
    PROVE  /\ Append(q, r) \in Seq(Run) /\ IsInjective(Append(q, r))
           /\ Range(Append(q, r)) = Range(q) \union {r}
<1> DEFINE p == Append(q, r)
<1>1. /\ p \in Seq(Run) /\ DOMAIN p = 1 .. Len(q) + 1 /\ DOMAIN q = 1 .. Len(q) /\ Len(q) \in Nat
      /\ \A i \in 1 .. Len(q) : p[i] = q[i] /\ p[i] \in Range(q)
      /\ p[Len(q) + 1] = r
  BY DEF Range
<1>2. IsInjective(p)
  <2>1. SUFFICES ASSUME NEW a \in DOMAIN p, NEW b \in DOMAIN p, p[a] = p[b] PROVE a = b
    BY DEF IsInjective
  <2>2. \A i, j \in 1 .. Len(q) : q[i] = q[j] => i = j
    BY <1>1 DEF IsInjective
  <2> HIDE DEF p
  <2> QED BY <1>1, <2>1, <2>2
<1>3. Range(p) = Range(q) \union {r}
  <2> HIDE DEF p
  <2> QED BY <1>1 DEF Range
<1> QED BY <1>1, <1>2, <1>3

LEMMA QueueServes ==
    ASSUME NEW q \in Seq(Run), IsInjective(q), q # <<>>
    PROVE  /\ Tail(q) \in Seq(Run) /\ IsInjective(Tail(q))
           /\ Range(Tail(q)) = Range(q) \ {Head(q)}
<1> DEFINE p == Tail(q)
<1>1. /\ p \in Seq(Run) /\ Len(q) \in Nat \ {0} /\ DOMAIN q = 1 .. Len(q) /\ Head(q) = q[1]
      /\ DOMAIN p = 1 .. Len(q) - 1
      /\ \A i \in 1 .. Len(q) - 1 : p[i] = q[i + 1]
  OBVIOUS
<1>2. \A i, j \in 1 .. Len(q) : q[i] = q[j] => i = j
  BY <1>1 DEF IsInjective
<1> HIDE DEF p
<1>3. IsInjective(p)
  <2>1. SUFFICES ASSUME NEW a \in DOMAIN p, NEW b \in DOMAIN p, p[a] = p[b] PROVE a = b
    BY DEF IsInjective
  <2> QED BY <1>1, <1>2, <2>1
<1>4. Range(p) = Range(q) \ {Head(q)}
  <2>1. ASSUME NEW x \in Range(p) PROVE x \in Range(q) /\ x # Head(q)
    <3>1. PICK i \in 1 .. Len(q) - 1 : x = p[i] BY <1>1 DEF Range
    <3>2. i + 1 \in 1 .. Len(q) /\ x = q[i + 1] /\ i + 1 # 1 BY <1>1, <3>1
    <3> QED BY <1>1, <1>2, <3>2 DEF Range
  <2>2. ASSUME NEW x \in Range(q), x # Head(q) PROVE x \in Range(p)
    <3>1. PICK i \in 1 .. Len(q) : x = q[i] BY <1>1 DEF Range
    <3>2. i - 1 \in 1 .. Len(q) - 1 /\ x = p[i - 1] BY <1>1, <2>2, <3>1
    <3> QED BY <1>1, <3>2 DEF Range
  <2> QED BY <2>1, <2>2
<1> QED BY <1>1, <1>3, <1>4 DEF p

\* A step of the work for a run whose request is not in the queue leaves the queue alone.
LEMMA WorkTyped ==
    ASSUME GitlabTypeOK, NEW r \in Run, job[r].at # "queued" \/ ~Local, NEW j \in Job,
           job' = [job EXCEPT ![r] = j], UNCHANGED <<location, up, queue>>
    PROVE  QueueOK' /\ job' \in [Run -> Job]
<1>1. \A s \in Range(queue) : s \in Run /\ s # r
  BY DEF GitlabTypeOK, QueueOK, Range
<1>2. \A s \in Range(queue) : job'[s] = job[s]
  BY <1>1 DEF GitlabTypeOK
<1> QED BY <1>2 DEF GitlabTypeOK, QueueOK, Local

-----------------------------------------------------------------------------
(* The worker's side. *)

LEMMA RefusedKeeps == ASSUME IInv, NEW r \in Run, Refused(r) PROVE IInv'
<1>1. GitlabTypeOK'
  BY DEF IInv, GitlabTypeOK, QueueOK, Refused, Local
<1>2. (Rewrites /\ Stages /\ Owned)'
  BY DEF IInv, GitlabTypeOK, Rewrites, Stages, Owned, Refused
<1> QED BY <1>1, <1>2 DEF IInv

LEMMA AsksKeeps == ASSUME IInv, NEW r \in Run, Asks(r) PROVE IInv'
<1>1. job' \in [Run -> Job] /\ job[r].at = "none"
  <2>1. job[r] \in Job /\ job[r].at = "none" BY DEF IInv, GitlabTypeOK, Stages, Asks
  <2>2. [job[r] EXCEPT !.at = "queued"] \in Job BY <2>1 DEF Job
  <2> QED BY <2>1, <2>2 DEF IInv, GitlabTypeOK, Asks
<1>2. QueueOK'
  <2>1. r \notin Range(queue) /\ \A s \in Range(queue) : job'[s] = job[s]
    BY <1>1 DEF IInv, GitlabTypeOK, QueueOK, Asks, Range
  <2>2. CASE Local
    <3>1. queue' \in Seq(Run) /\ IsInjective(queue') /\ Range(queue') = Range(queue) \union {r}
      BY <2>1, <2>2, QueueAppends DEF IInv, GitlabTypeOK, QueueOK, Asks
    <3>2. job'[r].at = "queued" /\ up' /\ Local'
      BY <2>2 DEF IInv, GitlabTypeOK, Asks, Unavailable, Local
    <3> QED BY <2>1, <3>1, <3>2 DEF IInv, GitlabTypeOK, QueueOK, Asks
  <2>3. CASE ~Local
    BY <2>1, <2>3 DEF IInv, GitlabTypeOK, QueueOK, Asks, Local
  <2> QED BY <2>2, <2>3
<1>3. GitlabTypeOK'
  <2>1. /\ lock' \in Run \union {Nobody}
        /\ run' \in [Run -> {"idle", "waiting", "collecting", "done", "failed"}]
    BY DEF IInv, GitlabTypeOK, Asks
  <2>2. (\A s \in Run : lock = s <=> Local /\ run[s] \in {"waiting", "collecting"})'
    BY GitlabAssumption DEF IInv, GitlabTypeOK, Asks, Unavailable, Local
  <2> QED BY <1>1, <1>2, <2>1, <2>2 DEF IInv, GitlabTypeOK, Asks
<1>4. (Rewrites /\ Owned)'
  BY <1>1 DEF IInv, GitlabTypeOK, Rewrites, Owned, Asks
<1>5. Stages'
  BY <1>1 DEF IInv, GitlabTypeOK, Stages, Asks
<1> QED BY <1>3, <1>4, <1>5 DEF IInv

\* However a run leaves, and whatever it costs.
LEMMA LeavesKeeps ==
    ASSUME IInv, NEW r \in Run, run[r] \in {"waiting", "collecting"}, Leaves(r),
           faults' \in faults .. MaxFaults
    PROVE  IInv'
<1>1. QueueOK' /\ job' \in [Run -> Job]
  <2>1. CASE Local
    BY <2>1 DEF IInv, GitlabTypeOK, QueueOK, Leaves, Local
  <2>2. CASE ~Local
    <3> DEFINE j == [job[r] EXCEPT !.at = "lost", !.copy = Nobody]
    <3>1. job[r] \in Job BY DEF IInv, GitlabTypeOK
    <3>2. j \in Job BY <3>1 DEF Job
    <3>3. job' = [job EXCEPT ![r] = j] BY <2>2 DEF IInv, GitlabTypeOK, Leaves
    <3> HIDE DEF j
    <3> QED BY <2>2, <3>2, <3>3, WorkTyped DEF IInv, Leaves
  <2> QED BY <2>1, <2>2
<1>2. GitlabTypeOK'
  <2>1. /\ lock' \in Run \union {Nobody}
        /\ run' \in [Run -> {"idle", "waiting", "collecting", "done", "failed"}]
    BY DEF IInv, GitlabTypeOK, Leaves, Released
  <2>2. (\A s \in Run : lock = s <=> Local /\ run[s] \in {"waiting", "collecting"})'
    BY GitlabAssumption DEF IInv, GitlabTypeOK, Leaves, Released, Local
  <2> QED BY <1>1, <2>1, <2>2 DEF IInv, GitlabTypeOK, Leaves
<1>3. Rewrites'
  BY GitlabAssumption DEF IInv, GitlabTypeOK, Rewrites, Leaves
<1>4. Stages'
  <2>1. CASE Local BY <2>1 DEF IInv, GitlabTypeOK, Stages, Leaves
  <2>2. CASE ~Local BY <2>2 DEF IInv, GitlabTypeOK, Stages, Job, Leaves
  <2> QED BY <2>1, <2>2
<1>5. Owned'
  <2>1. CASE Local BY <2>1 DEF IInv, GitlabTypeOK, Owned, Leaves
  <2>2. CASE ~Local BY <2>2 DEF IInv, GitlabTypeOK, Owned, Job, Leaves
  <2> QED BY <2>1, <2>2
<1> QED BY <1>2, <1>3, <1>4, <1>5 DEF IInv

LEMMA LearnsOfFileKeeps == ASSUME IInv, NEW r \in Run, LearnsOfFile(r) PROVE IInv'
<1>1. GitlabTypeOK'
  BY DEF IInv, GitlabTypeOK, QueueOK, LearnsOfFile, Local
<1>2. (Rewrites /\ Stages /\ Owned)'
  BY DEF IInv, GitlabTypeOK, Rewrites, Stages, Owned, LearnsOfFile
<1> QED BY <1>1, <1>2 DEF IInv

LEMMA CollectsKeeps == ASSUME IInv, NEW r \in Run, Collects(r) PROVE IInv'
<1> DEFINE j == [job[r] EXCEPT !.copy = Nobody]
<1>1. job[r] \in Job /\ job[r].at = "removed" /\ run[r] \in {"waiting", "collecting"}
  BY DEF IInv, GitlabTypeOK, Stages, Collects
<1>2. /\ j \in Job /\ j.at = "removed" /\ j.copy = Nobody
      /\ j.before = job[r].before /\ j.seen = job[r].seen
  BY <1>1 DEF Job
<1>3. job' = [job EXCEPT ![r] = j]
  BY DEF IInv, GitlabTypeOK, Collects
<1> HIDE DEF j
<1>4. QueueOK' /\ job' \in [Run -> Job]
  BY <1>1, <1>2, <1>3, WorkTyped DEF IInv, Collects
<1>5. GitlabTypeOK'
  <2>1. /\ lock' \in Run \union {Nobody}
        /\ run' \in [Run -> {"idle", "waiting", "collecting", "done", "failed"}]
    BY DEF IInv, GitlabTypeOK, Collects, Released
  <2>2. (\A s \in Run : lock = s <=> Local /\ run[s] \in {"waiting", "collecting"})'
    BY <1>1, GitlabAssumption DEF IInv, GitlabTypeOK, Collects, Released, Local
  <2>3. taken' \in [Run -> File \union {Nobody}]
    BY <1>1 DEF IInv, GitlabTypeOK, Job, Collects
  <2> QED BY <1>4, <2>1, <2>2, <2>3 DEF IInv, GitlabTypeOK, Collects
<1>6. (Rewrites /\ Stages)'
  BY <1>1, <1>2, <1>3 DEF IInv, GitlabTypeOK, Rewrites, Stages, Collects
<1>7. Owned'
  BY <1>1, <1>2, <1>3 DEF IInv, GitlabTypeOK, Owned, Collects
<1> QED BY <1>5, <1>6, <1>7 DEF IInv

-----------------------------------------------------------------------------
(* The work for a request. *)

LEMMA BeginsKeeps == ASSUME IInv, NEW r \in Run, Begins(r) PROVE IInv'
<1> DEFINE j == [job[r] EXCEPT !.at = "running", !.before = Listing]
<1>1. job[r] \in Job /\ job[r].at = "queued" /\ r \notin commands /\ native[r] = 0
  BY DEF IInv, GitlabTypeOK, Stages, Begins
<1>2. /\ j \in Job /\ j.at = "running" /\ r \notin j.before
      /\ j.copy = job[r].copy
  BY <1>1 DEF Job, Listing
<1>3. job' = [job EXCEPT ![r] = j]
  BY DEF IInv, GitlabTypeOK, Begins
<1> HIDE DEF j
<1>4. job' \in [Run -> Job]
  BY <1>2, <1>3 DEF IInv, GitlabTypeOK
<1>5. QueueOK'
  <2>1. CASE Local
    <3>1. queue' \in Seq(Run) /\ IsInjective(queue') /\ Range(queue') = Range(queue) \ {r}
      BY <2>1, QueueServes DEF IInv, GitlabTypeOK, QueueOK, Begins
    <3>2. \A s \in Range(queue') : s \in Range(queue) /\ s \in Run /\ s # r
      <4>1. \A s \in Range(queue) : s \in Run BY DEF IInv, GitlabTypeOK, QueueOK, Range
      <4> QED BY <3>1, <4>1
    <3>3. \A s \in Range(queue') : job'[s].at = "queued"
      BY <1>3, <3>2 DEF IInv, GitlabTypeOK, QueueOK
    <3>4. \A s \in Range(queue') : Local' /\ up'
      BY <2>1, <3>2 DEF IInv, GitlabTypeOK, QueueOK, Begins, Local
    <3> QED BY <3>1, <3>3, <3>4 DEF QueueOK
  <2>2. CASE ~Local
    BY <2>2 DEF IInv, GitlabTypeOK, QueueOK, Begins, Local
  <2> QED BY <2>1, <2>2
<1>6. GitlabTypeOK'
  BY <1>4, <1>5 DEF IInv, GitlabTypeOK, Begins, Local
<1>7. (Rewrites /\ Stages)'
  BY <1>1, <1>2, <1>3 DEF IInv, GitlabTypeOK, Rewrites, Stages, Begins
<1>8. Owned'
  <2>1. taken' = taken /\ job'[r] = j /\ \A s \in Run : s # r => job'[s] = job[s]
    BY <1>3 DEF IInv, GitlabTypeOK, Begins
  <2> QED BY <1>2, <2>1 DEF IInv, Owned
<1> QED BY <1>6, <1>7, <1>8 DEF IInv

\* The command of r ends, with its file written or without.
LEMMA CommandKeeps ==
    ASSUME IInv, NEW r \in Run, NEW stage \in {"exited", "failed"}, r \in commands,
           commands' = commands \ {r},
           native' = IF stage = "exited" THEN [native EXCEPT ![r] = 1] ELSE native,
           IF job[r].at = "running" THEN To(r, stage) ELSE UNCHANGED job,
           UNCHANGED <<location, up, queue, lock, run, taken, faults>>
    PROVE  IInv'
<1> DEFINE j == IF job[r].at = "running" THEN [job[r] EXCEPT !.at = stage] ELSE job[r]
<1>1. job[r] \in Job /\ job[r].at \in {"running", "failed", "lost"} /\ native[r] = 0
  BY DEF IInv, GitlabTypeOK, Stages
<1>2. /\ job[r].at = "running" => j = [job[r] EXCEPT !.at = stage]
      /\ job[r].at # "running" => j = job[r]
      /\ job' = [job EXCEPT ![r] = j]
  BY DEF IInv, GitlabTypeOK, To
<1> HIDE DEF j
<1>3. /\ j \in Job /\ j.before = job[r].before /\ j.copy = job[r].copy
      /\ j.at \in {"failed", "lost"} \/ (stage = "exited" /\ j.at = "exited")
  <2>1. CASE job[r].at = "running"
    <3>1. stage \in {"exited", "failed"} /\ j = [job[r] EXCEPT !.at = stage] BY <1>2, <2>1
    <3>2. j \in Job /\ j.at = stage /\ j.before = job[r].before /\ j.copy = job[r].copy
      BY <1>1, <3>1 DEF Job
    <3> QED BY <3>1, <3>2
  <2>2. CASE job[r].at # "running"
    <3>1. j = job[r] /\ job[r].at \in {"failed", "lost"} BY <1>1, <1>2, <2>2
    <3> QED BY <1>1, <3>1
  <2> QED BY <2>1, <2>2
<1>4. QueueOK' /\ job' \in [Run -> Job]
  BY <1>1, <1>2, <1>3, WorkTyped DEF IInv
<1>5. native' \in [Maker -> 0 .. 1 + MaxFaults] /\ \A m \in Maker : m # r => native'[m] = native[m]
  BY GitlabAssumption DEF IInv, GitlabTypeOK, Maker
<1>6. r \in Maker BY DEF Maker
<1>7. GitlabTypeOK'
  BY <1>4, <1>5 DEF IInv, GitlabTypeOK, Local
<1>8. Rewrites'
  BY <1>6 DEF IInv, GitlabTypeOK, Rewrites
<1>9. Stages'
  BY <1>1, <1>2, <1>3, <1>5, <1>6 DEF IInv, GitlabTypeOK, Stages, Maker
<1>10. Owned'
  BY <1>1, <1>2, <1>3 DEF IInv, GitlabTypeOK, Owned
<1> QED BY <1>7, <1>8, <1>9, <1>10 DEF IInv

\* A step for r that leaves its native file alone.
LEMMA StepKeepsFile ==
    ASSUME IInv, NEW r \in Run, InService(r), NEW j \in Job,
           job' = [job EXCEPT ![r] = j],
           j.at \in {"detected", "stable", "copied", "failed"}, j.before = job[r].before,
           j.at # "failed" => j.seen \in File /\ j.seen.by = r,
           j.copy = Nobody \/ (j.copy \in File /\ j.copy.by = r),
           j.at = "copied" => j.copy = j.seen,
           j.at # "failed" => r \notin commands,
           UNCHANGED <<location, up, queue, lock, run, commands, native, taken>>,
           faults' \in faults .. MaxFaults
    PROVE  IInv'
<1>1. QueueOK' /\ job' \in [Run -> Job]
  BY WorkTyped DEF IInv, InService
<1>2. GitlabTypeOK'
  BY <1>1 DEF IInv, GitlabTypeOK, Local
<1>3. Rewrites'
  BY GitlabAssumption DEF IInv, GitlabTypeOK, Rewrites
<1>4. Stages'
  BY DEF IInv, GitlabTypeOK, Stages, InService
<1>5. Owned'
  BY DEF IInv, GitlabTypeOK, Owned, InService
<1> QED BY <1>2, <1>3, <1>4, <1>5 DEF IInv

\* A step for r fails.
LEMMA FailureKeeps ==
    ASSUME IInv, NEW r \in Run, InService(r), NEW c \in {job[r].copy, Nobody},
           job' = [job EXCEPT ![r].at = "failed", ![r].copy = c],
           UNCHANGED <<location, up, queue, lock, run, commands, native, taken>>,
           faults' \in faults .. MaxFaults
    PROVE  IInv'
<1> DEFINE j == [job[r] EXCEPT !.at = "failed", !.copy = c]
<1>1. job[r] \in Job /\ (c = Nobody \/ (c \in File /\ c.by = r))
  BY DEF IInv, GitlabTypeOK, Owned
<1>2. j \in Job /\ j.at = "failed" /\ j.before = job[r].before /\ j.copy = c
  BY <1>1 DEF Job
<1>3. job' = [job EXCEPT ![r] = j]
  BY DEF IInv, GitlabTypeOK
<1> HIDE DEF j
<1> QED BY <1>1, <1>2, <1>3, StepKeepsFile

\* If exactly one file is new, it is the one of the run.
LEMMA OwnIsFound ==
    ASSUME IInv, NEW r \in Run, job[r].at = "exited", Accepts(Listing \ job[r].before)
    PROVE  Listing \ job[r].before = {r}
<1> DEFINE new == Listing \ job[r].before
<1>1. r \in new
  BY DEF IInv, Stages, Owned, Listing, Maker
<1>2. IsFiniteSet(new)
  <2>1. IsFiniteSet(Maker) BY GitlabAssumption, FS_Union DEF Maker
  <2>2. new \subseteq Maker BY DEF Listing
  <2> QED BY <2>1, <2>2, FS_Subset
<1>3. \E m : new = {m}
  BY <1>2, FS_Singleton DEF Accepts
<1> QED BY <1>1, <1>3

LEMMA DetectsKeeps == ASSUME IInv, NEW r \in Run, Detects(r) PROVE IInv'
<1>1. job[r] \in Job /\ job[r].at = "exited" /\ InService(r)
  BY DEF IInv, GitlabTypeOK, InService, Detects
<1>2. /\ UNCHANGED <<location, up, queue, lock, run, commands, native, taken>>
      /\ faults' \in faults .. MaxFaults
  BY GitlabAssumption DEF IInv, GitlabTypeOK, Detects
<1>3. CASE Accepts(Listing \ job[r].before)
  <2> DEFINE f == [by |-> r, rev |-> native[r]]
             j == [job[r] EXCEPT !.at = "detected", !.seen = f]
  <2>1. f \in File /\ f.by = r
    BY DEF IInv, GitlabTypeOK, Stages, Detects, File, Maker
  <2> HIDE DEF f
  <2>2. /\ j \in Job /\ j.at = "detected" /\ j.seen = f
        /\ j.before = job[r].before /\ j.copy = job[r].copy
    BY <1>1, <2>1 DEF Job
  <2>3. job' = [job EXCEPT ![r] = j]
    <3>1. Listing \ job[r].before = {r} BY <1>1, <1>3, OwnIsFound
    <3>2. job' = [job EXCEPT ![r].at = "detected", ![r].seen = f]
      BY <1>3, <3>1 DEF Detects, f
    <3> QED BY <3>2 DEF IInv, GitlabTypeOK
  <2> HIDE DEF j
  <2>4. r \notin commands /\ (j.copy = Nobody \/ (j.copy \in File /\ j.copy.by = r))
    BY <1>1, <2>2 DEF IInv, Stages, Owned
  <2> QED BY <1>1, <1>2, <2>1, <2>2, <2>3, <2>4, StepKeepsFile
<1>4. CASE ~Accepts(Listing \ job[r].before)
  <2>1. job' = [job EXCEPT ![r].at = "failed", ![r].copy = job[r].copy]
    BY <1>1, <1>4 DEF IInv, GitlabTypeOK, Detects, To, Job
  <2> QED BY <1>1, <1>2, <2>1, FailureKeeps
<1> QED BY <1>3, <1>4

LEMMA SettlesKeeps == ASSUME IInv, NEW r \in Run, Settles(r) PROVE IInv'
<1> DEFINE f == [job[r].seen EXCEPT !.rev = native[job[r].seen.by]]
           j == [job[r] EXCEPT !.at = "stable", !.seen = f]
<1>1. /\ job[r] \in Job /\ job[r].at = "detected" /\ InService(r)
      /\ job[r].seen \in File /\ job[r].seen.by = r
  BY DEF IInv, GitlabTypeOK, Owned, InService, Settles
<1>2. f \in File /\ f.by = r
  BY <1>1 DEF IInv, GitlabTypeOK, Settles, File
<1>3. job' = [job EXCEPT ![r] = j]
  BY <1>1 DEF IInv, GitlabTypeOK, Settles, Job
<1> HIDE DEF f
<1>4. /\ j \in Job /\ j.at = "stable" /\ j.seen = f
      /\ j.before = job[r].before /\ j.copy = job[r].copy
  BY <1>1, <1>2 DEF Job
<1> HIDE DEF j
<1>5. r \notin commands /\ (j.copy = Nobody \/ (j.copy \in File /\ j.copy.by = r))
  BY <1>1, <1>4 DEF IInv, Stages, Owned
<1>6. /\ UNCHANGED <<location, up, queue, lock, run, commands, native, taken>>
      /\ faults' \in faults .. MaxFaults
  BY GitlabAssumption DEF IInv, GitlabTypeOK, Settles
<1> QED BY <1>1, <1>2, <1>3, <1>4, <1>5, <1>6, StepKeepsFile

LEMMA CopiesKeeps == ASSUME IInv, NEW r \in Run, Copies(r) PROVE IInv'
<1> DEFINE j == [job[r] EXCEPT !.at = "copied", !.copy = job[r].seen]
<1>1. /\ job[r] \in Job /\ job[r].at = "stable" /\ InService(r)
      /\ job[r].seen \in File /\ job[r].seen.by = r /\ r \notin commands
  BY DEF IInv, GitlabTypeOK, Stages, Owned, InService, Copies
<1>2. /\ UNCHANGED <<location, up, queue, lock, run, commands, native, taken>>
      /\ faults' \in faults .. MaxFaults
  BY GitlabAssumption DEF IInv, GitlabTypeOK, Copies
<1>3. CASE Unchanged(r)
  <2>1. job' = [job EXCEPT ![r] = j]
    BY <1>3 DEF IInv, GitlabTypeOK, Copies
  <2>2. /\ j \in Job /\ j.at = "copied" /\ j.seen = job[r].seen /\ j.copy = job[r].seen
        /\ j.before = job[r].before
    BY <1>1 DEF Job
  <2> HIDE DEF j
  <2> QED BY <1>1, <1>2, <2>1, <2>2, StepKeepsFile
<1>4. CASE ~Unchanged(r)
  <2>1. job' = [job EXCEPT ![r].at = "failed", ![r].copy = job[r].copy]
    BY <1>1, <1>4 DEF IInv, GitlabTypeOK, Copies, To, Job
  <2> QED BY <1>1, <1>2, <2>1, FailureKeeps
<1> QED BY <1>3, <1>4

LEMMA RemovesKeeps == ASSUME IInv, NEW r \in Run, Removes(r) PROVE IInv'
<1>1. /\ job[r] \in Job /\ job[r].at = "copied" /\ InService(r)
      /\ job[r].seen \in File /\ job[r].seen.by = r /\ r \notin commands
  BY DEF IInv, GitlabTypeOK, Stages, Owned, InService, Removes
<1>2. CASE Unchanged(r)
  <2> DEFINE j == [job[r] EXCEPT !.at = "removed"]
  <2>1. job' = [job EXCEPT ![r] = j] /\ native' = [native EXCEPT ![r] = 0]
    BY <1>1, <1>2 DEF IInv, GitlabTypeOK, Removes, To
  <2>2. /\ j \in Job /\ j.at = "removed" /\ j.seen = job[r].seen /\ j.copy = job[r].copy
        /\ j.before = job[r].before
    BY <1>1 DEF Job
  <2> HIDE DEF j
  <2>3. QueueOK' /\ job' \in [Run -> Job]
    BY <1>1, <2>1, <2>2, WorkTyped DEF IInv, Removes
  <2>4. native' \in [Maker -> 0 .. 1 + MaxFaults]
    <3>1. native \in [Maker -> 0 .. 1 + MaxFaults] BY DEF IInv, GitlabTypeOK
    <3>2. 0 \in 0 .. 1 + MaxFaults BY GitlabAssumption
    <3> QED BY <2>1, <3>1, <3>2
  <2>5. GitlabTypeOK'
    BY <2>3, <2>4 DEF IInv, GitlabTypeOK, Removes, Local
  <2>6. Rewrites'
    BY <2>1, <1>1 DEF IInv, GitlabTypeOK, Rewrites, Removes
  <2>7. Stages'
    <3>1. r \in Maker BY DEF Maker
    <3> QED BY <1>1, <2>1, <2>2, <3>1 DEF IInv, GitlabTypeOK, Stages, Removes, Maker
  <2>8. Owned'
    BY <1>1, <2>1, <2>2 DEF IInv, GitlabTypeOK, Owned, Removes
  <2> QED BY <2>5, <2>6, <2>7, <2>8 DEF IInv
<1>3. CASE ~Unchanged(r)
  <2>1. /\ UNCHANGED <<location, up, queue, lock, run, commands, native, taken>>
        /\ faults' \in faults .. MaxFaults
    BY <1>3, GitlabAssumption DEF IInv, GitlabTypeOK, Removes
  <2>2. job' = [job EXCEPT ![r].at = "failed", ![r].copy = Nobody]
    BY <1>3 DEF Removes
  <2> QED BY <1>1, <2>1, <2>2, FailureKeeps
<1> QED BY <1>2, <1>3

LEMMA BreaksKeeps == ASSUME IInv, NEW r \in Run, Breaks(r) PROVE IInv'
<1>1. faults' \in faults .. MaxFaults
  BY GitlabAssumption DEF IInv, GitlabTypeOK, Breaks
<1>2. PICK c \in {job[r].copy, Nobody} : job' = [job EXCEPT ![r].at = "failed", ![r].copy = c]
  BY DEF Breaks
<1> QED BY <1>1, <1>2, FailureKeeps DEF Breaks

-----------------------------------------------------------------------------
(* The helper process and the world. *)

LEMMA HelperDiesKeeps == ASSUME IInv, HelperDies PROVE IInv'
<1>1. \A r \in Run : /\ job'[r] \in Job
                     /\ job'[r] = job[r] \/ job'[r] = [job[r] EXCEPT !.at = "lost"]
  BY DEF IInv, GitlabTypeOK, Job, HelperDies
<1>2. job' \in [Run -> Job]
  BY <1>1 DEF HelperDies
<1>3. QueueOK' /\ queue' \in Seq(Run)
  BY DEF QueueOK, HelperDies, IsInjective, Range
<1>4. GitlabTypeOK'
  <2>1. faults' \in 0 .. MaxFaults BY GitlabAssumption DEF IInv, GitlabTypeOK, HelperDies
  <2>2. (\A r \in Run : lock = r <=> Local /\ run[r] \in {"waiting", "collecting"})'
    BY DEF IInv, GitlabTypeOK, HelperDies, Local
  <2> QED BY <1>2, <1>3, <2>1, <2>2 DEF IInv, GitlabTypeOK, HelperDies
<1>5. Rewrites'
  BY GitlabAssumption DEF IInv, GitlabTypeOK, Rewrites, HelperDies
<1>6. Stages'
  BY DEF IInv, GitlabTypeOK, Stages, Job, InService, HelperDies
<1>7. Owned'
  BY DEF IInv, GitlabTypeOK, Owned, Job, HelperDies
<1> QED BY <1>4, <1>5, <1>6, <1>7 DEF IInv

LEMMA HelperStartsKeeps == ASSUME IInv, HelperStarts PROVE IInv'
<1>1. GitlabTypeOK'
  BY DEF IInv, GitlabTypeOK, QueueOK, HelperStarts, Local
<1>2. (Rewrites /\ Stages /\ Owned)'
  BY DEF IInv, Rewrites, Stages, Owned, HelperStarts
<1> QED BY <1>1, <1>2 DEF IInv

LEMMA ForeignBackupKeeps == ASSUME IInv, NEW m \in Foreign, ForeignBackup(m) PROVE IInv'
<1>1. native' \in [Maker -> 0 .. 1 + MaxFaults] /\ \A r \in Run : native'[r] = native[r]
  BY GitlabAssumption DEF IInv, GitlabTypeOK, ForeignBackup, Maker
<1>2. GitlabTypeOK'
  BY <1>1 DEF IInv, GitlabTypeOK, QueueOK, ForeignBackup, Local
<1>3. Rewrites'
  BY GitlabAssumption DEF IInv, GitlabTypeOK, Rewrites, ForeignBackup
<1>4. (Stages /\ Owned)'
  BY <1>1 DEF IInv, Stages, Owned, ForeignBackup
<1> QED BY <1>2, <1>3, <1>4 DEF IInv

LEMMA RewrittenKeeps == ASSUME IInv, NEW m \in Maker, Rewritten(m) PROVE IInv'
<1>1. /\ native[m] \in 1 .. 1 + faults /\ faults' = faults + 1 /\ faults' \in 0 .. MaxFaults
      /\ native' = [native EXCEPT ![m] = native[m] + 1]
  BY GitlabAssumption DEF IInv, GitlabTypeOK, Rewrites, Rewritten
<1>2. native' \in [Maker -> 0 .. 1 + MaxFaults] /\ Rewrites'
  BY <1>1, GitlabAssumption DEF IInv, GitlabTypeOK, Rewrites
<1>3. GitlabTypeOK'
  BY <1>1, <1>2 DEF IInv, GitlabTypeOK, QueueOK, Rewritten, Local
<1>4. \A r \in Run : native'[r] = 0 <=> native[r] = 0
  BY <1>1 DEF IInv, GitlabTypeOK, Maker
<1>5. (Stages /\ Owned)'
  BY <1>4 DEF IInv, Stages, Owned, Rewritten
<1> QED BY <1>2, <1>3, <1>5 DEF IInv

-----------------------------------------------------------------------------
(* Theorems *)

LEMMA InitIsGood == ASSUME Init PROVE IInv
<1>1. GitlabTypeOK
  <2>1. NoJob \in Job BY DEF NoJob, Job
  <2>2. QueueOK BY DEF Init, QueueOK, IsInjective, Range
  <2> QED BY <2>1, <2>2, GitlabAssumption DEF Init, GitlabTypeOK
<1>2. Rewrites
  BY GitlabAssumption DEF Init, Rewrites
<1>3. Stages
  BY DEF Init, Stages, NoJob, Maker
<1>4. Owned
  BY DEF Init, Owned, NoJob
<1> QED BY <1>1, <1>2, <1>3, <1>4 DEF IInv

LEMMA StepKeeps == ASSUME IInv, [Next]_vars PROVE IInv'
<1>1. ASSUME NEW r \in Run,
             GivesUp(r) \/ Dies(r) \/ LearnsOfFailure(r)
      PROVE  IInv'
  <2>1. Leaves(r) /\ run[r] \in {"waiting", "collecting"}
    BY <1>1 DEF GivesUp, Dies, LearnsOfFailure
  <2>2. faults' \in faults .. MaxFaults
    BY <1>1, GitlabAssumption DEF IInv, GitlabTypeOK, GivesUp, Dies, LearnsOfFailure
  <2> QED BY <2>1, <2>2, LeavesKeeps
<1>2. ASSUME NEW r \in Run,
             Refused(r) \/ Asks(r) \/ LearnsOfFile(r) \/ Collects(r)
      PROVE  IInv'
  BY <1>2, RefusedKeeps, AsksKeeps, LearnsOfFileKeeps, CollectsKeeps
<1>3. ASSUME NEW r \in Run,
             Begins(r) \/ Detects(r) \/ Settles(r) \/ Copies(r) \/ Removes(r) \/ Breaks(r)
      PROVE  IInv'
  BY <1>3, BeginsKeeps, DetectsKeeps, SettlesKeeps, CopiesKeeps, RemovesKeeps, BreaksKeeps
<1>4. ASSUME NEW r \in Run, CommandEnds(r) \/ CommandFails(r) PROVE IInv'
  <2>1. CASE CommandEnds(r) BY <2>1, CommandKeeps DEF CommandEnds
  <2>2. CASE CommandFails(r) BY <2>2, CommandKeeps DEF CommandFails
  <2> QED BY <1>4, <2>1, <2>2
<1>5. CASE HelperDies \/ HelperStarts BY <1>5, HelperDiesKeeps, HelperStartsKeeps
<1>6. ASSUME NEW m \in Maker, (m \in Foreign /\ ForeignBackup(m)) \/ Rewritten(m) PROVE IInv'
  BY <1>6, ForeignBackupKeeps, RewrittenKeeps
<1>7. CASE UNCHANGED vars
  BY <1>7 DEF vars, IInv, GitlabTypeOK, QueueOK, Local, Rewrites, Stages, Owned
<1> QED BY <1>1, <1>2, <1>3, <1>4, <1>5, <1>6, <1>7 DEF Next, Maker

\* The inductive invariant holds in every state of gitlab.py and gitlab_helper.py.
THEOREM Invariant == Spec => []IInv
<1> QED BY InitIsGood, StepKeeps, PTL DEF Spec

\* Every run receives its own backup only, and one that succeeds leaves nothing behind.
THEOREM OwnBackupOnly == Spec => []GitlabInv
<1>1. IInv => GitlabInv
  BY DEF IInv, GitlabInv, Stages, Owned, OwnBackup, SourceIsCleaned
<1> QED BY <1>1, Invariant, PTL

\* A native backup goes only when a copy of it as it is has been verified.
THEOREM Removed == Spec => RemovedIsCopied
<1>1. ASSUME IInv, [Next]_vars, NEW m \in Maker, native[m] # 0, native'[m] = 0
      PROVE  \E r \in Run : job[r].copy = [by |-> m, rev |-> native[m]]
  <2>1. native[m] + 1 # 0 BY <1>1 DEF IInv, GitlabTypeOK
  <2>2. PICK r \in Run : Removes(r) /\ Unchanged(r)
    <3>1. ASSUME NEW r \in Run,
                 \/ Refused(r) \/ Asks(r) \/ GivesUp(r) \/ Dies(r) \/ LearnsOfFailure(r)
                 \/ LearnsOfFile(r) \/ Collects(r) \/ Begins(r) \/ CommandEnds(r)
                 \/ CommandFails(r) \/ Detects(r) \/ Settles(r) \/ Copies(r) \/ Breaks(r)
          PROVE  FALSE
      <4>1. native' = native \/ native' = [native EXCEPT ![r] = 1]
        BY <3>1 DEF Refused, Asks, GivesUp, Dies, Leaves, LearnsOfFailure, LearnsOfFile, Collects,
                    Begins, CommandEnds, CommandFails, Detects, Settles, Copies, Breaks
      <4> QED BY <1>1, <4>1 DEF IInv, GitlabTypeOK
    <3>2. ~HelperDies /\ ~HelperStarts /\ ~UNCHANGED vars
      BY <1>1 DEF HelperDies, HelperStarts, vars
    <3>3. ASSUME NEW n \in Maker, (n \in Foreign /\ ForeignBackup(n)) \/ Rewritten(n) PROVE FALSE
      BY <1>1, <2>1, <3>3 DEF IInv, GitlabTypeOK, ForeignBackup, Rewritten
    <3>4. ASSUME NEW r \in Run, Removes(r), ~Unchanged(r) PROVE FALSE
      BY <1>1, <3>4 DEF Removes
    <3> QED BY <1>1, <3>1, <3>2, <3>3, <3>4 DEF Next, Maker
  <2>3. job[r].copy = job[r].seen /\ job[r].seen \in File /\ job[r].at = "copied"
    BY <1>1, <2>2 DEF IInv, Stages, Owned, Removes
  <2>4. job[r].seen.by = m
    BY <1>1, <2>2 DEF IInv, GitlabTypeOK, Removes
  <2> QED BY <2>2, <2>3, <2>4 DEF Unchanged, File
<1>2. IInv /\ [Next]_vars =>
        [\A m \in Maker : native[m] # 0 /\ native'[m] = 0 =>
            \E r \in Run : job[r].copy = [by |-> m, rev |-> native[m]]]_vars
  BY <1>1
<1> QED BY <1>2, Invariant, PTL DEF Spec, RemovedIsCopied
=============================================================================
