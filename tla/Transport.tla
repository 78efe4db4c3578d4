----------------------------- MODULE Transport ------------------------------
(***************************************************************************)
(* TelegramUploadTransport (infrastructure/telegram/transport.py): the one *)
(* owner of a worker's Telegram session.  It connects a client and logs it *)
(* in, serializes uploads, and retires a client it no longer trusts.       *)
(*                                                                         *)
(* A step runs from one await to the next.  Two workers are started on the *)
(* same session file; each has a prepare at startup, concurrent uploads,   *)
(* and a close when its uploads have ended.  Either may be killed.         *)
(* Telethon and Telegram are what this code uses of them: a disconnect     *)
(* ends, fails or hangs; a connect or a login may take effect although its *)
(* answer is lost; the login of a session may be revoked.                  *)
(***************************************************************************)
EXTENDS Naturals

CONSTANTS
    Worker,     \* worker processes
    Upload,     \* concurrent uploads of a worker
    Nobody,     \* no worker, no task
    MaxSends,   \* bound: uploads begun
    MaxFaults   \* bound: kills, dropped connections and revocations

ASSUME TransportAssumption ==
    /\ Nobody \notin Worker \union Upload \union {"main"} /\ "main" \notin Upload
    /\ MaxSends \in Nat /\ MaxFaults \in Nat

Task == Upload \union {"main"}

VARIABLES
    key,      \* the session file holds an authorization key
    login,    \* what Telegram knows of that key: "none", "bot" or "revoked"
    marker,   \* the .worker-bootstrap file exists
    flock,    \* worker that holds the lock on the session
    worker,   \* state of each worker process, see Off
    verified, \* history: the session was verified and its marker removed
    sends,    \* uploads begun, at most MaxSends
    faults    \* faults so far, at most MaxFaults

vars == <<key, login, marker, flock, worker, verified, sends, faults>>

\* stage: what run_worker does.  client, closing, trusted: self.client, self._closing
\* and self._authorized.  writers: clients that may still use the session file.
\* lock: the task that holds self._lock.  at: the await at which each task is, "idle"
\* outside the transport.  may: what _may_bootstrap said to the task that holds the
\* lock, and outcome: how its call will end.  send: client.send_file of each task.
\* lost, a history: an upload that was acknowledged has ended in an error.
Off == [stage |-> "off", client |-> "none", closing |-> "none", trusted |-> FALSE,
        writers |-> 0, lock |-> Nobody, at |-> [t \in Task |-> "idle"], may |-> FALSE,
        outcome |-> "none",
        send |-> [t \in Task |-> "none"], lost |-> FALSE]

Await == {"idle", "lock", "replace", "connect", "check", "sign_in", "recheck", "unmark",
          "send", "retire"}

WorkerState == [stage : {"off", "prepare", "serve", "close", "exit"},
                client : {"none", "new", "connected", "dropped"},
                closing : {"none", "pending", "finished", "failed"}, trusted : BOOLEAN,
                writers : Nat, lock : Task \union {Nobody}, at : [Task -> Await], may : BOOLEAN,
                outcome : {"none", "error", "cancelled"},
                send : [Task -> {"none", "running", "answered", "failed"}], lost : BOOLEAN]

TransportTypeOK ==
    /\ key \in BOOLEAN /\ marker \in BOOLEAN /\ verified \in BOOLEAN
    /\ login \in {"none", "bot", "revoked"}
    /\ flock \in Worker \union {Nobody}
    /\ worker \in [Worker -> WorkerState]
    /\ \A w \in Worker : LET r == worker[w] IN
          /\ r.stage \in {"prepare", "serve", "close"} => flock = w
          /\ r.client = "none" => r.closing = "none" /\ ~ r.trusted
          /\ \A t \in Task : (r.at[t] \notin {"idle", "lock"}) = (r.lock = t)
    /\ sends \in 0 .. MaxSends /\ faults \in 0 .. MaxFaults

\* A session file that Telegram has not seen yet.
Init ==
    /\ key = FALSE /\ login = "none" /\ marker = FALSE /\ flock = Nobody /\ verified = FALSE
    /\ worker = [w \in Worker |-> Off]
    /\ sends = 0 /\ faults = 0

(***************************************************************************)
(* What a task does between two awaits, as functions of a worker's state   *)
(***************************************************************************)

\* close gives the session lock back only when the client is gone.
ReleasesAlways(r, t) == r.stage = "close"
Releases(r, t)       == r.stage = "close" /\ r.client = "none"

\* is_connected: the heartbeat and the failure path ask it.  A dropped client is one
\* that has lost its connection or whose background loop has failed.
IsConnected(r) == r.client = "connected" /\ r.trusted /\ r.closing = "none"

\* The method returns and the lock is released; run_worker goes on after its own.
Returns(r, t, outcome) ==
    [r EXCEPT !.at[t] = "idle", !.lock = Nobody, !.send[t] = "none", !.outcome = "none",
              !.may = FALSE,
              !.stage = CASE t # "main" -> @
                          [] @ = "prepare" -> IF outcome = "cancelled" THEN "close" ELSE "serve"
                          [] OTHER -> "exit"]

\* _retire: one disconnect for each client, whoever waits for it.
Retire(r, t, await) ==
    [r EXCEPT !.closing = IF @ = "none" THEN "pending" ELSE @, !.at[t] = await]

\* The except clause of send_file, and of prepare, which always retires.  The
\* upload has been cancelled by then.
Fails(r, t, outcome, transient) ==
    LET cancelled == [r EXCEPT !.send[t] = "none", !.outcome = outcome,
                               !.lost = @ \/ (r.send[t] = "answered" /\ outcome = "error")]
    IN  IF r.client # "none" /\ (transient \/ t = "main" \/ ~ IsConnected(r))
        THEN Retire(cancelled, t, "retire")
        ELSE Returns(cancelled, t, outcome)

\* _ensure_ready up to its first await.
Damaged(r) == r.client # "none" /\ (r.closing # "none" \/ r.client # "connected")

NewClient(r, t, bootstrap) ==
    [r EXCEPT !.client = "new", !.writers = @ + 1, !.may = bootstrap, !.at[t] = "connect"]

\* _may_bootstrap: the marker is there, or is made because the session has no key.
MayBootstrap         == marker \/ ~ key

EnsureReady(w, r, t) ==
    IF Damaged(r)
    THEN worker' = [worker EXCEPT ![w] = Retire(r, t, "replace")] /\ UNCHANGED marker
    ELSE IF r.client = "none"
    THEN /\ worker' = [worker EXCEPT ![w] = NewClient(r, t, MayBootstrap)]
         /\ marker' = MayBootstrap
    ELSE worker' = [worker EXCEPT ![w] = [r EXCEPT !.at[t] = "check"]] /\ UNCHANGED marker

Sets(w, r) == worker' = [worker EXCEPT ![w] = r]
At(w, t, await) == worker[w].at[t] = await

(***************************************************************************)
(* The worker                                                              *)
(***************************************************************************)

\* The constructor takes the lock on the session, or the worker does not start.
Start(w) ==
    /\ worker[w].stage = "off" /\ flock = Nobody
    /\ flock' = w
    /\ Sets(w, [Off EXCEPT !.stage = "prepare", !.at["main"] = "lock"])
    /\ UNCHANGED <<key, login, marker, verified, sends, faults>>

BeginSend(w, t) ==
    /\ t \in Upload /\ At(w, t, "idle") /\ worker[w].stage = "serve"
    /\ sends < MaxSends /\ sends' = sends + 1
    /\ Sets(w, [worker[w] EXCEPT !.at[t] = "lock"])
    /\ UNCHANGED <<key, login, marker, flock, verified, faults>>

\* The worker has cancelled its runs and waited for them.
Stop(w) ==
    /\ worker[w].stage \in {"serve", "close"} /\ \A t \in Task : At(w, t, "idle")
    /\ Sets(w, [worker[w] EXCEPT !.stage = "close", !.at["main"] = "lock"])
    /\ UNCHANGED <<key, login, marker, flock, verified, sends, faults>>

\* The process that exits gives the session lock back at last, with whatever still
\* used the session.
Exit(w) ==
    /\ worker[w].stage = "exit"
    /\ flock' = IF flock = w THEN Nobody ELSE flock
    /\ Sets(w, Off)
    /\ UNCHANGED <<key, login, marker, verified, sends, faults>>

\* A killed process leaves the session as its last request left it.
Kill(w) ==
    /\ worker[w].stage # "off"
    /\ faults < MaxFaults /\ faults' = faults + 1
    /\ flock' = IF flock = w THEN Nobody ELSE flock
    /\ Sets(w, Off)
    /\ key' \in {key, key \/ \E t \in Task : At(w, t, "connect")}
    /\ login' \in {login, IF \E t \in Task : At(w, t, "sign_in") THEN "bot" ELSE login}
    /\ UNCHANGED <<marker, verified, sends>>

(***************************************************************************)
(* The methods, await by await                                             *)
(***************************************************************************)

\* The end of a method; the end of close may give the lock on the session back.
Ends(w, t, r, outcome) ==
    /\ Sets(w, Returns(r, t, outcome))
    /\ flock' = IF Releases(r, t) THEN Nobody ELSE flock

Enters(w, t) ==
    /\ At(w, t, "lock") /\ worker[w].lock = Nobody
    /\ LET r == [worker[w] EXCEPT !.lock = t]
       IN  IF r.stage # "close" THEN EnsureReady(w, r, t) /\ UNCHANGED flock
           ELSE /\ IF r.client = "none" THEN Ends(w, t, r, "none")
                   ELSE Sets(w, Retire(r, t, "retire")) /\ UNCHANGED flock
                /\ UNCHANGED marker
    /\ UNCHANGED <<key, login, verified, sends, faults>>

\* The client's disconnect, whoever waits for it.  One that fails has not finished
\* with the session; one that hangs never ends.
Disconnect(w) ==
    /\ worker[w].closing = "pending"
    /\ \/ Sets(w, [worker[w] EXCEPT !.closing = "finished", !.writers = @ - 1])
       \/ Sets(w, [worker[w] EXCEPT !.closing = "failed"])
    /\ UNCHANGED <<key, login, marker, flock, verified, sends, faults>>

Retired(w, t) ==
    /\ At(w, t, "replace") \/ At(w, t, "retire")
    /\ worker[w].closing = "finished"
    /\ LET r == [worker[w] EXCEPT !.client = "none", !.closing = "none", !.trusted = FALSE]
       IN  IF At(w, t, "replace")
           THEN EnsureReady(w, r, t) /\ UNCHANGED flock
           ELSE Ends(w, t, r, r.outcome) /\ UNCHANGED marker
    /\ UNCHANGED <<key, login, verified, sends, faults>>

RetireFailsOnError(w, t) ==
    /\ worker[w].closing = "failed" /\ At(w, t, "retire")
    /\ Ends(w, t, worker[w], worker[w].outcome)
    /\ UNCHANGED <<key, login, marker, verified, sends, faults>>

\* close_timeout, or a disconnect that has failed: the client stays.
RetireFails(w, t) ==
    /\ worker[w].closing # "finished"
    /\ \/ At(w, t, "replace") /\ Sets(w, Fails(worker[w], t, "error", TRUE)) /\ UNCHANGED flock
       \/ At(w, t, "retire") /\ Ends(w, t, worker[w], worker[w].outcome)
    /\ UNCHANGED <<key, login, marker, verified, sends, faults>>

\* connect: it makes and stores the key; that may happen although it then fails.
Connects(w, t) ==
    /\ At(w, t, "connect")
    /\ \/ /\ Sets(w, [worker[w] EXCEPT !.client = "connected", !.at[t] = "check"])
          /\ key' = TRUE
       \/ /\ Sets(w, Fails(worker[w], t, "error", TRUE))
          /\ key' \in {key, TRUE}
    /\ UNCHANGED <<login, marker, flock, verified, sends, faults>>

\* is_user_authorized, before a first login and after it.
MaySignInUnasked(r) == TRUE
MaySignIn(r)        == r.may

Checks(w, t) ==
    LET r == worker[w]
    IN  /\ At(w, t, "check") \/ At(w, t, "recheck")
        /\ r.client = "connected"
        /\ Sets(w, IF login = "bot" THEN [r EXCEPT !.trusted = TRUE, !.at[t] = "unmark"]
                   ELSE IF At(w, t, "check") /\ MaySignIn(r) THEN [r EXCEPT !.at[t] = "sign_in"]
                   ELSE Fails(r, t, "error", FALSE))
        /\ UNCHANGED <<key, login, marker, flock, verified, sends, faults>>

SignsIn(w, t) ==
    /\ At(w, t, "sign_in") /\ worker[w].client = "connected"
    /\ login' = "bot"
    /\ Sets(w, [worker[w] EXCEPT !.at[t] = "recheck"])
    /\ UNCHANGED <<key, marker, flock, verified, sends, faults>>

\* An error or connect_timeout; the login may have reached Telegram all the same.
RequestFails(w, t) ==
    /\ At(w, t, "check") \/ At(w, t, "sign_in") \/ At(w, t, "recheck")
    /\ \E transient \in BOOLEAN : Sets(w, Fails(worker[w], t, "error", transient))
    /\ login' \in {login, IF At(w, t, "sign_in") THEN "bot" ELSE login}
    /\ UNCHANGED <<key, marker, flock, verified, sends, faults>>

\* The marker is removed in a thread; prepare ends here, an upload is sent now.
Unmarks(w, t) ==
    /\ At(w, t, "unmark")
    /\ marker' = FALSE /\ verified' = TRUE
    /\ IF t = "main"
       THEN Ends(w, t, worker[w], "none")
       ELSE Sets(w, [worker[w] EXCEPT !.at[t] = "send", !.send[t] = "running"]) /\ UNCHANGED flock
    /\ UNCHANGED <<key, login, sends, faults>>

SendEnds(w, t) ==
    /\ worker[w].send[t] = "running"
    /\ \/ worker[w].client = "connected" /\ Sets(w, [worker[w] EXCEPT !.send[t] = "answered"])
       \/ Sets(w, [worker[w] EXCEPT !.send[t] = "failed"])
    /\ UNCHANGED <<key, login, marker, flock, verified, sends, faults>>

\* asyncio.wait: the upload or its watch has ended, perhaps both.
OutcomeOfWatch(r, t) == IF r.client = "connected" /\ r.send[t] = "answered" THEN "sent" ELSE "error"
Outcome(r, t)        == IF r.send[t] = "answered" THEN "sent" ELSE "error"

Resumes(w, t) ==
    LET r == worker[w]
    IN  /\ At(w, t, "send")
        /\ r.send[t] # "running" \/ r.client # "connected"
        /\ IF Outcome(r, t) = "sent"
           THEN Sets(w, Returns(r, t, "sent"))
           ELSE \E transient \in {r.send[t] = "running", TRUE} :
                    Sets(w, Fails(r, t, "error", transient))
        /\ UNCHANGED <<key, login, marker, flock, verified, sends, faults>>

\* The delivery's deadline, or the shutdown of the worker.  A marker that is being
\* removed is removed; while the client is retired its disconnect goes on.
Cancel(w, t) ==
    LET r == worker[w]
    IN  /\ ~ At(w, t, "idle") /\ (t = "main" => r.stage = "prepare")
        /\ Sets(w, CASE At(w, t, "lock")   -> [r EXCEPT !.at[t] = "idle",
                                                  !.stage = IF t = "main" THEN "close" ELSE @]
                     [] At(w, t, "retire") -> Returns(r, t, "cancelled")
                     [] OTHER              -> Fails(r, t, "cancelled", TRUE))
        /\ IF At(w, t, "unmark") THEN marker' = FALSE /\ verified' = TRUE
                                 ELSE UNCHANGED <<marker, verified>>
        /\ UNCHANGED <<key, login, flock, sends, faults>>

(***************************************************************************)
(* The network and Telegram                                                *)
(***************************************************************************)
Drop(w) ==
    /\ worker[w].client = "connected" /\ worker[w].closing = "none"
    /\ faults < MaxFaults /\ faults' = faults + 1
    /\ Sets(w, [worker[w] EXCEPT !.client = "dropped"])
    /\ UNCHANGED <<key, login, marker, flock, verified, sends>>

Revoke ==
    /\ login = "bot" /\ login' = "revoked"
    /\ faults < MaxFaults /\ faults' = faults + 1
    /\ UNCHANGED <<key, marker, flock, worker, verified, sends>>

\* Every await ends: by its event, by connect_timeout or close_timeout, and an upload
\* by the deadline of the delivery.
Goes(w, t) ==
    \/ Enters(w, t) \/ Retired(w, t) \/ RetireFails(w, t) \/ Connects(w, t) \/ Checks(w, t)
    \/ SignsIn(w, t) \/ RequestFails(w, t) \/ Unmarks(w, t) \/ Resumes(w, t)
    \/ At(w, t, "send") /\ Cancel(w, t)

Next ==
    \/ \E w \in Worker :
          \/ Start(w) \/ Stop(w) \/ Exit(w) \/ Kill(w) \/ Disconnect(w) \/ Drop(w)
          \/ \E t \in Task :
                \/ BeginSend(w, t) \/ Enters(w, t) \/ Retired(w, t) \/ RetireFails(w, t)
                \/ Connects(w, t) \/ Checks(w, t) \/ SignsIn(w, t) \/ RequestFails(w, t)
                \/ Unmarks(w, t) \/ SendEnds(w, t) \/ Resumes(w, t) \/ Cancel(w, t)
    \/ Revoke

\* Nothing makes a disconnect end, or an upload: only the timeouts are fair.  The task
\* that holds the lock goes on, and then one that waits for it.
Spec == Init /\ [][Next]_vars /\ \A w \in Worker : WF_vars(\E t \in Task : Goes(w, t))

(***************************************************************************)
(* Properties                                                              *)
(***************************************************************************)

\* The session file has at most one user: a client whose shutdown is not finished
\* counts, in this worker and for the next one.
OneWriter ==
    /\ \A w \in Worker : worker[w].writers <= 1
    /\ \A v, w \in Worker : v # w => worker[v].writers + worker[w].writers <= 1

\* A session that was verified is not logged in again: its revocation would be masked.
RevocationIsNotMasked == [][verified /\ login # "bot" => login' # "bot"]_vars

\* A login that was interrupted after the key was made can be made up for.
InterruptedLoginIsMarked == key /\ ~ verified => marker

\* An upload that Telegram has acknowledged is reported as sent although the
\* connection dropped; only the deadline or a shutdown may come first.
AcknowledgedIsReported == \A w \in Worker : ~ worker[w].lost

\* A client is not closed under an upload.
NoCloseUnderUpload ==
    \A w \in Worker, t \in Upload : worker[w].send[t] = "running" => worker[w].closing = "none"

\* The client is never closed under an upload, an interrupted login keeps its marker, and
\* an acknowledged upload is reported.
TransportInv ==
    /\ TransportTypeOK /\ NoCloseUnderUpload
    /\ InterruptedLoginIsMarked /\ AcknowledgedIsReported

\* Nothing that hangs keeps an upload, or those that wait for it, in the transport.
EveryCallEnds == \A w \in Worker, t \in Task : ~ At(w, t, "idle") ~> At(w, t, "idle")
=============================================================================
