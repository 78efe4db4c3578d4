-------------------------- MODULE Transport_proofs --------------------------
(***************************************************************************)
(* Proofs about Transport, for any number of workers, uploads and faults.  *)
(*                                                                         *)
(* A worker's own state is Coherent, which the functions of the methods    *)
(* keep; what the workers share, the session file, its lock and its        *)
(* marker, is Shared.                                                      *)
(***************************************************************************)
EXTENDS Transport, TLAPS

\* The awaits at which a task uses the client and the session.
LoggingIn == {"connect", "check", "sign_in", "recheck"}
Using     == LoggingIn \union {"unmark", "send"}

Coherent(r) ==
    /\ r.client = "none" => r.closing = "none" /\ ~ r.trusted
    /\ r.writers = IF r.client = "none" \/ r.closing = "finished" THEN 0 ELSE 1
    /\ \A t \in Task : r.at[t] \in {"idle", "lock"} <=> r.lock # t
    /\ \A t \in Task : r.at[t] \in Using => r.client # "none" /\ r.closing = "none"
    /\ \A t \in Task : r.at[t] \in Using \ {"connect"} => r.client # "new"
    /\ \A t \in Task : r.send[t] # "none" => r.at[t] = "send"
    /\ r.lock = Nobody => ~ r.may
    /\ \A t \in Task : (r.at[t] = "replace" => ~ r.may) /\ (r.at[t] = "sign_in" => r.may)
    /\ r.stage = "off" => r.client = "none"
    /\ r.stage \in {"off", "exit", "serve"} => r.at["main"] = "idle"
    /\ r.stage # "serve" => \A t \in Upload : r.at[t] = "idle"
    /\ ~ r.lost

\* A worker that is not off holds the session lock until its client is gone.
Holding(r) == r.client # "none" \/ r.stage \in {"prepare", "serve", "close"}

\* What worker state r asks of the session file and its marker.
Marked(r) ==
    /\ \A t \in Task : r.at[t] = "connect" => verified \/ marker
    /\ r.client \in {"connected", "dropped"} => key
    /\ \A t \in Task : r.at[t] \in LoggingIn /\ r.may => ~ verified

Shared ==
    /\ \A w \in Worker : Holding(worker[w]) => flock = w
    /\ verified => key /\ ~ marker
    /\ key /\ ~ verified => marker
    /\ \A w \in Worker : Marked(worker[w])

Typed ==
    /\ key \in BOOLEAN /\ marker \in BOOLEAN /\ verified \in BOOLEAN
    /\ login \in {"none", "bot", "revoked"}
    /\ flock \in Worker \union {Nobody}
    /\ worker \in [Worker -> WorkerState]
    /\ sends \in 0 .. MaxSends /\ faults \in 0 .. MaxFaults

IInv == Typed /\ Shared /\ \A w \in Worker : Coherent(worker[w])

-----------------------------------------------------------------------------
(* The functions of the methods                                            *)

LEMMA TaskFacts == "main" \in Task /\ Upload \subseteq Task /\ Nobody \notin Task
BY TransportAssumption DEF Task

\* What a worker's state says of itself beside the place of the task t that holds its lock.
Held(r, t) ==
    /\ r.lock = t
    /\ r.client = "none" => r.closing = "none" /\ ~ r.trusted
    /\ r.writers = IF r.client = "none" \/ r.closing = "finished" THEN 0 ELSE 1
    /\ \A u \in Task \ {t} : r.at[u] \in {"idle", "lock"} /\ r.send[u] = "none"
    /\ IF t = "main" THEN /\ r.stage \in {"prepare", "close"}
                          /\ \A u \in Upload : r.at[u] = "idle"
                     ELSE r.stage = "serve" /\ r.at["main"] = "idle"
    /\ ~ r.lost

LEMMA CoherentIsHeld ==
    ASSUME NEW r \in WorkerState, Coherent(r), NEW t \in Task, r.lock = t
    PROVE  Held(r, t) /\ r.at[t] \notin {"idle", "lock"}
<1>1. r.at[t] \notin {"idle", "lock"}
  BY DEF Coherent
<1>2. \A u \in Task \ {t} : r.at[u] \in {"idle", "lock"} /\ r.send[u] = "none"
  BY DEF Coherent, WorkerState
<1>3. IF t = "main" THEN r.stage \in {"prepare", "close"} /\ \A u \in Upload : r.at[u] = "idle"
                    ELSE r.stage = "serve" /\ r.at["main"] = "idle"
  BY <1>1, TransportAssumption DEF Coherent, WorkerState, Task
<1> QED BY <1>1, <1>2, <1>3 DEF Coherent, Held

\* The task that holds the lock goes from one await to another.
LEMMA MovesCoherent ==
    ASSUME NEW r \in WorkerState, NEW x \in WorkerState, NEW t \in Task, Held(r, t),
           x.lock = t, x.stage = r.stage, ~ x.lost,
           \A u \in Task \ {t} : x.at[u] = r.at[u] /\ x.send[u] = r.send[u],
           x.client = "none" => x.closing = "none" /\ ~ x.trusted,
           x.writers = (IF x.client = "none" \/ x.closing = "finished" THEN 0 ELSE 1),
           x.at[t] \notin {"idle", "lock"},
           x.at[t] \in Using => x.client # "none" /\ x.closing = "none",
           x.at[t] \in Using \ {"connect"} => x.client # "new",
           x.send[t] # "none" => x.at[t] = "send",
           x.at[t] = "replace" => ~ x.may, x.at[t] = "sign_in" => x.may
    PROVE  Coherent(x) /\ (Holding(x) => Holding(r))
<1>1. \A u \in Task : /\ x.at[u] \in {"idle", "lock"} <=> u # t
                      /\ x.at[u] \in Using => x.client # "none" /\ x.closing = "none"
                      /\ x.at[u] \in Using \ {"connect"} => x.client # "new"
                      /\ x.send[u] # "none" => x.at[u] = "send"
                      /\ (x.at[u] = "replace" => ~ x.may) /\ (x.at[u] = "sign_in" => x.may)
  BY DEF Held, Using, LoggingIn
<1>2. /\ x.stage \notin {"off", "exit"}
      /\ x.stage = "serve" => x.at["main"] = "idle"
      /\ x.stage # "serve" => \A u \in Upload : x.at[u] = "idle"
  BY TransportAssumption DEF Held, Task
<1>3. x.lock # Nobody
  BY TaskFacts
<1>4. Coherent(x)
  BY <1>1, <1>2, <1>3 DEF Coherent
<1>5. Holding(r)
  BY DEF Held, Holding
<1> QED BY <1>4, <1>5

\* A method that returns leaves its worker coherent, and the client as it is.
LEMMA ReturnsCoherent ==
    ASSUME NEW r \in WorkerState, NEW t \in Task, Held(r, t), NEW outcome
    PROVE  LET x == Returns(r, t, outcome)
           IN  /\ x \in WorkerState /\ Coherent(x) /\ x.client = r.client
               /\ \A u \in Task : x.at[u] \notin Using
               /\ x.stage \in {"prepare", "serve", "close"} => r.stage # "close"
<1> DEFINE x == Returns(r, t, outcome)
<1>1. x \in WorkerState
  BY TaskFacts DEF Returns, WorkerState, Await
<1>2. /\ x.at = [r.at EXCEPT ![t] = "idle"] /\ x.lock = Nobody /\ ~ x.may /\ x.lost = r.lost
      /\ x.send = [r.send EXCEPT ![t] = "none"]
      /\ x.client = r.client /\ x.closing = r.closing /\ x.trusted = r.trusted
      /\ x.writers = r.writers
      /\ x.stage = CASE t # "main" -> r.stage
                     [] r.stage = "prepare" -> IF outcome = "cancelled" THEN "close" ELSE "serve"
                     [] OTHER -> "exit"
  BY DEF Returns, WorkerState
<1>3. r.at \in [Task -> Await] /\ r.send \in [Task -> {"none", "running", "answered", "failed"}]
  BY DEF WorkerState
<1> HIDE DEF x
<1>4. \A u \in Task : /\ x.at[u] = IF u = t THEN "idle" ELSE r.at[u]
                      /\ x.send[u] = IF u = t THEN "none" ELSE r.send[u]
  BY <1>2, <1>3
<1>5. \A u \in Task : x.at[u] \in {"idle", "lock"} /\ x.send[u] = "none"
  BY <1>4 DEF Held
<1>6. /\ t # "main" => x.stage = "serve" /\ x.at["main"] = "idle"
      /\ t = "main" => x.stage \in {"serve", "close", "exit"} /\ x.at["main"] = "idle"
                       /\ \A u \in Upload : x.at[u] = "idle"
      /\ x.stage \in {"prepare", "serve", "close"} => r.stage # "close"
  BY <1>2, <1>4, TaskFacts, TransportAssumption DEF Held
<1>7. Coherent(x)
  BY <1>2, <1>5, <1>6, TaskFacts DEF Coherent, Held, Using, LoggingIn
<1> QED BY <1>1, <1>2, <1>5, <1>6, <1>7 DEF x, Using, LoggingIn

\* Retiring a client leaves its worker coherent; "replace" does not follow a login.
LEMMA RetireCoherent ==
    ASSUME NEW r \in WorkerState, NEW t \in Task, Held(r, t), r.client # "none",
           r.send[t] = "none", NEW await \in {"replace", "retire"}, await = "replace" => ~ r.may
    PROVE  LET x == Retire(r, t, await)
           IN  /\ x \in WorkerState /\ Coherent(x) /\ x.client = r.client
               /\ \A u \in Task : x.at[u] \notin Using
<1> DEFINE x == Retire(r, t, await)
<1>1. x \in WorkerState
  BY DEF Retire, WorkerState, Await
<1>2. /\ x.at = [r.at EXCEPT ![t] = await] /\ x.lock = t /\ x.may = r.may /\ x.lost = r.lost
      /\ x.send = r.send /\ x.stage = r.stage
      /\ x.client = r.client /\ x.trusted = r.trusted /\ x.writers = r.writers
      /\ x.closing = IF r.closing = "none" THEN "pending" ELSE r.closing
  BY DEF Retire, WorkerState, Held
<1>3. r.at \in [Task -> Await]
  BY DEF WorkerState
<1> HIDE DEF x
<1>4. \A u \in Task : x.at[u] = IF u = t THEN await ELSE r.at[u]
  BY <1>2, <1>3
<1>5. \A u \in Task : x.at[u] \notin Using
  BY <1>4 DEF Using, LoggingIn, Held
<1>6. x.writers = IF x.client = "none" \/ x.closing = "finished" THEN 0 ELSE 1
  BY <1>2 DEF Held
<1>7. /\ x.lock = t /\ x.stage = r.stage /\ ~ x.lost /\ x.client # "none"
      /\ \A u \in Task \ {t} : x.at[u] = r.at[u] /\ x.send[u] = r.send[u]
      /\ x.at[t] = await /\ x.at[t] \notin Using /\ x.send[t] = "none"
      /\ x.at[t] = "replace" => ~ x.may
  BY <1>2, <1>4, <1>5 DEF Held
<1>8. Coherent(x)
  BY <1>1, <1>6, <1>7, MovesCoherent
<1> QED BY <1>1, <1>2, <1>5, <1>8 DEF x

\* An upload that was acknowledged does not end in an error, so none is lost.
LEMMA FailsCoherent ==
    ASSUME NEW r \in WorkerState, NEW t \in Task, Held(r, t),
           NEW outcome \in {"error", "cancelled"}, NEW transient,
           r.send[t] = "answered" => outcome = "cancelled"
    PROVE  LET x == Fails(r, t, outcome, transient)
           IN  /\ x \in WorkerState /\ Coherent(x) /\ x.client = r.client
               /\ \A u \in Task : x.at[u] \notin Using
<1>0. PICK lost \in BOOLEAN : lost = (r.lost \/ (r.send[t] = "answered" /\ outcome = "error"))
  OBVIOUS
<1> DEFINE c == [r EXCEPT !.send[t] = "none", !.outcome = outcome, !.lost = lost]
<1>1. c \in WorkerState
  BY DEF WorkerState
<1>2. /\ c.at = r.at /\ c.lock = r.lock /\ c.may = r.may /\ ~ c.lost
      /\ c.stage = r.stage /\ c.send = [r.send EXCEPT ![t] = "none"]
      /\ c.client = r.client /\ c.closing = r.closing /\ c.trusted = r.trusted
      /\ c.writers = r.writers
  BY <1>0 DEF WorkerState, Held
<1>3. \/ Fails(r, t, outcome, transient) = Returns(c, t, outcome)
      \/ Fails(r, t, outcome, transient) = Retire(c, t, "retire") /\ r.client # "none"
  BY <1>0 DEF Fails
<1> HIDE DEF c
<1>4. r.send \in [Task -> {"none", "running", "answered", "failed"}]
  BY DEF WorkerState
<1>5. Held(c, t) /\ c.send[t] = "none"
  BY <1>2, <1>4 DEF Held
<1>6. CASE Fails(r, t, outcome, transient) = Returns(c, t, outcome)
  BY <1>1, <1>2, <1>5, <1>6, ReturnsCoherent
<1>7. CASE Fails(r, t, outcome, transient) = Retire(c, t, "retire") /\ r.client # "none"
  <2>1. /\ Retire(c, t, "retire") \in WorkerState /\ Coherent(Retire(c, t, "retire"))
        /\ Retire(c, t, "retire").client = r.client
        /\ \A u \in Task : Retire(c, t, "retire").at[u] \notin Using
    BY <1>1, <1>2, <1>5, <1>7, RetireCoherent
  <2> QED BY <1>7, <2>1
<1> QED BY <1>3, <1>6, <1>7

-----------------------------------------------------------------------------
(* What the workers share                                                  *)

\* A step of one worker, which may touch the session and its marker while it holds the
\* lock on the session.
LEMMA WorkerStep ==
    ASSUME IInv, NEW w \in Worker, NEW x \in WorkerState, Coherent(x),
           worker' = [worker EXCEPT ![w] = x],
           key' \in BOOLEAN, marker' \in BOOLEAN, verified' \in BOOLEAN,
           login' \in {"none", "bot", "revoked"}, flock' \in Worker \union {Nobody},
           sends' \in 0 .. MaxSends, faults' \in 0 .. MaxFaults,
           Holding(x) => flock' = w,
           \A v \in Worker \ {w} : flock = v => flock' = v,
           verified' => key' /\ ~ marker', key' /\ ~ verified' => marker', Marked(x)',
           UNCHANGED <<key, marker, verified>> \/ flock = w
    PROVE  IInv'
<1>1. worker' \in [Worker -> WorkerState] /\ worker'[w] = x
      /\ \A v \in Worker \ {w} : worker'[v] = worker[v]
  BY DEF IInv, Typed
<1>2. Typed'
  BY <1>1 DEF Typed
<1>3. \A v \in Worker : Coherent(worker'[v])
  BY <1>1 DEF IInv
<1>4. \A v \in Worker : Holding(worker'[v]) => flock' = v
  BY <1>1 DEF IInv, Shared
<1>5. ASSUME NEW v \in Worker \ {w} PROVE Marked(worker[v])'
  <2>1. Marked(worker[v]) /\ Coherent(worker[v]) /\ worker'[v] = worker[v]
        /\ (Holding(worker[v]) => flock = v)
    BY <1>1 DEF IInv, Shared
  <2>2. CASE UNCHANGED <<key, marker, verified>>
    BY <2>1, <2>2 DEF Marked
  <2>3. CASE flock = w
    BY <2>1, <2>3 DEF Marked, Coherent, Holding, Using, LoggingIn
  <2> QED BY <2>2, <2>3
<1>6. \A v \in Worker : Marked(worker[v])'
  BY <1>1, <1>5 DEF Marked
<1> QED BY <1>2, <1>3, <1>4, <1>6 DEF IInv, Shared

\* A step after which no task of the worker uses the session.
LEMMA QuietStep ==
    ASSUME IInv, NEW w \in Worker, NEW x \in WorkerState, Coherent(x),
           worker' = [worker EXCEPT ![w] = x], UNCHANGED <<key, marker, verified, login>>,
           sends' \in 0 .. MaxSends, faults' \in 0 .. MaxFaults,
           flock' \in Worker \union {Nobody}, Holding(x) => flock' = w,
           \A v \in Worker \ {w} : flock = v => flock' = v,
           x.client = worker[w].client \/ x.client = "none",
           \A u \in Task : x.at[u] \notin Using
    PROVE  IInv'
<1>1. Marked(worker[w]) /\ verified \in BOOLEAN /\ key \in BOOLEAN /\ marker \in BOOLEAN
      /\ login \in {"none", "bot", "revoked"}
  BY DEF IInv, Shared, Typed
<1>2. Marked(x)'
  BY <1>1 DEF Marked, Using, LoggingIn
<1> QED BY <1>1, <1>2, WorkerStep DEF IInv, Shared

\* A worker's state, as a constant.
LEMMA WorkerFacts ==
    ASSUME IInv, NEW w \in Worker
    PROVE  /\ worker[w] \in WorkerState /\ Coherent(worker[w]) /\ Marked(worker[w])
           /\ Holding(worker[w]) => flock = w
           /\ flock \in Worker \union {Nobody}
           /\ sends \in 0 .. MaxSends /\ faults \in 0 .. MaxFaults
           /\ w # Nobody
BY TransportAssumption DEF IInv, Typed, Shared

LEMMA OffCoherent == Off \in WorkerState /\ Coherent(Off) /\ ~ Holding(Off)
                      /\ Off.client = "none" /\ \A u \in Task : Off.at[u] \notin Using
<1>1. Off \in WorkerState
  BY DEF Off, WorkerState, Await
<1> QED
  BY <1>1, TaskFacts DEF Off, Coherent, Holding, Using, LoggingIn

LEMMA StartKeeps ==
    ASSUME IInv, NEW w \in Worker, Start(w)
    PROVE  IInv'
<1> DEFINE x == [Off EXCEPT !.stage = "prepare", !.at["main"] = "lock"]
<1>1. x \in WorkerState
  BY OffCoherent, TaskFacts DEF WorkerState, Await
<1>2. /\ x.stage = "prepare" /\ x.client = "none" /\ x.closing = "none" /\ ~ x.trusted
      /\ x.writers = 0 /\ x.lock = Nobody /\ ~ x.may /\ ~ x.lost
      /\ x.at = [t \in Task |-> IF t = "main" THEN "lock" ELSE "idle"]
      /\ x.send = [t \in Task |-> "none"]
  BY DEF Off
<1>3. worker' = [worker EXCEPT ![w] = x] /\ flock' = w /\ flock = Nobody
      /\ UNCHANGED <<key, login, marker, verified, sends, faults>>
  BY DEF Start, Sets
<1> HIDE DEF x
<1>4. Coherent(x) /\ \A u \in Task : x.at[u] \notin Using
  BY <1>2, TaskFacts, TransportAssumption DEF Coherent, Using, LoggingIn
<1> QED BY <1>1, <1>2, <1>3, <1>4, QuietStep, WorkerFacts

LEMMA BeginSendKeeps ==
    ASSUME IInv, NEW w \in Worker, NEW t \in Task, BeginSend(w, t)
    PROVE  IInv'
<1>1. PICK r \in WorkerState : r = worker[w]
  BY WorkerFacts
<1> DEFINE x == [r EXCEPT !.at[t] = "lock"]
<1>2. x \in WorkerState
  BY DEF WorkerState, Await
<1>3. /\ x.stage = r.stage /\ x.client = r.client /\ x.closing = r.closing
      /\ x.trusted = r.trusted /\ x.writers = r.writers /\ x.lock = r.lock
      /\ x.may = r.may /\ x.lost = r.lost /\ x.send = r.send
      /\ x.at = [r.at EXCEPT ![t] = "lock"] /\ r.at \in [Task -> Await]
  BY DEF WorkerState
<1>4. /\ worker' = [worker EXCEPT ![w] = x] /\ r.at[t] = "idle" /\ r.stage = "serve"
      /\ t \in Upload /\ sends' \in 0 .. MaxSends
      /\ UNCHANGED <<key, login, marker, flock, verified, faults>>
  BY <1>1, WorkerFacts, TransportAssumption DEF BeginSend, Sets, At
<1> HIDE DEF x
<1>5. Coherent(r) /\ Marked(r) /\ (Holding(r) => flock = w)
  BY <1>1, WorkerFacts
<1>6. \A u \in Task : x.at[u] = IF u = t THEN "lock" ELSE r.at[u]
  BY <1>3
<1>7. Coherent(x)
  BY <1>3, <1>4, <1>5, <1>6, TransportAssumption DEF Coherent, Using, LoggingIn, Task
<1>8. Marked(x)' /\ (Holding(x) => flock' = w)
  BY <1>3, <1>4, <1>5, <1>6 DEF Marked, LoggingIn, Holding
<1> QED BY <1>2, <1>4, <1>7, <1>8, WorkerFacts, WorkerStep DEF IInv, Typed, Shared

LEMMA StopKeeps ==
    ASSUME IInv, NEW w \in Worker, Stop(w)
    PROVE  IInv'
<1>1. PICK r \in WorkerState : r = worker[w]
  BY WorkerFacts
<1> DEFINE x == [r EXCEPT !.stage = "close", !.at["main"] = "lock"]
<1>2. x \in WorkerState
  BY TaskFacts DEF WorkerState, Await
<1>3. /\ x.stage = "close" /\ x.client = r.client /\ x.closing = r.closing
      /\ x.trusted = r.trusted /\ x.writers = r.writers /\ x.lock = r.lock
      /\ x.may = r.may /\ x.lost = r.lost /\ x.send = r.send
      /\ x.at = [r.at EXCEPT !["main"] = "lock"] /\ r.at \in [Task -> Await]
  BY DEF WorkerState
<1>4. /\ worker' = [worker EXCEPT ![w] = x] /\ \A t \in Task : r.at[t] = "idle"
      /\ r.stage \in {"serve", "close"}
      /\ UNCHANGED <<key, login, marker, flock, verified, sends, faults>>
  BY <1>1 DEF Stop, Sets, At
<1> HIDE DEF x
<1>5. Coherent(r) /\ (Holding(r) => flock = w)
  BY <1>1, WorkerFacts
<1>6. \A u \in Task : x.at[u] = IF u = "main" THEN "lock" ELSE "idle"
  BY <1>3, <1>4
<1>7. Coherent(x) /\ \A u \in Task : x.at[u] \notin Using
  BY <1>3, <1>4, <1>5, <1>6, TransportAssumption DEF Coherent, Using, LoggingIn, Task
<1>8. flock' = w
  BY <1>4, <1>5 DEF Holding
<1>9. /\ flock' \in Worker \union {Nobody} /\ sends' \in 0 .. MaxSends /\ faults' \in 0 .. MaxFaults
      /\ \A v \in Worker \ {w} : flock = v => flock' = v
      /\ x.client = worker[w].client
      /\ UNCHANGED <<key, marker, verified, login>>
  BY <1>1, <1>3, <1>4, WorkerFacts
<1> QED BY <1>2, <1>4, <1>7, <1>8, <1>9, QuietStep

LEMMA ExitKeeps ==
    ASSUME IInv, NEW w \in Worker, Exit(w)
    PROVE  IInv'
<1>1. /\ worker' = [worker EXCEPT ![w] = Off] /\ flock' = (IF flock = w THEN Nobody ELSE flock)
      /\ UNCHANGED <<key, login, marker, verified, sends, faults>>
  BY DEF Exit, Sets
<1> QED BY <1>1, OffCoherent, WorkerFacts, QuietStep

\* A process that is killed while its client connects may have made the key; it has
\* made the marker before.
LEMMA KillKeeps ==
    ASSUME IInv, NEW w \in Worker, Kill(w)
    PROVE  IInv'
<1>1. PICK r \in WorkerState : r = worker[w]
  BY WorkerFacts
<1>2. Coherent(r) /\ Marked(r) /\ (Holding(r) => flock = w)
  BY <1>1, WorkerFacts
<1>3. /\ worker' = [worker EXCEPT ![w] = Off] /\ flock' = (IF flock = w THEN Nobody ELSE flock)
      /\ key' \in {key, key \/ \E t \in Task : r.at[t] = "connect"}
      /\ UNCHANGED <<marker, verified, sends>>
  BY <1>1 DEF Kill, Sets, At
<1>4. faults' \in 0 .. MaxFaults
  BY WorkerFacts, TransportAssumption DEF Kill
<1>5. login' \in {"none", "bot", "revoked"}
  BY DEF Kill, IInv, Typed
<1>6. key' = key \/ (key' = TRUE /\ flock = w /\ (verified \/ marker))
  <2>1. CASE \E t \in Task : r.at[t] = "connect"
    BY <1>2, <1>3, <2>1 DEF Coherent, Marked, Holding, Using, LoggingIn, IInv, Typed
  <2>2. CASE ~ \E t \in Task : r.at[t] = "connect"
    BY <1>3, <2>2 DEF IInv, Typed
  <2> QED BY <2>1, <2>2
<1>7. /\ key' \in BOOLEAN /\ marker' \in BOOLEAN /\ verified' \in BOOLEAN
      /\ verified' => key' /\ ~ marker'
      /\ key' /\ ~ verified' => marker'
      /\ UNCHANGED <<key, marker, verified>> \/ flock = w
  BY <1>3, <1>6 DEF IInv, Typed, Shared
<1>8. Marked(Off)'
  BY OffCoherent DEF Marked, Using, LoggingIn
<1> QED BY <1>3, <1>4, <1>5, <1>7, <1>8, OffCoherent, WorkerFacts, WorkerStep

\* What _ensure_ready does up to its first await, with the session's lock held.  A new
\* client may log in only where the session was not verified.
LEMMA EnsureReadyKeeps ==
    ASSUME IInv, NEW w \in Worker, NEW t \in Task, NEW r \in WorkerState, Held(r, t),
           ~ r.may, r.send[t] = "none", flock = w,
           r.client = worker[w].client \/ r.client = "none", EnsureReady(w, r, t),
           UNCHANGED <<key, login, flock, verified, sends, faults>>
    PROVE  IInv'
<1>1. /\ key \in BOOLEAN /\ marker \in BOOLEAN /\ verified \in BOOLEAN
      /\ login \in {"none", "bot", "revoked"} /\ Marked(worker[w])
      /\ verified => key /\ ~ marker
      /\ key /\ ~ verified => marker
  BY DEF IInv, Typed, Shared
<1>2. /\ flock' = w /\ flock' \in Worker \union {Nobody}
      /\ sends' \in 0 .. MaxSends /\ faults' \in 0 .. MaxFaults
      /\ \A v \in Worker \ {w} : flock = v => flock' = v
  BY WorkerFacts
<1>3. CASE Damaged(r)
  <2> DEFINE x == Retire(r, t, "replace")
  <2>1. worker' = [worker EXCEPT ![w] = x] /\ UNCHANGED marker /\ r.client # "none"
    BY <1>3 DEF EnsureReady, Damaged
  <2>2. x \in WorkerState /\ Coherent(x) /\ x.client = r.client
        /\ \A u \in Task : x.at[u] \notin Using
    BY <2>1, RetireCoherent
  <2> HIDE DEF x
  <2> QED BY <1>2, <2>1, <2>2, QuietStep
<1>4. CASE ~ Damaged(r) /\ r.client = "none"
  <2>a. PICK b \in BOOLEAN : b = (marker \/ ~ key)
    OBVIOUS
  <2> DEFINE x == NewClient(r, t, b)
  <2>1. worker' = [worker EXCEPT ![w] = x] /\ marker' = b
    BY <1>4, <2>a DEF EnsureReady, MayBootstrap
  <2>2. r.closing = "none" /\ ~ r.trusted /\ r.writers = 0 /\ r.lock = t
    BY <1>4 DEF Held
  <2>3. x \in WorkerState
    <3>1. x = [r EXCEPT !.client = "new", !.writers = 1, !.may = b, !.at[t] = "connect"]
      BY <2>2 DEF NewClient
    <3> HIDE DEF x
    <3> QED BY <3>1 DEF WorkerState, Await
  <2>4. /\ x.lock = t /\ x.stage = r.stage /\ x.lost = r.lost /\ x.send = r.send
        /\ x.client = "new" /\ x.closing = "none" /\ x.writers = 1 /\ x.may = b
        /\ x.at = [r.at EXCEPT ![t] = "connect"] /\ r.at \in [Task -> Await]
    BY <2>2 DEF NewClient, WorkerState
  <2> HIDE DEF x
  <2>5. \A u \in Task : x.at[u] = IF u = t THEN "connect" ELSE r.at[u]
    BY <2>4
  <2>6. \A u \in Task \ {t} : x.at[u] = r.at[u] /\ x.send[u] = r.send[u]
    BY <2>4, <2>5
  <2>7. x.at[t] = "connect" /\ x.send[t] = "none" /\ ~ x.lost
    BY <2>4, <2>5 DEF Held
  <2>8. Coherent(x)
    BY <2>3, <2>4, <2>6, <2>7, MovesCoherent
  <2>9. \A u \in Task : x.at[u] \in LoggingIn => u = t
    BY <2>5 DEF Held, LoggingIn
  <2>10. /\ key' \in BOOLEAN /\ marker' \in BOOLEAN /\ verified' \in BOOLEAN
         /\ login' \in {"none", "bot", "revoked"}
         /\ verified' => key' /\ ~ marker'
         /\ key' /\ ~ verified' => marker'
         /\ verified \/ marker'
         /\ b => ~ verified'
    BY <1>1, <2>a, <2>1
  <2>11. Marked(x)'
    BY <2>4, <2>9, <2>10 DEF Marked
  <2> QED BY <1>2, <2>1, <2>3, <2>8, <2>10, <2>11, WorkerStep
<1>5. CASE ~ Damaged(r) /\ r.client # "none"
  <2> DEFINE x == [r EXCEPT !.at[t] = "check"]
  <2>1. worker' = [worker EXCEPT ![w] = x] /\ UNCHANGED marker
        /\ r.client = "connected" /\ r.closing = "none"
    BY <1>5 DEF EnsureReady, Damaged
  <2>2. x \in WorkerState
    BY DEF WorkerState, Await
  <2>3. /\ x.lock = r.lock /\ x.stage = r.stage /\ x.lost = r.lost /\ x.send = r.send
        /\ x.client = r.client /\ x.closing = r.closing /\ x.writers = r.writers
        /\ x.may = r.may
        /\ x.at = [r.at EXCEPT ![t] = "check"] /\ r.at \in [Task -> Await]
    BY DEF WorkerState
  <2> HIDE DEF x
  <2>4. \A u \in Task : x.at[u] = IF u = t THEN "check" ELSE r.at[u]
    BY <2>3
  <2>5. \A u \in Task \ {t} : x.at[u] = r.at[u] /\ x.send[u] = r.send[u]
    BY <2>3, <2>4
  <2>6. /\ x.at[t] = "check" /\ x.send[t] = "none" /\ ~ x.lost /\ x.lock = t
        /\ x.client = "connected" /\ x.closing = "none" /\ ~ x.may /\ x.writers = 1
    BY <2>1, <2>3, <2>4 DEF Held
  <2>7. Coherent(x)
    BY <2>2, <2>3, <2>5, <2>6, MovesCoherent
  <2>8. \A u \in Task : x.at[u] # "connect"
    BY <2>4 DEF Held
  <2>9. Marked(x)'
    BY <1>1, <2>1, <2>6, <2>8 DEF Marked
  <2> QED BY <1>1, <1>2, <2>1, <2>2, <2>7, <2>9, WorkerStep
<1> QED BY <1>3, <1>4, <1>5

\* A step of the worker that holds the lock on the session, after which no task of it
\* uses the session.
LEMMA LeavingStep ==
    ASSUME IInv, NEW w \in Worker, NEW x \in WorkerState, Coherent(x),
           worker' = [worker EXCEPT ![w] = x], flock = w,
           key' \in BOOLEAN, marker' \in BOOLEAN, verified' \in BOOLEAN,
           login' \in {"none", "bot", "revoked"}, UNCHANGED <<sends, faults>>,
           key => key', verified' => key' /\ ~ marker', key' /\ ~ verified' => marker',
           flock' \in {flock, Nobody}, Holding(x) => flock' = w,
           x.client = worker[w].client \/ x.client = "none",
           \A u \in Task : x.at[u] \notin Using
    PROVE  IInv'
<1>1. Marked(worker[w]) /\ sends' \in 0 .. MaxSends /\ faults' \in 0 .. MaxFaults
      /\ flock' \in Worker \union {Nobody} /\ key \in BOOLEAN
  BY DEF IInv, Shared, Typed
<1>2. Marked(x)'
  BY <1>1 DEF Marked, Using, LoggingIn
<1>3. \A v \in Worker \ {w} : flock = v => flock' = v
  OBVIOUS
<1> QED BY <1>1, <1>2, <1>3, WorkerStep

\* The end of a method keeps the lock on the session while the client is there.
LEMMA EndsKeeps ==
    ASSUME IInv, NEW w \in Worker, NEW t \in Task, NEW r \in WorkerState, Held(r, t),
           NEW outcome, Ends(w, t, r, outcome), flock = w,
           r.client = worker[w].client \/ r.client = "none",
           marker' \in BOOLEAN, verified' \in BOOLEAN, UNCHANGED <<key, login, sends, faults>>,
           verified' => key /\ ~ marker', key /\ ~ verified' => marker'
    PROVE  IInv'
<1> DEFINE x == Returns(r, t, outcome)
<1>1. /\ worker' = [worker EXCEPT ![w] = x]
      /\ flock' = IF r.stage = "close" /\ r.client = "none" THEN Nobody ELSE flock
  BY DEF Ends, Sets, Releases
<1>2. /\ x \in WorkerState /\ Coherent(x) /\ x.client = r.client
      /\ \A u \in Task : x.at[u] \notin Using
      /\ x.stage \in {"prepare", "serve", "close"} => r.stage # "close"
  BY ReturnsCoherent
<1> HIDE DEF x
<1>3. Holding(x) => flock' = w
  BY <1>1, <1>2 DEF Holding
<1>4. /\ key' \in BOOLEAN /\ login' \in {"none", "bot", "revoked"}
      /\ key => key'
      /\ flock' \in {flock, Nobody}
  BY <1>1 DEF IInv, Typed
<1>5. verified' => key' /\ ~ marker'
  OBVIOUS
<1>6. key' /\ ~ verified' => marker'
  OBVIOUS
<1> QED BY <1>1, <1>2, <1>3, <1>4, <1>5, <1>6, LeavingStep

\* The except clause of send_file and of prepare.
LEMMA FailsKeeps ==
    ASSUME IInv, NEW w \in Worker, NEW t \in Task, Held(worker[w], t),
           NEW outcome \in {"error", "cancelled"}, NEW transient,
           worker[w].send[t] = "answered" => outcome = "cancelled",
           Sets(w, Fails(worker[w], t, outcome, transient)), flock = w,
           key' \in BOOLEAN, marker' \in BOOLEAN, verified' \in BOOLEAN,
           login' \in {"none", "bot", "revoked"}, UNCHANGED <<flock, sends, faults>>,
           key => key', verified' => key' /\ ~ marker', key' /\ ~ verified' => marker'
    PROVE  IInv'
<1>1. PICK r \in WorkerState : r = worker[w]
  BY WorkerFacts
<1> DEFINE x == Fails(r, t, outcome, transient)
<1>2. worker' = [worker EXCEPT ![w] = x]
  BY <1>1 DEF Sets
<1>3. x \in WorkerState /\ Coherent(x) /\ x.client = r.client
      /\ \A u \in Task : x.at[u] \notin Using
  BY <1>1, FailsCoherent
<1> HIDE DEF x
<1>4. flock' \in {flock, Nobody} /\ flock' = w /\ x.client = worker[w].client
  BY <1>1, <1>2, <1>3
<1> QED BY <1>2, <1>3, <1>4, LeavingStep

\* The task that is at an await inside the transport holds the lock.
LEMMA AtFacts ==
    ASSUME IInv, NEW w \in Worker, NEW t \in Task, worker[w].at[t] \notin {"idle", "lock"}
    PROVE  /\ Held(worker[w], t)
           /\ worker[w].at[t] \in Using => worker[w].client # "none"
                                           /\ worker[w].closing = "none"
           /\ worker[w].at[t] \in Using \ {"connect"} => worker[w].client # "new"
           /\ worker[w].send[t] # "none" => worker[w].at[t] = "send"
           /\ flock = w
<1>1. PICK r \in WorkerState : r = worker[w]
  BY WorkerFacts
<1>2. Coherent(r) /\ (Holding(r) => flock = w)
  BY <1>1, WorkerFacts
<1>3. r.lock = t
  BY <1>1, <1>2 DEF Coherent
<1>4. Held(r, t)
  BY <1>2, <1>3, CoherentIsHeld
<1> QED BY <1>1, <1>2, <1>4 DEF Coherent, Held, Holding

-----------------------------------------------------------------------------
(* The methods, await by await                                             *)

LEMMA EntersKeeps ==
    ASSUME IInv, NEW w \in Worker, NEW t \in Task, Enters(w, t)
    PROVE  IInv'
<1>1. PICK r \in WorkerState : r = worker[w]
  BY WorkerFacts
<1> DEFINE c == [r EXCEPT !.lock = t]
<1>2. /\ r.at[t] = "lock" /\ r.lock = Nobody
      /\ UNCHANGED <<key, login, verified, sends, faults>>
      /\ IF c.stage # "close" THEN EnsureReady(w, c, t) /\ UNCHANGED flock
         ELSE /\ IF c.client = "none" THEN Ends(w, t, c, "none")
                 ELSE Sets(w, Retire(c, t, "retire")) /\ UNCHANGED flock
              /\ UNCHANGED marker
  BY <1>1 DEF Enters, At
<1>3. Coherent(r) /\ (Holding(r) => flock = w)
  BY <1>1, WorkerFacts
<1>4. c \in WorkerState
  BY DEF WorkerState
<1>5. /\ c.stage = r.stage /\ c.client = r.client /\ c.closing = r.closing
      /\ c.trusted = r.trusted /\ c.writers = r.writers /\ c.lock = t
      /\ c.may = r.may /\ (c.lost <=> r.lost) /\ c.send = r.send /\ c.at = r.at
  BY DEF WorkerState
<1> HIDE DEF c
<1>6. \A u \in Task : r.at[u] \in {"idle", "lock"} /\ r.send[u] = "none"
  BY <1>2, <1>3, TaskFacts DEF Coherent, WorkerState
<1>7. IF t = "main" THEN r.stage \in {"prepare", "close"} /\ \A u \in Upload : r.at[u] = "idle"
                    ELSE r.stage = "serve" /\ r.at["main"] = "idle"
  BY <1>2, <1>3, TransportAssumption DEF Coherent, WorkerState, Task
<1>8. Held(c, t) /\ ~ c.may /\ c.send[t] = "none"
  BY <1>2, <1>3, <1>5, <1>6, <1>7 DEF Held, Coherent
<1>9. flock = w /\ c.client = worker[w].client
  BY <1>1, <1>3, <1>5, <1>7 DEF Holding
<1>10. CASE c.stage # "close"
  BY <1>2, <1>4, <1>8, <1>9, <1>10, EnsureReadyKeeps
<1>11. CASE c.stage = "close" /\ c.client = "none"
  <2>1. Ends(w, t, c, "none") /\ UNCHANGED <<key, login, marker, verified, sends, faults>>
    BY <1>2, <1>11
  <2>2. marker' \in BOOLEAN /\ verified' \in BOOLEAN
        /\ (verified' => key /\ ~ marker') /\ (key /\ ~ verified' => marker')
    BY <2>1 DEF IInv, Typed, Shared
  <2> QED BY <1>2, <1>4, <1>8, <1>9, <2>1, <2>2, EndsKeeps
<1>12. CASE c.stage = "close" /\ c.client # "none"
  <2> DEFINE x == Retire(c, t, "retire")
  <2>1. worker' = [worker EXCEPT ![w] = x]
        /\ UNCHANGED <<key, login, marker, flock, verified, sends, faults>>
    BY <1>2, <1>12 DEF Sets
  <2>2. /\ x \in WorkerState /\ Coherent(x) /\ x.client = c.client
        /\ \A u \in Task : x.at[u] \notin Using
    BY <1>4, <1>8, <1>12, RetireCoherent
  <2> HIDE DEF x
  <2>3. /\ flock' \in Worker \union {Nobody} /\ sends' \in 0 .. MaxSends /\ faults' \in 0 .. MaxFaults
        /\ \A v \in Worker \ {w} : flock = v => flock' = v
        /\ flock' = w /\ x.client = worker[w].client
    BY <1>9, <2>1, <2>2, WorkerFacts
  <2> QED BY <2>1, <2>2, <2>3, QuietStep
<1> QED BY <1>10, <1>11, <1>12

\* A disconnect that finishes ends the client's use of the session.
LEMMA DisconnectKeeps ==
    ASSUME IInv, NEW w \in Worker, Disconnect(w)
    PROVE  IInv'
<1>1. PICK r \in WorkerState : r = worker[w]
  BY WorkerFacts
<1>2. /\ r.closing = "pending" /\ UNCHANGED <<key, login, marker, flock, verified, sends, faults>>
      /\ \/ worker' = [worker EXCEPT ![w] = [r EXCEPT !.closing = "finished", !.writers = @ - 1]]
         \/ worker' = [worker EXCEPT ![w] = [r EXCEPT !.closing = "failed"]]
  BY <1>1 DEF Disconnect, Sets
<1>3. Coherent(r) /\ (Holding(r) => flock = w)
  BY <1>1, WorkerFacts
<1>4. r.client # "none" /\ r.writers = 1 /\ \A u \in Task : r.at[u] \notin Using
  BY <1>2, <1>3 DEF Coherent
<1>5. PICK c \in {"finished", "failed"} :
         worker' = [worker EXCEPT ![w] = [r EXCEPT !.closing = c,
                                                   !.writers = IF c = "finished" THEN 0 ELSE 1]]
  <2>1. CASE worker' = [worker EXCEPT ![w] = [r EXCEPT !.closing = "finished", !.writers = @ - 1]]
    BY <1>4, <2>1
  <2>2. CASE worker' = [worker EXCEPT ![w] = [r EXCEPT !.closing = "failed"]]
    <3>1. [r EXCEPT !.closing = "failed"] = [r EXCEPT !.closing = "failed", !.writers = 1]
      BY <1>4 DEF WorkerState
    <3> QED BY <2>2, <3>1
  <2> QED BY <1>2, <2>1, <2>2
<1> DEFINE x == [r EXCEPT !.closing = c, !.writers = IF c = "finished" THEN 0 ELSE 1]
<1>6. x \in WorkerState
  BY DEF WorkerState
<1>7. /\ x.stage = r.stage /\ x.client = r.client /\ x.closing = c /\ x.at = r.at
      /\ x.writers = (IF c = "finished" THEN 0 ELSE 1) /\ x.lock = r.lock /\ x.may = r.may
      /\ (x.lost <=> r.lost) /\ x.send = r.send
  BY DEF WorkerState
<1>8. worker' = [worker EXCEPT ![w] = x]
  BY <1>5
<1> HIDE DEF x
<1>9. Coherent(x) /\ \A u \in Task : x.at[u] \notin Using
  BY <1>3, <1>4, <1>7 DEF Coherent
<1>10. /\ flock' \in Worker \union {Nobody} /\ sends' \in 0 .. MaxSends /\ faults' \in 0 .. MaxFaults
       /\ \A v \in Worker \ {w} : flock = v => flock' = v
       /\ flock' = w /\ x.client = worker[w].client
  BY <1>1, <1>2, <1>3, <1>4, <1>7, WorkerFacts DEF Holding
<1> QED BY <1>2, <1>6, <1>8, <1>9, <1>10, QuietStep

LEMMA RetiredKeeps ==
    ASSUME IInv, NEW w \in Worker, NEW t \in Task, Retired(w, t)
    PROVE  IInv'
<1>1. PICK r \in WorkerState : r = worker[w]
  BY WorkerFacts
<1> DEFINE c == [r EXCEPT !.client = "none", !.closing = "none", !.trusted = FALSE]
<1>2. /\ r.at[t] \in {"replace", "retire"} /\ r.closing = "finished"
      /\ UNCHANGED <<key, login, verified, sends, faults>>
      /\ IF r.at[t] = "replace" THEN EnsureReady(w, c, t) /\ UNCHANGED flock
                                ELSE Ends(w, t, c, c.outcome) /\ UNCHANGED marker
  BY <1>1 DEF Retired, At
<1>3. Held(r, t) /\ flock = w /\ r.send[t] = "none"
  BY <1>1, <1>2, AtFacts
<1>4. r.at[t] = "replace" => ~ r.may
  BY <1>1, WorkerFacts DEF Coherent
<1>5. c \in WorkerState
  BY DEF WorkerState
<1>6. /\ c.stage = r.stage /\ c.client = "none" /\ c.closing = "none" /\ ~ c.trusted
      /\ c.writers = r.writers /\ c.lock = r.lock
      /\ c.may = r.may /\ (c.lost <=> r.lost) /\ c.send = r.send /\ c.at = r.at
  BY DEF WorkerState
<1> HIDE DEF c
<1>7. Held(c, t) /\ c.send[t] = "none"
  BY <1>2, <1>3, <1>6 DEF Held
<1>8. CASE r.at[t] = "replace"
  BY <1>2, <1>3, <1>4, <1>5, <1>6, <1>7, <1>8, EnsureReadyKeeps
<1>9. CASE r.at[t] # "replace"
  <2>1. Ends(w, t, c, c.outcome) /\ UNCHANGED <<key, login, marker, verified, sends, faults>>
    BY <1>2, <1>9
  <2>2. marker' \in BOOLEAN /\ verified' \in BOOLEAN
        /\ (verified' => key /\ ~ marker') /\ (key /\ ~ verified' => marker')
    BY <2>1 DEF IInv, Typed, Shared
  <2> QED BY <1>3, <1>5, <1>6, <1>7, <2>1, <2>2, EndsKeeps
<1> QED BY <1>8, <1>9

LEMMA RetireFailsKeeps ==
    ASSUME IInv, NEW w \in Worker, NEW t \in Task, RetireFails(w, t)
    PROVE  IInv'
<1>1. worker[w].at[t] \in {"replace", "retire"}
      /\ UNCHANGED <<key, login, marker, verified, sends, faults>>
  BY DEF RetireFails, At
<1>2. Held(worker[w], t) /\ flock = w /\ worker[w].send[t] = "none"
  BY <1>1, AtFacts
<1>3. /\ key' \in BOOLEAN /\ marker' \in BOOLEAN /\ verified' \in BOOLEAN
      /\ login' \in {"none", "bot", "revoked"}
      /\ key => key'
      /\ verified' => key /\ ~ marker'
      /\ key /\ ~ verified' => marker'
  BY <1>1 DEF IInv, Typed, Shared
<1>4. CASE worker[w].at[t] = "replace"
  <2>1. Sets(w, Fails(worker[w], t, "error", TRUE)) /\ UNCHANGED flock
    BY <1>4 DEF RetireFails, At
  <2>2. verified' => key' /\ ~ marker'
    BY <1>1, <1>3
  <2>3. key' /\ ~ verified' => marker'
    BY <1>1, <1>3
  <2> QED BY <1>1, <1>2, <1>3, <2>1, <2>2, <2>3, FailsKeeps
<1>5. CASE worker[w].at[t] = "retire"
  <2>1. Ends(w, t, worker[w], worker[w].outcome)
    BY <1>5 DEF RetireFails, At
  <2> QED BY <1>1, <1>2, <1>3, <2>1, WorkerFacts, EndsKeeps
<1> QED BY <1>1, <1>4, <1>5

\* A connection that is made, and one that fails after the key was made.
LEMMA ConnectsKeeps ==
    ASSUME IInv, NEW w \in Worker, NEW t \in Task, Connects(w, t)
    PROVE  IInv'
<1>1. PICK r \in WorkerState : r = worker[w]
  BY WorkerFacts
<1>2. r.at[t] = "connect" /\ UNCHANGED <<login, marker, flock, verified, sends, faults>>
  BY <1>1 DEF Connects, At
<1>3. /\ Held(r, t) /\ flock = w /\ r.send[t] = "none"
      /\ r.client # "none" /\ r.closing = "none"
  BY <1>1, <1>2, AtFacts DEF Using, LoggingIn
<1>4. Marked(r) /\ Coherent(r)
  BY <1>1, WorkerFacts
<1>5. /\ key \in BOOLEAN /\ marker' \in BOOLEAN /\ verified' \in BOOLEAN
      /\ login' \in {"none", "bot", "revoked"}
      /\ verified' => key /\ ~ marker'
      /\ key /\ ~ verified' => marker'
      /\ verified' \/ marker'
  BY <1>2, <1>4 DEF IInv, Typed, Shared, Marked
<1>6. CASE Sets(w, Fails(worker[w], t, "error", TRUE)) /\ key' \in {key, TRUE}
  <2>1. key' \in BOOLEAN
    BY <1>5, <1>6
  <2>2. key => key'
    BY <1>5, <1>6
  <2>3. verified' => key' /\ ~ marker'
    BY <1>5, <2>2
  <2>4. key' /\ ~ verified' => marker'
    BY <1>5
  <2> QED BY <1>1, <1>2, <1>3, <1>5, <1>6, <2>1, <2>2, <2>3, <2>4, FailsKeeps
<1>7. CASE Sets(w, [worker[w] EXCEPT !.client = "connected", !.at[t] = "check"]) /\ key' = TRUE
  <2> DEFINE x == [r EXCEPT !.client = "connected", !.at[t] = "check"]
  <2>1. worker' = [worker EXCEPT ![w] = x]
    BY <1>1, <1>7 DEF Sets
  <2>2. x \in WorkerState
    BY DEF WorkerState, Await
  <2>3. /\ x.lock = r.lock /\ x.stage = r.stage /\ (x.lost <=> r.lost) /\ x.send = r.send
        /\ x.client = "connected" /\ x.closing = r.closing /\ x.writers = r.writers
        /\ x.may = r.may
        /\ x.at = [r.at EXCEPT ![t] = "check"] /\ r.at \in [Task -> Await]
    BY DEF WorkerState
  <2> HIDE DEF x
  <2>4. \A u \in Task : x.at[u] = IF u = t THEN "check" ELSE r.at[u]
    BY <2>3
  <2>5. \A u \in Task \ {t} : x.at[u] = r.at[u] /\ x.send[u] = r.send[u]
    BY <2>3, <2>4
  <2>6. /\ x.at[t] = "check" /\ x.send[t] = "none" /\ ~ x.lost /\ x.lock = t
        /\ x.closing = "none" /\ x.writers = 1
    BY <1>3, <2>3, <2>4 DEF Held
  <2>7. Coherent(x)
    BY <1>3, <2>2, <2>3, <2>5, <2>6, MovesCoherent
  <2>8. \A u \in Task : x.at[u] # "connect" /\ (x.at[u] \in LoggingIn => u = t)
    BY <1>3, <2>4 DEF Held, LoggingIn
  <2>9. r.may => ~ verified
    BY <1>2, <1>4 DEF Marked, LoggingIn
  <2>10. Marked(x)'
    BY <1>2, <1>7, <2>3, <2>8, <2>9 DEF Marked
  <2>11. /\ flock' = w /\ flock' \in Worker \union {Nobody}
         /\ sends' \in 0 .. MaxSends /\ faults' \in 0 .. MaxFaults
         /\ \A v \in Worker \ {w} : flock = v => flock' = v
    BY <1>2, <1>3, WorkerFacts
  <2>12. verified' => key' /\ ~ marker'
    BY <1>5, <1>7
  <2>13. key' \in BOOLEAN /\ (key' /\ ~ verified' => marker')
    BY <1>5, <1>7
  <2> QED BY <1>3, <1>5, <2>1, <2>2, <2>7, <2>10, <2>11, <2>12, <2>13, WorkerStep
<1> QED BY <1>6, <1>7 DEF Connects

\* The task that uses the client goes on to its next await with it.
LEMMA MovesKeeps ==
    ASSUME IInv, NEW w \in Worker, NEW t \in Task, NEW r \in WorkerState, r = worker[w],
           r.at[t] \in Using \ {"connect"}, NEW x \in WorkerState,
           worker' = [worker EXCEPT ![w] = x],
           x.stage = r.stage, x.client = r.client, x.closing = r.closing,
           x.trusted \in BOOLEAN, x.writers = r.writers, x.lock = r.lock, x.may = r.may,
           ~ x.lost, \A u \in Task \ {t} : x.at[u] = r.at[u] /\ x.send[u] = r.send[u],
           x.at[t] \in Using \ {"connect"}, x.at[t] = "sign_in" => r.may,
           x.send[t] # "none" => x.at[t] = "send",
           UNCHANGED <<key, flock, sends, faults>>, login' \in {"none", "bot", "revoked"},
           marker' \in BOOLEAN, verified' \in BOOLEAN,
           verified' => key /\ ~ marker', key /\ ~ verified' => marker',
           x.at[t] \in LoggingIn => r.at[t] \in LoggingIn /\ verified' = verified
    PROVE  IInv'
<1>1. /\ Held(r, t) /\ flock = w
      /\ r.client \notin {"none", "new"} /\ r.closing = "none"
  BY AtFacts DEF Using, LoggingIn
<1>2. Marked(r) /\ Coherent(r)
  BY WorkerFacts
<1>3. /\ x.lock = t /\ x.at[t] \notin {"idle", "lock", "replace"}
      /\ x.client \notin {"none", "new"} /\ x.closing = "none"
      /\ x.writers = IF x.client = "none" \/ x.closing = "finished" THEN 0 ELSE 1
  BY <1>1 DEF Held, Using, LoggingIn
<1>4. Coherent(x)
  BY <1>1, <1>3, MovesCoherent
<1>5. \A u \in Task : x.at[u] # "connect" /\ (x.at[u] \in LoggingIn => u = t)
  BY <1>1 DEF Held, LoggingIn
<1>6. Marked(x)'
  BY <1>2, <1>5 DEF Marked
<1>7. /\ flock' = w /\ flock' \in Worker \union {Nobody}
      /\ sends' \in 0 .. MaxSends /\ faults' \in 0 .. MaxFaults
      /\ \A v \in Worker \ {w} : flock = v => flock' = v
  BY <1>1, WorkerFacts
<1>8. key' \in BOOLEAN /\ (verified' => key' /\ ~ marker') /\ (key' /\ ~ verified' => marker')
  BY DEF IInv, Typed
<1> QED BY <1>1, <1>4, <1>6, <1>7, <1>8, WorkerStep

LEMMA ChecksKeeps ==
    ASSUME IInv, NEW w \in Worker, NEW t \in Task, Checks(w, t)
    PROVE  IInv'
<1>1. PICK r \in WorkerState : r = worker[w]
  BY WorkerFacts
<1>2. /\ r.at[t] \in {"check", "recheck"} /\ r.client = "connected"
      /\ UNCHANGED <<key, login, marker, flock, verified, sends, faults>>
      /\ worker' = [worker EXCEPT ![w] =
            IF login = "bot" THEN [r EXCEPT !.trusted = TRUE, !.at[t] = "unmark"]
            ELSE IF r.at[t] = "check" /\ r.may THEN [r EXCEPT !.at[t] = "sign_in"]
            ELSE Fails(r, t, "error", FALSE)]
  BY <1>1 DEF Checks, At, Sets, MaySignIn
<1>3. Held(r, t) /\ flock = w /\ r.send[t] = "none"
  BY <1>1, <1>2, AtFacts
<1>4. /\ login' \in {"none", "bot", "revoked"} /\ marker' \in BOOLEAN /\ verified' \in BOOLEAN
      /\ key' \in BOOLEAN
      /\ key => key'
      /\ verified' => key /\ ~ marker'
      /\ key /\ ~ verified' => marker'
      /\ verified' => key' /\ ~ marker'
      /\ key' /\ ~ verified' => marker'
  BY <1>2 DEF IInv, Typed, Shared
<1>5. CASE login = "bot"
  <2> DEFINE x == [r EXCEPT !.trusted = TRUE, !.at[t] = "unmark"]
  <2>1. x \in WorkerState
    BY DEF WorkerState, Await
  <2>2. /\ x.lock = r.lock /\ x.stage = r.stage /\ (x.lost <=> r.lost) /\ x.send = r.send
        /\ x.client = r.client /\ x.closing = r.closing /\ x.writers = r.writers
        /\ x.may = r.may /\ x.trusted = TRUE
        /\ x.at = [r.at EXCEPT ![t] = "unmark"] /\ r.at \in [Task -> Await]
    BY DEF WorkerState
  <2>3. worker' = [worker EXCEPT ![w] = x]
    BY <1>2, <1>5
  <2> HIDE DEF x
  <2>4. /\ \A u \in Task \ {t} : x.at[u] = r.at[u] /\ x.send[u] = r.send[u]
        /\ x.at[t] = "unmark" /\ x.send[t] = "none" /\ ~ x.lost
    BY <1>3, <2>2 DEF Held
  <2>5. r.at[t] \in Using \ {"connect"} /\ x.at[t] \in Using \ {"connect"}
        /\ x.at[t] \notin LoggingIn
    BY <1>2, <2>4 DEF Using, LoggingIn
  <2> QED BY <1>1, <1>2, <1>4, <2>1, <2>2, <2>3, <2>4, <2>5, MovesKeeps
<1>6. CASE login # "bot" /\ r.at[t] = "check" /\ r.may
  <2> DEFINE x == [r EXCEPT !.at[t] = "sign_in"]
  <2>1. x \in WorkerState
    BY DEF WorkerState, Await
  <2>2. /\ x.lock = r.lock /\ x.stage = r.stage /\ (x.lost <=> r.lost) /\ x.send = r.send
        /\ x.client = r.client /\ x.closing = r.closing /\ x.writers = r.writers
        /\ x.may = r.may /\ x.trusted \in BOOLEAN
        /\ x.at = [r.at EXCEPT ![t] = "sign_in"] /\ r.at \in [Task -> Await]
    BY DEF WorkerState
  <2>3. worker' = [worker EXCEPT ![w] = x]
    BY <1>2, <1>6
  <2> HIDE DEF x
  <2>4. /\ \A u \in Task \ {t} : x.at[u] = r.at[u] /\ x.send[u] = r.send[u]
        /\ x.at[t] = "sign_in" /\ x.send[t] = "none" /\ ~ x.lost
    BY <1>3, <2>2 DEF Held
  <2>5. r.at[t] \in Using \ {"connect"} /\ x.at[t] \in Using \ {"connect"}
        /\ r.at[t] \in LoggingIn
    BY <1>2, <2>4 DEF Using, LoggingIn
  <2> QED BY <1>1, <1>2, <1>4, <1>6, <2>1, <2>2, <2>3, <2>4, <2>5, MovesKeeps
<1>7. CASE login # "bot" /\ ~ (r.at[t] = "check" /\ r.may)
  <2>1. Sets(w, Fails(worker[w], t, "error", FALSE))
    BY <1>1, <1>2, <1>7 DEF Sets
  <2> QED BY <1>1, <1>2, <1>3, <1>4, <2>1, FailsKeeps
<1> QED BY <1>5, <1>6, <1>7

LEMMA SignsInKeeps ==
    ASSUME IInv, NEW w \in Worker, NEW t \in Task, SignsIn(w, t)
    PROVE  IInv'
<1>1. PICK r \in WorkerState : r = worker[w]
  BY WorkerFacts
<1> DEFINE x == [r EXCEPT !.at[t] = "recheck"]
<1>2. /\ r.at[t] = "sign_in" /\ login' = "bot"
      /\ UNCHANGED <<key, marker, flock, verified, sends, faults>>
      /\ worker' = [worker EXCEPT ![w] = x]
  BY <1>1 DEF SignsIn, At, Sets
<1>3. Held(r, t) /\ flock = w /\ r.send[t] = "none"
  BY <1>1, <1>2, AtFacts
<1>4. /\ marker' \in BOOLEAN /\ verified' \in BOOLEAN
      /\ verified' => key /\ ~ marker'
      /\ key /\ ~ verified' => marker'
  BY <1>2 DEF IInv, Typed, Shared
<1>5. x \in WorkerState
  BY DEF WorkerState, Await
<1>6. /\ x.lock = r.lock /\ x.stage = r.stage /\ (x.lost <=> r.lost) /\ x.send = r.send
      /\ x.client = r.client /\ x.closing = r.closing /\ x.writers = r.writers
      /\ x.may = r.may /\ x.trusted \in BOOLEAN
      /\ x.at = [r.at EXCEPT ![t] = "recheck"] /\ r.at \in [Task -> Await]
  BY DEF WorkerState
<1> HIDE DEF x
<1>7. /\ \A u \in Task \ {t} : x.at[u] = r.at[u] /\ x.send[u] = r.send[u]
      /\ x.at[t] = "recheck" /\ x.send[t] = "none" /\ ~ x.lost
  BY <1>3, <1>6 DEF Held
<1>8. r.at[t] \in Using \ {"connect"} /\ x.at[t] \in Using \ {"connect"} /\ r.at[t] \in LoggingIn
  BY <1>2, <1>7 DEF Using, LoggingIn
<1> QED BY <1>1, <1>2, <1>4, <1>5, <1>6, <1>7, <1>8, MovesKeeps

LEMMA RequestFailsKeeps ==
    ASSUME IInv, NEW w \in Worker, NEW t \in Task, RequestFails(w, t)
    PROVE  IInv'
<1>1. /\ worker[w].at[t] \in {"check", "sign_in", "recheck"}
      /\ UNCHANGED <<key, marker, flock, verified, sends, faults>>
  BY DEF RequestFails, At
<1>2. PICK transient \in BOOLEAN : Sets(w, Fails(worker[w], t, "error", transient))
  BY DEF RequestFails
<1>3. Held(worker[w], t) /\ flock = w /\ worker[w].send[t] = "none"
  BY <1>1, AtFacts
<1>4. /\ login' \in {"none", "bot", "revoked"} /\ marker' \in BOOLEAN /\ verified' \in BOOLEAN
      /\ key' \in BOOLEAN
      /\ key => key'
      /\ verified' => key' /\ ~ marker'
      /\ key' /\ ~ verified' => marker'
  BY <1>1 DEF RequestFails, IInv, Typed, Shared
<1> QED BY <1>1, <1>2, <1>3, <1>4, FailsKeeps

\* The session is verified by a client that has connected: its key is made.
LEMMA UnmarkFacts ==
    ASSUME IInv, NEW w \in Worker, NEW t \in Task, worker[w].at[t] = "unmark"
    PROVE  key
<1>1. worker[w].client \in {"connected", "dropped"}
  BY AtFacts, WorkerFacts DEF Using, LoggingIn, WorkerState
<1> QED BY <1>1, WorkerFacts DEF Marked

LEMMA UnmarksKeeps ==
    ASSUME IInv, NEW w \in Worker, NEW t \in Task, Unmarks(w, t)
    PROVE  IInv'
<1>1. PICK r \in WorkerState : r = worker[w]
  BY WorkerFacts
<1>2. /\ r.at[t] = "unmark" /\ marker' = FALSE /\ verified' = TRUE
      /\ UNCHANGED <<key, login, sends, faults>>
  BY <1>1 DEF Unmarks, At
<1>3. Held(r, t) /\ flock = w
  BY <1>1, <1>2, AtFacts
<1>4. /\ login' \in {"none", "bot", "revoked"} /\ marker' \in BOOLEAN /\ verified' \in BOOLEAN
      /\ verified' => key /\ ~ marker'
      /\ key /\ ~ verified' => marker'
  BY <1>1, <1>2, UnmarkFacts DEF IInv, Typed
<1>5. CASE t = "main"
  <2>1. Ends(w, t, r, "none")
    BY <1>1, <1>5 DEF Unmarks
  <2> QED BY <1>1, <1>2, <1>3, <1>4, <2>1, EndsKeeps
<1>6. CASE t # "main"
  <2> DEFINE x == [r EXCEPT !.at[t] = "send", !.send[t] = "running"]
  <2>1. worker' = [worker EXCEPT ![w] = x] /\ UNCHANGED flock
    BY <1>1, <1>6 DEF Unmarks, Sets
  <2>2. x \in WorkerState
    BY DEF WorkerState, Await
  <2>3. /\ x.lock = r.lock /\ x.stage = r.stage /\ (x.lost <=> r.lost)
        /\ x.send = [r.send EXCEPT ![t] = "running"]
        /\ x.client = r.client /\ x.closing = r.closing /\ x.writers = r.writers
        /\ x.may = r.may /\ x.trusted \in BOOLEAN
        /\ x.at = [r.at EXCEPT ![t] = "send"] /\ r.at \in [Task -> Await]
        /\ r.send \in [Task -> {"none", "running", "answered", "failed"}]
    BY DEF WorkerState
  <2> HIDE DEF x
  <2>4. /\ \A u \in Task \ {t} : x.at[u] = r.at[u] /\ x.send[u] = r.send[u]
        /\ x.at[t] = "send" /\ ~ x.lost
    BY <1>3, <2>3 DEF Held
  <2>5. r.at[t] \in Using \ {"connect"} /\ x.at[t] \in Using \ {"connect"}
        /\ x.at[t] \notin LoggingIn
    BY <1>2, <2>4 DEF Using, LoggingIn
  <2> QED BY <1>1, <1>2, <1>4, <2>1, <2>2, <2>3, <2>4, <2>5, MovesKeeps
<1> QED BY <1>5, <1>6

LEMMA SendEndsKeeps ==
    ASSUME IInv, NEW w \in Worker, NEW t \in Task, SendEnds(w, t)
    PROVE  IInv'
<1>1. PICK r \in WorkerState : r = worker[w]
  BY WorkerFacts
<1>2. PICK s \in {"answered", "failed"} : Sets(w, [worker[w] EXCEPT !.send[t] = s])
  BY DEF SendEnds
<1> DEFINE x == [r EXCEPT !.send[t] = s]
<1>3. /\ r.send[t] = "running" /\ worker' = [worker EXCEPT ![w] = x]
      /\ UNCHANGED <<key, login, marker, flock, verified, sends, faults>>
  BY <1>1, <1>2 DEF SendEnds, Sets
<1>4. r.at[t] = "send"
  BY <1>1, <1>3, WorkerFacts DEF Coherent
<1>5. Held(r, t)
  BY <1>1, <1>4, AtFacts
<1>6. x \in WorkerState
  BY DEF WorkerState
<1>7. /\ x.lock = r.lock /\ x.stage = r.stage /\ (x.lost <=> r.lost)
      /\ x.send = [r.send EXCEPT ![t] = s]
      /\ x.client = r.client /\ x.closing = r.closing /\ x.writers = r.writers
      /\ x.may = r.may /\ x.trusted \in BOOLEAN /\ x.at = r.at
      /\ r.send \in [Task -> {"none", "running", "answered", "failed"}]
  BY DEF WorkerState
<1> HIDE DEF x
<1>8. /\ \A u \in Task \ {t} : x.at[u] = r.at[u] /\ x.send[u] = r.send[u]
      /\ x.at[t] = "send" /\ ~ x.lost
  BY <1>4, <1>5, <1>7 DEF Held
<1>9. r.at[t] \in Using \ {"connect"} /\ x.at[t] \in Using \ {"connect"} /\ x.at[t] \notin LoggingIn
  BY <1>4, <1>8 DEF Using, LoggingIn
<1>10. /\ login' \in {"none", "bot", "revoked"} /\ marker' \in BOOLEAN /\ verified' \in BOOLEAN
       /\ verified' => key /\ ~ marker'
       /\ key /\ ~ verified' => marker'
  BY <1>3 DEF IInv, Typed, Shared
<1> QED BY <1>1, <1>3, <1>6, <1>7, <1>8, <1>9, <1>10, MovesKeeps

\* A method that returns while the lock on the session is kept.
LEMMA ReturnsKeeps ==
    ASSUME IInv, NEW w \in Worker, NEW t \in Task, Held(worker[w], t), NEW outcome,
           Sets(w, Returns(worker[w], t, outcome)), flock = w,
           UNCHANGED <<key, login, marker, flock, verified, sends, faults>>
    PROVE  IInv'
<1>1. PICK r \in WorkerState : r = worker[w]
  BY WorkerFacts
<1> DEFINE x == Returns(r, t, outcome)
<1>2. worker' = [worker EXCEPT ![w] = x]
  BY <1>1 DEF Sets
<1>3. /\ x \in WorkerState /\ Coherent(x) /\ x.client = r.client
      /\ \A u \in Task : x.at[u] \notin Using
  BY <1>1, ReturnsCoherent
<1> HIDE DEF x
<1>4. /\ flock' \in Worker \union {Nobody} /\ sends' \in 0 .. MaxSends /\ faults' \in 0 .. MaxFaults
      /\ \A v \in Worker \ {w} : flock = v => flock' = v
      /\ flock' = w /\ x.client = worker[w].client
  BY <1>1, <1>3, WorkerFacts
<1> QED BY <1>2, <1>3, <1>4, QuietStep

LEMMA ResumesKeeps ==
    ASSUME IInv, NEW w \in Worker, NEW t \in Task, Resumes(w, t)
    PROVE  IInv'
<1>1. /\ worker[w].at[t] = "send"
      /\ UNCHANGED <<key, login, marker, flock, verified, sends, faults>>
  BY DEF Resumes, At
<1>2. Held(worker[w], t) /\ flock = w
  BY <1>1, AtFacts
<1>3. CASE worker[w].send[t] = "answered"
  <2>1. Sets(w, Returns(worker[w], t, "sent"))
    BY <1>3 DEF Resumes, Outcome
  <2> QED BY <1>1, <1>2, <2>1, ReturnsKeeps
<1>4. CASE worker[w].send[t] # "answered"
  <2>1. PICK transient : Sets(w, Fails(worker[w], t, "error", transient))
    BY <1>4 DEF Resumes, Outcome
  <2>2. /\ login' \in {"none", "bot", "revoked"} /\ marker' \in BOOLEAN /\ verified' \in BOOLEAN
        /\ key' \in BOOLEAN
        /\ key => key'
        /\ verified' => key' /\ ~ marker'
        /\ key' /\ ~ verified' => marker'
    BY <1>1 DEF IInv, Typed, Shared
  <2> QED BY <1>1, <1>2, <1>4, <2>1, <2>2, FailsKeeps
<1> QED BY <1>3, <1>4

\* A task that waits for the lock leaves, and the worker closes when it was its prepare.
LEMMA CancelLockKeeps ==
    ASSUME IInv, NEW w \in Worker, NEW t \in Task, Cancel(w, t), worker[w].at[t] = "lock"
    PROVE  IInv'
<1>1. PICK r \in WorkerState : r = worker[w]
  BY WorkerFacts
<1> DEFINE x == [r EXCEPT !.at[t] = "idle", !.stage = IF t = "main" THEN "close" ELSE @]
<1>2. /\ r.at[t] = "lock" /\ (t = "main" => r.stage = "prepare")
      /\ UNCHANGED <<key, login, marker, flock, verified, sends, faults>>
      /\ worker' = [worker EXCEPT ![w] = x]
  BY <1>1 DEF Cancel, At, Sets
<1>3. Coherent(r) /\ Marked(r) /\ (Holding(r) => flock = w)
  BY <1>1, WorkerFacts
<1>4. x \in WorkerState
  BY DEF WorkerState, Await
<1>5. /\ x.stage = (IF t = "main" THEN "close" ELSE r.stage)
      /\ x.client = r.client /\ x.closing = r.closing
      /\ x.trusted = r.trusted /\ x.writers = r.writers /\ x.lock = r.lock
      /\ x.may = r.may /\ (x.lost <=> r.lost) /\ x.send = r.send
      /\ x.at = [r.at EXCEPT ![t] = "idle"] /\ r.at \in [Task -> Await]
  BY DEF WorkerState
<1> HIDE DEF x
<1>6. \A u \in Task : x.at[u] = IF u = t THEN "idle" ELSE r.at[u]
  BY <1>5
<1>7. \A u \in Task : x.at[u] \in {"idle", "lock"} <=> r.at[u] \in {"idle", "lock"}
  BY <1>2, <1>6
<1>8. \A u \in Task : x.at[u] \notin {"idle", "lock"} => x.at[u] = r.at[u]
  BY <1>6
<1>9. /\ t = "main" => x.at["main"] = "idle" /\ \A u \in Upload : x.at[u] = "idle"
      /\ t # "main" => x.at["main"] = r.at["main"]
      /\ t # "main" => r.stage = "serve"
  BY <1>2, <1>3, <1>6, TransportAssumption DEF Coherent, Task
<1>10. /\ x.stage = "off" => x.client = "none"
       /\ x.stage \in {"off", "exit", "serve"} => x.at["main"] = "idle"
       /\ x.stage # "serve" => \A u \in Upload : x.at[u] = "idle"
  BY <1>3, <1>5, <1>9 DEF Coherent
<1>11. \A u \in Task : x.send[u] # "none" => x.at[u] = "send"
  BY <1>2, <1>3, <1>5, <1>6 DEF Coherent
<1>12. Coherent(x)
  BY <1>3, <1>5, <1>7, <1>8, <1>10, <1>11 DEF Coherent, Using, LoggingIn
<1>13. Marked(x)'
  BY <1>2, <1>3, <1>5, <1>8 DEF Marked, LoggingIn
<1>14. Holding(x) => flock' = w
  BY <1>2, <1>3, <1>5 DEF Holding
<1>15. /\ flock' \in Worker \union {Nobody} /\ sends' \in 0 .. MaxSends /\ faults' \in 0 .. MaxFaults
       /\ \A v \in Worker \ {w} : flock = v => flock' = v
  BY <1>2, WorkerFacts
<1>16. /\ login' \in {"none", "bot", "revoked"} /\ marker' \in BOOLEAN /\ verified' \in BOOLEAN
       /\ key' \in BOOLEAN
       /\ verified' => key' /\ ~ marker'
       /\ key' /\ ~ verified' => marker'
  BY <1>2 DEF IInv, Typed, Shared
<1> QED BY <1>2, <1>4, <1>12, <1>13, <1>14, <1>15, <1>16, WorkerStep

LEMMA CancelKeeps ==
    ASSUME IInv, NEW w \in Worker, NEW t \in Task, Cancel(w, t)
    PROVE  IInv'
<1>1. CASE worker[w].at[t] = "lock"
  BY <1>1, CancelLockKeeps
<1>2. CASE worker[w].at[t] = "retire"
  <2>1. Sets(w, Returns(worker[w], t, "cancelled"))
        /\ UNCHANGED <<key, login, marker, flock, verified, sends, faults>>
    BY <1>2 DEF Cancel, At
  <2> QED BY <1>2, <2>1, AtFacts, ReturnsKeeps
<1>3. CASE worker[w].at[t] \notin {"lock", "retire"}
  <2>1. /\ worker[w].at[t] \notin {"idle", "lock"}
        /\ Sets(w, Fails(worker[w], t, "cancelled", TRUE))
        /\ UNCHANGED <<key, login, flock, sends, faults>>
        /\ \/ worker[w].at[t] = "unmark" /\ marker' = FALSE /\ verified' = TRUE
           \/ UNCHANGED <<marker, verified>>
    BY <1>3 DEF Cancel, At
  <2>2. Held(worker[w], t) /\ flock = w
    BY <2>1, AtFacts
  <2>3. /\ login' \in {"none", "bot", "revoked"} /\ marker' \in BOOLEAN /\ verified' \in BOOLEAN
        /\ key' \in BOOLEAN
        /\ key => key'
        /\ verified' => key' /\ ~ marker'
        /\ key' /\ ~ verified' => marker'
    <3>1. CASE UNCHANGED <<marker, verified>>
      BY <2>1, <3>1 DEF IInv, Typed, Shared
    <3>2. CASE worker[w].at[t] = "unmark" /\ marker' = FALSE /\ verified' = TRUE
      BY <2>1, <3>2, UnmarkFacts DEF IInv, Typed
    <3> QED BY <2>1, <3>1, <3>2
  <2> QED BY <2>1, <2>2, <2>3, FailsKeeps
<1> QED BY <1>1, <1>2, <1>3

LEMMA DropKeeps ==
    ASSUME IInv, NEW w \in Worker, Drop(w)
    PROVE  IInv'
<1>1. PICK r \in WorkerState : r = worker[w]
  BY WorkerFacts
<1> DEFINE x == [r EXCEPT !.client = "dropped"]
<1>2. /\ r.client = "connected" /\ worker' = [worker EXCEPT ![w] = x]
      /\ UNCHANGED <<key, login, marker, flock, verified, sends>>
      /\ faults' \in 0 .. MaxFaults
  BY <1>1, WorkerFacts, TransportAssumption DEF Drop, Sets
<1>3. Coherent(r) /\ Marked(r) /\ (Holding(r) => flock = w)
  BY <1>1, WorkerFacts
<1>4. x \in WorkerState
  BY DEF WorkerState
<1>5. /\ x.stage = r.stage /\ x.client = "dropped" /\ x.closing = r.closing
      /\ x.trusted = r.trusted /\ x.writers = r.writers /\ x.lock = r.lock
      /\ x.may = r.may /\ (x.lost <=> r.lost) /\ x.send = r.send /\ x.at = r.at
  BY DEF WorkerState
<1> HIDE DEF x
<1>6. flock = w /\ r.stage # "off"
  BY <1>2, <1>3 DEF Holding, Coherent
<1>7. Coherent(x)
  BY <1>2, <1>3, <1>5, <1>6 DEF Coherent
<1>8. Marked(x)'
  BY <1>2, <1>3, <1>5 DEF Marked
<1>9. /\ flock' = w /\ flock' \in Worker \union {Nobody} /\ sends' \in 0 .. MaxSends
      /\ \A v \in Worker \ {w} : flock = v => flock' = v
  BY <1>2, <1>6, WorkerFacts
<1>10. /\ login' \in {"none", "bot", "revoked"} /\ marker' \in BOOLEAN /\ verified' \in BOOLEAN
       /\ key' \in BOOLEAN
       /\ verified' => key' /\ ~ marker'
       /\ key' /\ ~ verified' => marker'
  BY <1>2 DEF IInv, Typed, Shared
<1> QED BY <1>2, <1>4, <1>7, <1>8, <1>9, <1>10, WorkerStep

LEMMA RevokeKeeps == IInv /\ Revoke => IInv'
<1> SUFFICES ASSUME IInv, Revoke PROVE IInv'
  OBVIOUS
<1>1. UNCHANGED <<key, marker, flock, worker, verified, sends>> /\ login' = "revoked"
      /\ faults' \in 0 .. MaxFaults
  BY TransportAssumption DEF Revoke, IInv, Typed
<1>2. Typed'
  BY <1>1 DEF IInv, Typed
<1>3. \A w \in Worker : Marked(worker[w])'
  BY <1>1 DEF IInv, Shared, Marked
<1>4. Shared'
  BY <1>1, <1>3 DEF IInv, Shared
<1> QED BY <1>1, <1>2, <1>4 DEF IInv

-----------------------------------------------------------------------------
LEMMA InitIInv == Init => IInv
<1> SUFFICES ASSUME Init PROVE IInv
  OBVIOUS
<1>1. \A w \in Worker : worker[w] = Off
  BY DEF Init
<1>2. Typed
  <2>1. worker \in [Worker -> WorkerState]
    BY OffCoherent DEF Init
  <2>2. sends \in 0 .. MaxSends /\ faults \in 0 .. MaxFaults
    BY TransportAssumption DEF Init
  <2> QED BY <2>1, <2>2 DEF Init, Typed
<1>3. \A w \in Worker : Marked(worker[w])
  BY <1>1, OffCoherent DEF Marked, Using, LoggingIn
<1>4. Shared
  BY <1>1, <1>3, OffCoherent DEF Shared, Init
<1> QED BY <1>1, <1>2, <1>4, OffCoherent DEF IInv

LEMMA StepKeeps == IInv /\ [Next]_vars => IInv'
<1> SUFFICES ASSUME IInv, [Next]_vars PROVE IInv'
  OBVIOUS
<1>1. CASE UNCHANGED vars
  BY <1>1 DEF vars, IInv, Typed, Shared, Marked
<1>2. ASSUME NEW w \in Worker, Start(w) \/ Stop(w) \/ Exit(w) \/ Kill(w)
             \/ Disconnect(w) \/ Drop(w)
      PROVE  IInv'
  BY <1>2, StartKeeps, StopKeeps, ExitKeeps, KillKeeps, DisconnectKeeps, DropKeeps
<1>3. ASSUME NEW w \in Worker, NEW t \in Task,
             \/ BeginSend(w, t) \/ Enters(w, t) \/ Retired(w, t) \/ RetireFails(w, t)
             \/ Connects(w, t) \/ Checks(w, t) \/ SignsIn(w, t) \/ RequestFails(w, t)
             \/ Unmarks(w, t) \/ SendEnds(w, t) \/ Resumes(w, t) \/ Cancel(w, t)
      PROVE  IInv'
  BY <1>3, BeginSendKeeps, EntersKeeps, RetiredKeeps, RetireFailsKeeps, ConnectsKeeps,
     ChecksKeeps, SignsInKeeps, RequestFailsKeeps, UnmarksKeeps, SendEndsKeeps, ResumesKeeps,
     CancelKeeps
<1> QED BY <1>1, <1>2, <1>3, RevokeKeeps DEF Next

\* Every worker's state is coherent with itself, with the lock on the session, and with
\* the key and the marker of the session file, whatever its tasks' interleaving with
\* disconnects, timeouts, cancellations, kills and revocations.
THEOREM Invariant == Spec => []IInv
<1> QED BY InitIInv, StepKeeps, PTL DEF Spec

\* At most one client may use the session file, and only of the worker that holds its
\* lock: a new client is made when the last has finished, close gives the lock back when
\* there is none.
THEOREM OneWriterAlways == Spec => []OneWriter
<1>1. IInv => OneWriter
  <2> SUFFICES ASSUME IInv PROVE OneWriter
    OBVIOUS
  <2>1. ASSUME NEW w \in Worker
        PROVE  worker[w].writers \in {0, 1} /\ (worker[w].writers = 1 => flock = w)
    BY WorkerFacts DEF Coherent, Holding
  <2> QED BY <2>1 DEF OneWriter
<1> QED BY <1>1, Invariant, PTL

\* A client is not closed under an upload, a login that was interrupted is marked, an
\* acknowledged upload is reported, and the state has its type.
THEOREM TransportIsSound == Spec => []TransportInv
<1>1. IInv => TransportInv
  <2> SUFFICES ASSUME IInv PROVE TransportInv
    OBVIOUS
  <2>1. ASSUME NEW w \in Worker
        PROVE  LET r == worker[w] IN
               /\ r.stage \in {"prepare", "serve", "close"} => flock = w
               /\ r.client = "none" => r.closing = "none" /\ ~ r.trusted
               /\ \A t \in Task : (r.at[t] \notin {"idle", "lock"}) = (r.lock = t)
               /\ \A t \in Upload : r.send[t] = "running" => r.closing = "none"
               /\ ~ r.lost
    <3>1. PICK r \in WorkerState : r = worker[w]
      BY WorkerFacts
    <3>2. Coherent(r) /\ (Holding(r) => flock = w)
      BY <3>1, WorkerFacts
    <3>3. \A t \in Task : (r.at[t] \notin {"idle", "lock"}) = (r.lock = t)
      BY <3>2 DEF Coherent
    <3>4. \A t \in Upload : r.send[t] = "running" => r.closing = "none"
      BY <3>2, TaskFacts DEF Coherent, Using
    <3> QED BY <3>1, <3>2, <3>3, <3>4 DEF Coherent, Holding
  <2>2. TransportTypeOK
    BY <2>1 DEF IInv, Typed, TransportTypeOK
  <2>3. InterruptedLoginIsMarked
    BY DEF IInv, Shared, InterruptedLoginIsMarked
  <2> QED BY <2>1, <2>2, <2>3 DEF TransportInv, NoCloseUnderUpload, AcknowledgedIsReported
<1> QED BY <1>1, Invariant, PTL

\* No login follows the verification of the session: a client that may log in found the
\* marker, or no key, and neither comes back once the login was verified.
THEOREM RevocationStays == Spec => RevocationIsNotMasked
<1>1. IInv /\ [Next]_vars => [verified /\ login # "bot" => login' # "bot"]_vars
  <2> SUFFICES ASSUME IInv, Next, verified PROVE login # "bot" => login' # "bot"
    OBVIOUS
  <2>1. \A w \in Worker, t \in Task : worker[w].at[t] # "sign_in"
    BY WorkerFacts DEF Coherent, Marked, LoggingIn
  <2>2. ASSUME NEW w \in Worker, Start(w) \/ Stop(w) \/ Exit(w) \/ Disconnect(w) \/ Drop(w)
        PROVE  login' = login
    BY <2>2 DEF Start, Stop, Exit, Disconnect, Drop
  <2>3. ASSUME NEW w \in Worker, Kill(w) PROVE login' = login
    BY <2>1, <2>3 DEF Kill, At
  <2>4. ASSUME NEW w \in Worker, NEW t \in Task, SignsIn(w, t) \/ RequestFails(w, t)
        PROVE  login' = login
    BY <2>1, <2>4 DEF SignsIn, RequestFails, At
  <2>5. ASSUME NEW w \in Worker, NEW t \in Task,
               \/ BeginSend(w, t) \/ Enters(w, t) \/ Retired(w, t) \/ RetireFails(w, t)
               \/ Connects(w, t) \/ Checks(w, t)
        PROVE  login' = login
    BY <2>5 DEF BeginSend, Enters, Retired, RetireFails, Connects, Checks
  <2>6. ASSUME NEW w \in Worker, NEW t \in Task,
               Unmarks(w, t) \/ SendEnds(w, t) \/ Resumes(w, t) \/ Cancel(w, t)
        PROVE  login' = login
    BY <2>6 DEF Unmarks, SendEnds, Resumes, Cancel
  <2>7. Revoke => login' # "bot"
    BY DEF Revoke
  <2> QED BY <2>2, <2>3, <2>4, <2>5, <2>6, <2>7 DEF Next
<1> QED BY <1>1, Invariant, PTL DEF Spec, RevocationIsNotMasked
=============================================================================
