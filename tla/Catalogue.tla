----------------------------- MODULE Catalogue ------------------------------
(***************************************************************************)
(* The operations on profiles, administrators, access, remote servers and  *)
(* the timezone (BackupService, AdminService, RemoteServerService,         *)
(* SettingsService) and the queueing of runs (RunService._enqueue), as     *)
(* concurrent database transactions.                                       *)
(*                                                                         *)
(* An operation is a sequence of statements: it reads, validates, takes    *)
(* row locks (SELECT .. FOR UPDATE, or an UPDATE that changes nothing) and *)
(* commits; its writes are visible, and its locks released, at the commit. *)
(* Isolation is READ COMMITTED: a statement sees what is committed when it *)
(* runs.  A session keeps the columns of a row it has loaded, and a later  *)
(* SELECT of the same row does not refresh them unless the code asks.      *)
(*                                                                         *)
(* Names, texts and secrets are data: a configuration is a version, with   *)
(* the kind of its source.  One remote server is modelled.  RunLifecycle   *)
(* has the runs: here a profile has no active run when one is queued.      *)
(***************************************************************************)
EXTENDS Naturals, Sequences, FiniteSets, SequencesExt

CONSTANTS
    Profile,       \* identifiers of profiles
    Admin,         \* identifiers of administrators
    Session,       \* concurrent handlers, one database session each
    Kinds,         \* kinds of source, see SourceKinds
    Nothing,       \* no session, no operation, no run
    MaxOperations  \* bound: operations begun

\* The statements that are not the lock of a profile's row.
LockNames  == {"settings", "server"}
Reads      == {"active", "columns", "reload", "source", "serverRow", "access"}
Sweeps     == {"schedules", "affected"}
Checks     == {"adminsExist", "serverEnabled", "serverThere", "rootFree", "profilesExist",
               "admin", "runnable"}
Names      == LockNames \union Reads \union Sweeps \union Checks

\* Only a GitLab source has a backup root no other profile may have; only a
\* remote one names a server.
SourceKinds == {"local", "remote", "gitlab"}

ASSUME CatalogueAssumption ==
    /\ Kinds \subseteq SourceKinds
    /\ IsFiniteSet(Profile) /\ Profile # {} /\ Profile \intersect Names = {}
    /\ Nothing \notin Profile \union Admin \union Session
    /\ MaxOperations \in Nat

VARIABLES
    columns, \* committed rows of backup_profiles
    source,  \* committed source rows of each profile
    access,  \* rows of admin_backup_access: pairs of an administrator and a profile
    admins,  \* state of each administrator
    server,  \* committed row of the remote server
    locked,  \* who holds the lock of a row
    session, \* the operation of each session, what it has still to do and what it has read
    queued,  \* history: the last run queued, with what was committed at that moment
    begun    \* operations begun, at most MaxOperations; also numbers the configurations

vars == <<columns, source, access, admins, server, locked, session, queued, begun>>
data == <<columns, source, access, admins, server, queued>>

Locks == Profile \union LockNames

NoSource  == [kind |-> "none", version |-> 0]
Live(p)   == columns[p].status = "live"
HasRoot   == {p \in Profile : Live(p) /\ source[p].kind = "gitlab"}
AdminsOf(p) == {a \in Admin : <<a, p>> \in access}

Idle == [op |-> Nothing, todo |-> <<>>, columns |-> Nothing, source |-> NoSource,
         server |-> Nothing, admins |-> {}]

CatalogueTypeOK ==
    /\ \A p \in Profile :
          /\ columns[p].status \in {"none", "live", "archived"}
          /\ columns[p].enabled \in BOOLEAN
          /\ columns[p].version \in Nat
          /\ Live(p) => source[p].kind \in SourceKinds /\ source[p].version = columns[p].version
    /\ access \subseteq Admin \X Profile
    /\ \A a \in Admin : admins[a] \in {"none", "enabled", "disabled", "deleted"}
    /\ server.status \in {"enabled", "disabled", "deleted"} /\ server.version \in Nat
    /\ \A l \in Locks : locked[l] \in Session \union {Nothing}
    /\ \A s \in Session : session[s] = Idle => \A l \in Locks : locked[l] # s
    /\ begun \in 0 .. MaxOperations

\* One profile is configured, and the administrators there are may receive it; the others
\* have none, or do not exist yet; no two share a root.
First == CHOOSE p \in Profile : TRUE

Init ==
    /\ \E kind \in Kinds, others \in SUBSET (Profile \ {First}) :
          /\ columns = [p \in Profile |->
                [status |-> IF p \in others \union {First} THEN "live" ELSE "none",
                 enabled |-> p \in others \union {First}, version |-> 0]]
          /\ source = [p \in Profile |->
                CASE p = First -> [kind |-> kind, version |-> 0]
                  [] p \in others ->
                        [kind |-> IF kind = "gitlab" THEN "remote" ELSE "gitlab", version |-> 0]
                  [] OTHER -> NoSource]
    /\ \E hired \in SUBSET Admin :
          /\ admins = [a \in Admin |-> IF a \in hired THEN "enabled" ELSE "none"]
          /\ access = hired \X {First}
    /\ server = [status |-> "enabled", version |-> 0]
    /\ locked = [l \in Locks |-> Nothing]
    /\ session = [s \in Session |-> Idle]
    /\ queued = Nothing
    /\ begun = 0

(***************************************************************************)
(* Operations and the statements they execute before their commit          *)
(***************************************************************************)

\* A configuration as the dialogue gives it: kind of source and administrators.
Operations ==
    [op : {"create", "update"}, profile : Profile, kind : Kinds, admins : SUBSET Admin,
     enabled : BOOLEAN]
    \union [op : {"edit"}, profile : Profile, enabled : BOOLEAN]
    \union [op : {"delete", "manual", "retry", "scheduled"}, profile : Profile]
    \union [op : {"assign_admins"}, profile : Profile, admins : SUBSET Admin]
    \union [op : {"assign", "create_admin"}, admin : Admin, profiles : SUBSET Profile]
    \union [op : {"set_enabled"}, admin : Admin, enabled : BOOLEAN]
    \union [op : {"delete_admin"}, admin : Admin]
    \union [op : {"enable_server"}, enabled : BOOLEAN]
    \union [op : {"update_server", "delete_server", "set_timezone"}]

ASSUME NothingIsNoOperation == Nothing \notin Operations

\* The checks that the source of a new configuration passes, and the rows its
\* insertion locks: a source row that refers to a server row keeps that row.
SourceChecks(o) ==
    (IF o.kind = "remote" THEN <<"serverEnabled">> ELSE <<>>)
    \o (IF o.kind = "gitlab" THEN <<"rootFree">> ELSE <<>>)

SourceLocks(o) == IF o.kind = "remote" THEN <<"server">> ELSE <<>>

\* Creation validates before it takes its only lock.
CreateStatements(o) ==
    SourceChecks(o) \o <<"adminsExist", "settings">> \o SourceLocks(o)

\* A reconfiguration validates under the locks of the settings and of the profile.
UpdateValidatesFirst(o) ==
    <<"active">> \o SourceChecks(o) \o <<"settings", o.profile, "source", "adminsExist">>
    \o SourceLocks(o)
UpdateSettingsLast(o) ==
    <<"active", o.profile, "settings", "source", "adminsExist">>
    \o SourceChecks(o) \o SourceLocks(o)
UpdateStatements(o) ==
    <<"settings", "active", o.profile, "source", "adminsExist">>
    \o SourceChecks(o) \o SourceLocks(o)

\* _enqueue reads the profile with its lock, then the source, then the server;
\* a retry has loaded the columns of the profile before, with the run's details;
\* a tick holds the settings and every profile with a schedule.
QueueSourceFirst(o) ==
    (CASE o.op = "manual"    -> <<"columns", "source", o.profile>>
       [] o.op = "retry"     -> <<"columns", o.profile, "source">>
       [] o.op = "scheduled" -> <<"settings", "schedules", "columns", "source">>)
    \o <<"runnable", "access">>
QueueStatements(o) ==
    (CASE o.op = "manual"    -> <<o.profile, "columns">>
       [] o.op = "retry"     -> <<"columns", o.profile>>
       [] o.op = "scheduled" -> <<"settings", "schedules", "columns">>)
    \o <<"source", "runnable", "access">>

Statements(o) ==
    CASE o.op = "create" -> CreateStatements(o)
      [] o.op = "update" -> UpdateStatements(o)
      [] o.op = "edit"   -> <<"settings", "active", o.profile, "reload">>
      [] o.op = "delete" -> <<"active", "source", o.profile>>
      [] o.op = "assign_admins" -> <<"active", o.profile, "adminsExist">>
      [] o.op = "assign" -> <<"admin", "profilesExist", "affected">>
      [] o.op = "create_admin" -> <<"profilesExist">>
      [] o.op \in {"set_enabled", "delete_admin"} -> <<"admin">>
      [] o.op \in {"update_server", "enable_server", "delete_server"} ->
            <<"server", "serverThere">>
      [] o.op = "set_timezone" -> <<"settings", "schedules">>
      [] OTHER -> QueueStatements(o)

Queues(s) == session[s].op.op \in {"manual", "retry", "scheduled"}

(***************************************************************************)
(* Statements                                                              *)
(***************************************************************************)
At(s, statement) == session[s].todo # <<>> /\ Head(session[s].todo) = statement

\* The session goes on with what it has read now, to `then` and its other statements.
GoesOn(s, read, then) ==
    session' = [session EXCEPT ![s] = [read EXCEPT !.todo = then \o Tail(@)]]

\* Commit, rollback or error: the locks are released.
Ends(s) ==
    /\ session' = [session EXCEPT ![s] = Idle]
    /\ locked' = [l \in Locks |-> IF locked[l] = s THEN Nothing ELSE locked[l]]

RefusesWithoutRollback(s) ==
    session' = [session EXCEPT ![s] = Idle] /\ UNCHANGED <<data, locked, begun>>
Refuses(s) == Ends(s) /\ UNCHANGED <<data, begun>>

Begin(s) ==
    /\ session[s] = Idle
    /\ begun < MaxOperations
    /\ \E o \in Operations :
          /\ o.op = "create" =>
                /\ o.enabled /\ columns[o.profile].status = "none"
                /\ \A t \in Session : session[t] # Idle /\ session[t].op.op = "create" =>
                      session[t].op.profile # o.profile
          /\ o.op \notin {"create", "assign", "create_admin", "set_enabled", "delete_admin",
                          "update_server", "enable_server", "delete_server", "set_timezone"} =>
                Live(o.profile)
          /\ o.op = "create_admin" => admins[o.admin] = "none"
          /\ o.op \in {"assign", "set_enabled", "delete_admin"} => admins[o.admin] # "none"
          /\ o.op \in {"create", "update", "assign_admins"} =>
                \A a \in o.admins : admins[a] # "none"
          /\ session' = [session EXCEPT ![s] = [Idle EXCEPT !.op = o, !.todo = Statements(o)]]
    /\ begun' = begun + 1
    /\ UNCHANGED <<data, locked>>

Lock(s) ==
    /\ \E l \in Locks :
          /\ At(s, l)
          /\ locked[l] \in {Nothing, s}
          /\ locked' = [locked EXCEPT ![l] = s]
    /\ GoesOn(s, session[s], <<>>)
    /\ UNCHANGED <<data, begun>>

\* session.get and the first SELECT of the profile: _active, details, _enqueue.
ReadsColumns(s) ==
    LET p == session[s].op.profile
    IN  /\ At(s, "active") \/ At(s, "columns")
        /\ IF At(s, "active") /\ ~ Live(p)
           THEN Refuses(s)
           ELSE /\ GoesOn(s, [session[s] EXCEPT !.columns = columns[p]], <<>>)
                /\ UNCHANGED <<data, locked, begun>>

\* session.refresh(profile), which BackupService.edit alone does.
ReloadsColumns(s) ==
    /\ At(s, "reload")
    /\ GoesOn(s, [session[s] EXCEPT !.columns = columns[session[s].op.profile]], <<>>)
    /\ UNCHANGED <<data, locked, begun>>

\* The source rows; a run that is queued also locks and reads the server they name.
ReadsSource(s) ==
    /\ At(s, "source")
    /\ LET rows == source[session[s].op.profile]
       IN  GoesOn(s, [session[s] EXCEPT !.source = rows],
                  IF Queues(s) /\ rows.kind = "remote" THEN <<"server", "serverRow">> ELSE <<>>)
    /\ UNCHANGED <<data, locked, begun>>

ReadsServer(s) ==
    /\ At(s, "serverRow")
    /\ GoesOn(s, [session[s] EXCEPT !.server = server], <<>>)
    /\ UNCHANGED <<data, locked, begun>>

ReadsAccess(s) ==
    /\ At(s, "access")
    /\ GoesOn(s, [session[s] EXCEPT !.admins = AdminsOf(session[s].op.profile)], <<>>)
    /\ UNCHANGED <<data, locked, begun>>

\* One statement that locks several profiles takes them in the order in which
\* the database meets them.  A tick that does not find its profile among those
\* with a schedule has nothing to queue.
LocksSeveral(s) ==
    /\ At(s, "schedules") \/ At(s, "affected")
    /\ LET o == session[s].op
           rows == IF At(s, "schedules")
                   THEN {p \in Profile : Live(p) /\ columns[p].enabled}
                   ELSE {p \in Profile : <<o.admin, p>> \in access} \union o.profiles
       IN  IF o.op = "scheduled" /\ o.profile \notin rows
           THEN Refuses(s)
           ELSE /\ \E order \in SetToSeqs(rows) : GoesOn(s, session[s], order)
                /\ UNCHANGED <<data, locked, begun>>

Holds(s, check) ==
    LET o == session[s].op
    IN  CASE check = "adminsExist"   -> \A a \in o.admins : admins[a] = "enabled"
          [] check = "serverEnabled" -> server.status = "enabled"
          [] check = "serverThere"   -> server.status # "deleted"
          [] check = "rootFree"      -> HasRoot \ {o.profile} = {}
          [] check = "profilesExist" -> \A p \in o.profiles : Live(p)
          [] check = "admin"          ->
                /\ admins[o.admin] \in {"enabled", "disabled"}
                /\ o.op = "assign" /\ o.profiles # {} => admins[o.admin] = "enabled"
          [] check = "runnable"       ->
                session[s].columns.status = "live" /\ session[s].columns.enabled

Validates(s) ==
    \E check \in Checks :
       /\ At(s, check)
       /\ IF Holds(s, check)
          THEN GoesOn(s, session[s], <<>>) /\ UNCHANGED <<data, locked, begun>>
          ELSE Refuses(s)

\* The database ends a wait that can never end: one of the operations that wait
\* for each other fails, and leaves nothing behind.
Blocker(s) ==
    IF session[s].todo # <<>> /\ Head(session[s].todo) \in Locks
    THEN locked[Head(session[s].todo)] ELSE Nothing

Deadlocked(S) == S # {} /\ \A s \in S : Blocker(s) \in S \ {s}

Aborts(s) ==
    /\ \E S \in SUBSET Session : s \in S /\ Deadlocked(S)
    /\ Refuses(s)

(***************************************************************************)
(* Commits                                                                 *)
(***************************************************************************)
Commits(s, ops) ==
    session[s] # Idle /\ session[s].todo = <<>> /\ session[s].op.op \in ops /\ Ends(s)

\* A column that is set to the value the session has loaded is not written.
Written(loaded, value, committed) == IF value = loaded THEN committed ELSE value

Assigned(p, chosen) ==
    {pair \in access : pair[2] # p} \union {<<a, p>> : a \in chosen}

CommitCreate(s) ==
    LET o == session[s].op
    IN  /\ Commits(s, {"create"})
        /\ columns' = [columns EXCEPT ![o.profile] =
              [status |-> "live", enabled |-> TRUE, version |-> 0]]
        /\ source' = [source EXCEPT ![o.profile] = [kind |-> o.kind, version |-> 0]]
        /\ access' = Assigned(o.profile, o.admins)
        /\ UNCHANGED <<admins, server, queued, begun>>

\* The columns and the source rows are replaced and the access with them;
\* archived_at is left as it is, whatever was read before the lock.
CommitUpdate(s) ==
    LET o == session[s].op
        version == columns[o.profile].version + 1
    IN  /\ Commits(s, {"update"})
        /\ columns' = [columns EXCEPT ![o.profile].version = version,
              ![o.profile].enabled = Written(session[s].columns.enabled, o.enabled, @)]
        /\ source' = [source EXCEPT ![o.profile] = [kind |-> o.kind, version |-> version]]
        /\ access' = Assigned(o.profile, o.admins)
        /\ UNCHANGED <<admins, server, queued, begun>>

CommitEdit(s) ==
    LET o == session[s].op
    IN  /\ Commits(s, {"edit"})
        /\ columns' = [columns EXCEPT ![o.profile].enabled =
              Written(session[s].columns.enabled, o.enabled, @)]
        /\ UNCHANGED <<source, access, admins, server, queued, begun>>

\* Only a GitLab source is deleted, by the identity it had when it was read.
CommitDelete(s) ==
    LET p == session[s].op.profile
    IN  /\ Commits(s, {"delete"})
        /\ columns' = [columns EXCEPT ![p].status = "archived",
              ![p].enabled = Written(session[s].columns.enabled, FALSE, @)]
        /\ source' = IF source[p].kind = "gitlab" /\ source[p] = session[s].source
                     THEN [source EXCEPT ![p] = NoSource] ELSE source
        /\ access' = Assigned(p, {})
        /\ UNCHANGED <<admins, server, queued, begun>>

CommitAssignAdmins(s) ==
    /\ Commits(s, {"assign_admins"})
    /\ access' = Assigned(session[s].op.profile, session[s].op.admins)
    /\ UNCHANGED <<columns, source, admins, server, queued, begun>>

CommitAssign(s) ==
    LET o == session[s].op
    IN  /\ Commits(s, {"assign"})
        /\ access' = {pair \in access : pair[1] # o.admin} \union ({o.admin} \X o.profiles)
        /\ UNCHANGED <<columns, source, admins, server, queued, begun>>

CommitCreateAdmin(s) ==
    LET o == session[s].op
    IN  /\ Commits(s, {"create_admin"})
        /\ admins' = [admins EXCEPT ![o.admin] = "enabled"]
        /\ access' = access \union ({o.admin} \X o.profiles)
        /\ UNCHANGED <<columns, source, server, queued, begun>>

CommitAdmin(s) ==
    LET o == session[s].op
    IN  /\ Commits(s, {"set_enabled", "delete_admin"})
        /\ IF o.op = "delete_admin"
           THEN /\ admins' = [admins EXCEPT ![o.admin] = "deleted"]
                /\ access' = {pair \in access : pair[1] # o.admin}
           ELSE /\ admins' = [admins EXCEPT ![o.admin] =
                      IF @ = "deleted" THEN @ ELSE IF o.enabled THEN "enabled" ELSE "disabled"]
                /\ UNCHANGED access
        /\ UNCHANGED <<columns, source, server, queued, begun>>

\* update replaces the connection details.
CommitServer(s) ==
    /\ Commits(s, {"update_server"})
    /\ server' = [server EXCEPT !.version = @ + 1]
    /\ UNCHANGED <<columns, source, access, admins, queued, begun>>

\* set_enabled makes the server unusable or usable again, delete the former for good.
CommitServerStatus(s) ==
    LET o == session[s].op
    IN  /\ Commits(s, {"enable_server", "delete_server"})
        /\ server' = [server EXCEPT !.status =
              IF o.op = "delete_server" THEN "deleted"
              ELSE IF o.enabled THEN "enabled" ELSE "disabled"]
        /\ UNCHANGED <<columns, source, access, admins, queued, begun>>

\* What a snapshot holds, as the session has read it and as it is committed.
Snapshot(read) == [columns |-> read.columns, source |-> read.source, server |-> read.server]
Committed(p) ==
    [columns |-> columns[p], source |-> source[p],
     server |-> IF source[p].kind = "remote" THEN server ELSE Nothing]

\* The profiles' next instants, which Scheduler has, are computed anew.
CommitTimezone(s) ==
    Commits(s, {"set_timezone"}) /\ UNCHANGED <<data, begun>>

CommitQueue(s) ==
    /\ Commits(s, {"manual", "retry", "scheduled"})
    /\ queued' = [op |-> session[s].op.op, snapshot |-> Snapshot(session[s]),
                  committed |-> Committed(session[s].op.profile),
                  admins |-> session[s].admins, entitled |-> AdminsOf(session[s].op.profile)]
    /\ UNCHANGED <<columns, source, access, admins, server, begun>>

Step(s) ==
    \/ Lock(s)
    \/ ReadsColumns(s) \/ ReloadsColumns(s) \/ ReadsSource(s) \/ ReadsServer(s) \/ ReadsAccess(s)
    \/ LocksSeveral(s)
    \/ Validates(s)
    \/ Aborts(s)
    \/ CommitCreate(s) \/ CommitUpdate(s) \/ CommitEdit(s) \/ CommitDelete(s)
    \/ CommitAssignAdmins(s) \/ CommitAssign(s) \/ CommitCreateAdmin(s) \/ CommitAdmin(s)
    \/ CommitServer(s) \/ CommitServerStatus(s) \/ CommitTimezone(s)
    \/ CommitQueue(s)

Next == \E s \in Session : Begin(s) \/ Step(s)

\* A handler that has begun goes on: each awaits its database statements to the
\* end, and a lock is given to one who waits for it.
Spec == Init /\ [][Next]_vars /\ \A s \in Session : WF_vars(Step(s))

(***************************************************************************)
(* Properties                                                              *)
(***************************************************************************)

\* What a run is queued with was the configuration of an enabled profile at the
\* moment it was queued: the profile's columns, its source and the server it names,
\* as one.  Only a retry may have read the columns too early.
QueuedIsCurrent ==
    queued # Nothing =>
        /\ queued.op # "retry" =>
              /\ queued.snapshot = queued.committed
              /\ queued.committed.columns.status = "live" /\ queued.committed.columns.enabled
        /\ queued.snapshot.source = queued.committed.source
        /\ queued.snapshot.server = queued.committed.server

\* Two profiles come to share a GitLab root only when both were validated before
\* either was stored: a reconfiguration never joins a root that is taken.
RootJoinedAtCreation ==
    [][Cardinality(HasRoot') > Cardinality(HasRoot) /\ HasRoot # {} =>
          \E s \in Session : /\ session[s] # Idle /\ session[s].op.op = "create"
                             /\ session'[s] = Idle]_vars

\* Operations wait for each other in a circle only where an assignment locks several
\* profiles with one statement while another statement does, of a tick, of a change of the
\* timezone or of a second assignment.
DeadlockNeedsTwoSweeps ==
    \A S \in SUBSET Session : Deadlocked(S) =>
        \E s, t \in S : /\ s # t
                        /\ session[s].op.op = "assign"
                        /\ session[t].op.op \in {"assign", "scheduled", "set_timezone"}

\* The sessions hold only locks that exist, and wait in a circle only in that case.
CatalogueInv == CatalogueTypeOK /\ DeadlockNeedsTwoSweeps

\* Every operation ends: none waits for a lock for ever.
OperationsEnd == \A s \in Session : session[s] # Idle ~> session[s] = Idle
=============================================================================
