-------------------------- MODULE Catalogue_proofs --------------------------
(***************************************************************************)
(* Proofs about Catalogue, for any profiles, administrators, sessions and  *)
(* numbers of operations: the locks are taken in one order, except by the  *)
(* statements that lock several profiles; what a session has read under a  *)
(* lock stays true until it commits; hence a run is queued with one        *)
(* configuration, and a reconfiguration joins no root that is taken.       *)
(***************************************************************************)
EXTENDS Catalogue, FiniteSetTheorems, SequenceTheorems, TLAPS

OpNames == {"create", "update", "edit", "delete", "manual", "retry", "scheduled",
            "assign_admins", "assign", "create_admin", "set_enabled", "delete_admin",
            "enable_server", "update_server", "delete_server", "set_timezone"}

\* Operations that lock the settings, their own profile, the server.
WithSettings == {"create", "update", "edit", "scheduled", "set_timezone"}
Queueing     == {"manual", "retry", "scheduled"}
WithProfile  == {"update", "edit", "delete", "assign_admins"} \union Queueing
WithServer   == {"update_server", "enable_server", "delete_server"}
Scheduling   == {"scheduled", "set_timezone"}
Sweeping     == {"assign"} \union Scheduling

\* What only an operation on one profile that exists reads.
OwnReads == Reads \ {"serverRow"}

Statement == Profile \union Names

Columns   == [status : {"none", "live", "archived"}, enabled : BOOLEAN, version : Nat]
SourceRow == [kind : SourceKinds \union {"none"}, version : Nat]
ServerRow == [status : {"enabled", "disabled", "deleted"}, version : Nat]

\* What a session knows: the operation, the statements left, the copies it has read.
Copies == [op : Operations \union {Nothing}, todo : Seq(Statement),
           columns : Columns \union {Nothing}, source : SourceRow,
           server : ServerRow \union {Nothing}, admins : SUBSET Admin]

Types ==
    /\ columns \in [Profile -> Columns]
    /\ source \in [Profile -> SourceRow]
    /\ access \subseteq Admin \X Profile
    /\ admins \in [Admin -> {"none", "enabled", "disabled", "deleted"}]
    /\ server \in ServerRow
    /\ locked \in [Locks -> Session \union {Nothing}]
    /\ session \in [Session -> Copies]
    /\ begun \in 0 .. MaxOperations
    /\ \A p \in Profile :
          Live(p) => source[p].kind \in SourceKinds /\ source[p].version = columns[p].version

\* The order in which an operation executes the statements that matter here; 0 for the
\* others.
Rank(o, x) ==
    CASE x = "settings"                                     -> 1
      [] x \in Sweeps                                       -> 2
      [] x \in Profile                                      -> 3
      [] x = "columns" /\ o.op \in {"manual", "scheduled"}  -> 4
      [] x = "source" /\ o.op \in Queueing                  -> 5
      [] x = "server"                                       -> 6
      [] x = "serverRow"                                    -> 7
      [] x = "runnable" \/ (x = "rootFree" /\ o.op = "update") -> 8
      [] OTHER                                              -> 0

Unranked == {"active", "reload", "access", "adminsExist", "serverEnabled", "serverThere",
             "profilesExist", "admin"}

\* One statement may precede another: among those that have a rank, only locks of
\* profiles are taken one after another.
Before(o, x, y) ==
    Rank(o, x) # 0 /\ Rank(o, y) # 0 =>
        Rank(o, x) < Rank(o, y) \/ (x \in Profile /\ y \in Profile)

Ordered(o, todo) == \A i, j \in DOMAIN todo : i < j => Before(o, todo[i], todo[j])

Left(s)    == Range(session[s].todo)
Held(s)    == {l \in Locks : locked[l] = s}
Working(s) == session[s] # Idle

\* The locks that an operation o holds, by the statements it has left.
LocksFit(o, left, held) ==
    /\ \A l \in held, x \in left : Before(o, l, x)
    /\ o.op \in WithSettings /\ "settings" \notin left => "settings" \in held
    /\ o.op \in WithServer /\ "server" \notin left => "server" \in held
    /\ o.op \in WithProfile /\ o.profile \notin left /\ "schedules" \notin left =>
          o.profile \in held
    /\ "schedules" \in left => o.op \in Scheduling
    /\ "affected" \in left => o.op = "assign"
    /\ o.op \notin Sweeping =>
          \A l \in Profile : l \in left \union held => o.op \in WithProfile /\ l = o.profile

\* What an operation that queues a run has read, by the statements it has left.
QueueFits(rec, left, held) ==
    LET o == rec.op
        free == o.profile \notin left /\ "schedules" \notin left
    IN  /\ o.op # "retry" /\ "columns" \notin left => free
        /\ "source" \notin left => free
        /\ {"server", "serverRow"} \intersect left # {} \/ rec.server # Nothing =>
              "source" \notin left /\ rec.source.kind = "remote"
        /\ "source" \notin left /\ rec.source.kind = "remote" =>
              /\ "server" \notin left => "server" \in held
              /\ "server" \in left => "serverRow" \in left
        /\ o.op # "retry" /\ "runnable" \notin left =>
              "columns" \notin left /\ rec.columns.status = "live" /\ rec.columns.enabled

\* The order of what is left, the locks held and the copies read fit the operation.
Fits(rec, held) ==
    LET o    == rec.op
        left == Range(rec.todo)
    IN  /\ o \in Operations
        /\ Ordered(o, rec.todo)
        /\ LocksFit(o, left, held)
        /\ o.op \in Queueing => QueueFits(rec, left, held)
        /\ o.op = "update" /\ o.kind = "gitlab" /\ "rootFree" \notin left =>
              "settings" \notin left
        /\ o.op \notin WithProfile => OwnReads \intersect left = {}

SessionFits(s) == Fits(session[s], Held(s))

\* What a session has read under a lock is what is committed.
ReadsHold(s) ==
    LET rec == session[s]
        o   == rec.op
    IN  /\ o.op \in Queueing =>
              /\ o.op # "retry" /\ "columns" \notin Left(s) => rec.columns = columns[o.profile]
              /\ "source" \notin Left(s) => rec.source = source[o.profile]
              /\ "source" \notin Left(s) /\ rec.source.kind = "remote"
                   /\ "serverRow" \notin Left(s) => rec.server = server
        /\ o.op = "update" /\ o.kind = "gitlab" /\ "rootFree" \notin Left(s) =>
              HasRoot \subseteq {o.profile}

\* A profile is created once, and the other operations find it created.
ProfilesThere(s) ==
    LET o == session[s].op
    IN  /\ o.op \in WithProfile => columns[o.profile].status # "none"
        /\ o.op = "create" =>
              /\ columns[o.profile].status = "none"
              /\ \A t \in Session \ {s} : Working(t) /\ session[t].op.op = "create" =>
                    session[t].op.profile # o.profile

IdleHoldsNothing == \A s \in Session : ~Working(s) => Held(s) = {}
SessionsFit == \A s \in Session : Working(s) => SessionFits(s) /\ ReadsHold(s) /\ ProfilesThere(s)

IInv == Types /\ IdleHoldsNothing /\ SessionsFit /\ QueuedIsCurrent

-----------------------------------------------------------------------------
(* Sequences of statements                                                 *)

LEMMA Apart ==
    /\ Profile \intersect Names = {} /\ Profile # {} /\ IsFiniteSet(Profile)
    /\ LockNames \subseteq Names /\ Sweeps \subseteq Names /\ Reads \subseteq Names
    /\ Checks \subseteq Names
BY CatalogueAssumption DEF Names

LEMMA Ranks ==
    ASSUME NEW o
    PROVE  /\ \A x : Rank(o, x) \in 0 .. 8
           /\ \A p \in Profile : Rank(o, p) = 3
           /\ Rank(o, "settings") = 1 /\ Rank(o, "server") = 6 /\ Rank(o, "serverRow") = 7
           /\ Rank(o, "schedules") = 2 /\ Rank(o, "affected") = 2 /\ Rank(o, "runnable") = 8
           /\ o.op \in {"manual", "scheduled"} => Rank(o, "columns") = 4
           /\ o.op \in Queueing => Rank(o, "source") = 5
           /\ o.op = "update" => Rank(o, "rootFree") = 8
           /\ o.op \notin {"manual", "scheduled"} => Rank(o, "columns") = 0
           /\ o.op \notin Queueing => Rank(o, "source") = 0
           /\ o.op # "update" => Rank(o, "rootFree") = 0
           /\ \A x \in Unranked : Rank(o, x) = 0
<1>1. \A p \in Profile : p \notin Names
  BY Apart
<1>2. \A x : Rank(o, x) \in 0 .. 8
  BY DEF Rank
<1>3. \A p \in Profile : Rank(o, p) = 3
  <2>1. "settings" \in Names /\ \A x \in Sweeps : x \in Names
    BY DEF Names, LockNames
  <2>2. ASSUME NEW p \in Profile PROVE Rank(o, p) = 3
    <3>1. p # "settings" /\ p \notin Sweeps
      BY <1>1, <2>1
    <3>2. Rank(o, p) = CASE p = "settings" -> 1 [] p \in Sweeps -> 2 [] p \in Profile -> 3
      BY <1>1, <3>1 DEF Rank, Names, LockNames, Reads, Checks
    <3> QED BY <3>1, <3>2
  <2> QED BY <2>2
<1>4. \A x \in Names : x \notin Profile
  BY <1>1
<1>5. /\ Rank(o, "settings") = 1 /\ Rank(o, "schedules") = 2 /\ Rank(o, "affected") = 2
  BY <1>4 DEF Rank, Sweeps, Names, LockNames, Reads, Checks
<1>6. Rank(o, "server") = 6 /\ Rank(o, "serverRow") = 7 /\ Rank(o, "runnable") = 8
  BY <1>4 DEF Rank, Sweeps, Names, LockNames, Reads, Checks
<1>7. /\ o.op \in {"manual", "scheduled"} => Rank(o, "columns") = 4
      /\ o.op \in Queueing => Rank(o, "source") = 5
      /\ o.op = "update" => Rank(o, "rootFree") = 8
  BY <1>4 DEF Rank, Sweeps, Names, LockNames, Reads, Checks
<1>8. /\ o.op \notin {"manual", "scheduled"} => Rank(o, "columns") = 0
      /\ o.op \notin Queueing => Rank(o, "source") = 0
      /\ o.op # "update" => Rank(o, "rootFree") = 0
  BY <1>4 DEF Rank, Sweeps, Names, LockNames, Reads, Checks
<1>9. \A x \in Unranked : Rank(o, x) = 0
  BY <1>4 DEF Rank, Sweeps, Names, LockNames, Reads, Checks, Unranked
<1> QED BY <1>2, <1>3, <1>5, <1>6, <1>7, <1>8, <1>9

LEMMA RankThree ==
    ASSUME NEW o, NEW x, Rank(o, x) = 3
    PROVE  x \in Profile
BY DEF Rank

\* The statements after the next one.
LEMMA RestOf ==
    ASSUME NEW o, NEW q \in Seq(Statement), q # <<>>, Ordered(o, q)
    PROVE  /\ Head(q) \in Statement /\ Tail(q) \in Seq(Statement)
           /\ Range(q) = {Head(q)} \union Range(Tail(q))
           /\ Ordered(o, Tail(q))
           /\ \A x \in Range(Tail(q)) : Before(o, Head(q), x)
<1>1. /\ Len(q) \in Nat \ {0} /\ DOMAIN q = 1 .. Len(q)
      /\ Head(q) = q[1]
  BY EmptySeq, LenProperties
<1>2. /\ Head(q) \in Statement /\ Tail(q) \in Seq(Statement) /\ Len(Tail(q)) = Len(q) - 1
      /\ \A i \in 1 .. Len(Tail(q)) : Tail(q)[i] = q[i + 1]
  BY HeadTailProperties
<1>3. DOMAIN Tail(q) = 1 .. (Len(q) - 1)
  BY <1>2, LenProperties
<1>4. \A i \in 1 .. (Len(q) - 1) : i + 1 \in 1 .. Len(q) /\ Tail(q)[i] = q[i + 1]
  BY <1>1, <1>2
<1>5. Range(q) = {Head(q)} \union Range(Tail(q))
  <2>1. ASSUME NEW i \in 1 .. Len(q) PROVE q[i] \in {Head(q)} \union Range(Tail(q))
    <3>1. CASE i = 1
      BY <1>1, <3>1
    <3>2. CASE i # 1
      <4>1. i - 1 \in 1 .. (Len(q) - 1) /\ (i - 1) + 1 = i
        BY <1>1, <3>2
      <4>2. Tail(q)[i - 1] = q[i]
        BY <1>4, <4>1
      <4> QED BY <1>3, <4>1, <4>2 DEF Range
    <3> QED BY <3>1, <3>2
  <2>2. Head(q) \in Range(q)
    BY <1>1 DEF Range
  <2>3. Range(Tail(q)) \subseteq Range(q)
    BY <1>1, <1>3, <1>4 DEF Range
  <2> QED BY <1>1, <2>1, <2>2, <2>3 DEF Range
<1>6. Ordered(o, Tail(q))
  BY <1>1, <1>3, <1>4 DEF Ordered
<1>7. \A x \in Range(Tail(q)) : Before(o, Head(q), x)
  BY <1>1, <1>3, <1>4 DEF Ordered, Range
<1> QED BY <1>2, <1>5, <1>6, <1>7

\* Statements put before others.
LEMMA Joined ==
    ASSUME NEW o, NEW a \in Seq(Statement), NEW b \in Seq(Statement),
           Ordered(o, a), Ordered(o, b), \A x \in Range(a), y \in Range(b) : Before(o, x, y)
    PROVE  /\ a \o b \in Seq(Statement) /\ Range(a \o b) = Range(a) \union Range(b)
           /\ Ordered(o, a \o b)
<1>1. /\ a \o b \in Seq(Statement) /\ Len(a \o b) = Len(a) + Len(b)
      /\ \A i \in 1 .. Len(a) + Len(b) :
            (a \o b)[i] = IF i <= Len(a) THEN a[i] ELSE b[i - Len(a)]
  BY ConcatProperties
<1>2. /\ Len(a) \in Nat /\ Len(b) \in Nat /\ DOMAIN a = 1 .. Len(a) /\ DOMAIN b = 1 .. Len(b)
      /\ DOMAIN (a \o b) = 1 .. Len(a) + Len(b)
  BY <1>1, LenProperties
<1>3. ASSUME NEW i \in DOMAIN (a \o b), NEW j \in DOMAIN (a \o b), i < j
      PROVE  Before(o, (a \o b)[i], (a \o b)[j])
  <2>1. CASE j <= Len(a)
    <3>1. i \in DOMAIN a /\ j \in DOMAIN a /\ (a \o b)[i] = a[i] /\ (a \o b)[j] = a[j]
      BY <1>1, <1>2, <1>3, <2>1
    <3> QED BY <1>3, <3>1 DEF Ordered
  <2>2. CASE i > Len(a)
    <3>1. /\ i - Len(a) \in DOMAIN b /\ j - Len(a) \in DOMAIN b /\ i - Len(a) < j - Len(a)
          /\ (a \o b)[i] = b[i - Len(a)] /\ (a \o b)[j] = b[j - Len(a)]
      BY <1>1, <1>2, <1>3, <2>2
    <3> QED BY <3>1 DEF Ordered
  <2>3. CASE i <= Len(a) /\ j > Len(a)
    <3>1. /\ i \in DOMAIN a /\ j - Len(a) \in DOMAIN b
          /\ (a \o b)[i] = a[i] /\ (a \o b)[j] = b[j - Len(a)]
      BY <1>1, <1>2, <1>3, <2>3
    <3> QED BY <3>1 DEF Range
  <2> QED BY <1>2, <2>1, <2>2, <2>3
<1>4. Range(a \o b) = Range(a) \union Range(b)
  BY RangeConcatenation
<1> QED BY <1>1, <1>3, <1>4 DEF Ordered

\* One statement.
LEMMA Single ==
    ASSUME NEW o, NEW x \in Statement
    PROVE  <<x>> \in Seq(Statement) /\ Range(<<x>>) = {x} /\ Ordered(o, <<x>>)
BY DEF Range, Ordered

LEMMA NoStatement ==
    ASSUME NEW o
    PROVE  <<>> \in Seq(Statement) /\ Range(<<>>) = {} /\ Ordered(o, <<>>)
BY DEF Range, Ordered

\* A sequence in which every statement is ordered.
LEMMA OrderedIf ==
    ASSUME NEW o, NEW q \in Seq(Statement), \A x, y \in Range(q) : Before(o, x, y)
    PROVE  Ordered(o, q)
BY DEF Ordered, Range

-----------------------------------------------------------------------------
(* The operations and their statements                                     *)

LEMMA OperationTypes ==
    ASSUME NEW o \in Operations
    PROVE  /\ o.op \in OpNames
           /\ o.op \in WithProfile \union {"create"} => o.profile \in Profile
           /\ o.op \in {"create", "update"} =>
                 o.kind \in SourceKinds /\ o.admins \in SUBSET Admin /\ o.enabled \in BOOLEAN
           /\ o.op = "edit" => o.enabled \in BOOLEAN
           /\ o.op = "assign_admins" => o.admins \in SUBSET Admin
           /\ o.op \in {"assign", "create_admin"} =>
                 o.admin \in Admin /\ o.profiles \in SUBSET Profile
           /\ o.op \in {"set_enabled", "delete_admin"} => o.admin \in Admin
<1>1. Kinds \subseteq SourceKinds
  BY CatalogueAssumption
<1>2. CASE o \in [op : {"create", "update"}, profile : Profile, kind : Kinds,
                  admins : SUBSET Admin, enabled : BOOLEAN]
  BY <1>1, <1>2 DEF OpNames, WithProfile, Queueing
<1>3. CASE o \in [op : {"edit"}, profile : Profile, enabled : BOOLEAN]
  BY <1>3 DEF OpNames, WithProfile, Queueing
<1>4. CASE o \in [op : {"delete", "manual", "retry", "scheduled"}, profile : Profile]
  BY <1>4 DEF OpNames, WithProfile, Queueing
<1>5. CASE o \in [op : {"assign_admins"}, profile : Profile, admins : SUBSET Admin]
  BY <1>5 DEF OpNames, WithProfile, Queueing
<1>6. CASE o \in [op : {"assign", "create_admin"}, admin : Admin, profiles : SUBSET Profile]
  BY <1>6 DEF OpNames, WithProfile, Queueing
<1>7. CASE \/ o \in [op : {"set_enabled"}, admin : Admin, enabled : BOOLEAN]
           \/ o \in [op : {"delete_admin"}, admin : Admin]
  BY <1>7 DEF OpNames, WithProfile, Queueing
<1>8. CASE \/ o \in [op : {"enable_server"}, enabled : BOOLEAN]
           \/ o \in [op : {"update_server", "delete_server", "set_timezone"}]
  BY <1>8 DEF OpNames, WithProfile, Queueing
<1> QED BY <1>2, <1>3, <1>4, <1>5, <1>6, <1>7, <1>8 DEF Operations

LEMMA Two ==
    ASSUME NEW o, NEW x \in Statement, NEW y \in Statement,
           Before(o, x, y)
    PROVE  <<x, y>> \in Seq(Statement) /\ Range(<<x, y>>) = {x, y} /\ Ordered(o, <<x, y>>)
BY DEF Range, Ordered

LEMMA Three ==
    ASSUME NEW o, NEW x \in Statement, NEW y \in Statement, NEW z \in Statement,
           Before(o, x, y), Before(o, x, z), Before(o, y, z)
    PROVE  /\ <<x, y, z>> \in Seq(Statement) /\ Range(<<x, y, z>>) = {x, y, z}
           /\ Ordered(o, <<x, y, z>>)
BY DEF Range, Ordered

LEMMA Four ==
    ASSUME NEW o, NEW x \in Statement, NEW y \in Statement, NEW z \in Statement,
           NEW v \in Statement,
           Before(o, x, y), Before(o, x, z), Before(o, x, v), Before(o, y, z),
           Before(o, y, v), Before(o, z, v)
    PROVE  /\ <<x, y, z, v>> \in Seq(Statement) /\ Range(<<x, y, z, v>>) = {x, y, z, v}
           /\ Ordered(o, <<x, y, z, v>>)
BY DEF Range, Ordered

LEMMA Five ==
    ASSUME NEW o, NEW x \in Statement, NEW y \in Statement, NEW z \in Statement,
           NEW v \in Statement, NEW w \in Statement,
           Before(o, x, y), Before(o, x, z), Before(o, x, v), Before(o, x, w),
           Before(o, y, z), Before(o, y, v), Before(o, y, w), Before(o, z, v),
           Before(o, z, w), Before(o, v, w)
    PROVE  /\ <<x, y, z, v, w>> \in Seq(Statement) /\ Range(<<x, y, z, v, w>>) = {x, y, z, v, w}
           /\ Ordered(o, <<x, y, z, v, w>>)
BY DEF Range, Ordered

\* The statements of an operation are in order, and it holds and has read nothing yet.
Ready(o, q) ==
    LET left == Range(q)
    IN  /\ q \in Seq(Statement) /\ Ordered(o, q)
        /\ LocksFit(o, left, {})
        /\ o.op \in Queueing =>
              /\ {"columns", "source", "runnable"} \subseteq left
              /\ {"server", "serverRow"} \intersect left = {}
        /\ o.op = "update" /\ o.kind = "gitlab" => "rootFree" \in left
        /\ o.op \notin WithProfile => OwnReads \intersect left = {}

\* The checks and locks for a new source.
LEMMA ForSource ==
    ASSUME NEW o \in Operations, o.op \in {"create", "update"}
    PROVE  /\ SourceChecks(o) \in Seq(Statement) /\ SourceLocks(o) \in Seq(Statement)
           /\ Range(SourceChecks(o)) \subseteq {"serverEnabled", "rootFree"}
           /\ Range(SourceLocks(o)) \subseteq {"server"}
           /\ o.kind = "gitlab" => /\ "rootFree" \in Range(SourceChecks(o))
                                   /\ Range(SourceLocks(o)) = {}
           /\ o.kind # "gitlab" => "rootFree" \notin Range(SourceChecks(o))
           /\ Ordered(o, SourceChecks(o)) /\ Ordered(o, SourceLocks(o))
<1>1. "serverEnabled" \in Statement /\ "rootFree" \in Statement /\ "server" \in Statement
  BY DEF Statement, Names, Checks, LockNames
<1>2. o.kind \in SourceKinds
  BY OperationTypes
<1>3. CASE o.kind = "gitlab"
  <2>1. SourceChecks(o) = <<"rootFree">> /\ SourceLocks(o) = <<>>
    BY <1>3 DEF SourceChecks, SourceLocks
  <2> QED BY SMTT(20), <1>1, <1>3, <2>1, Single, NoStatement
<1>4. CASE o.kind = "remote"
  <2>1. SourceChecks(o) = <<"serverEnabled">> /\ SourceLocks(o) = <<"server">>
    BY <1>4 DEF SourceChecks, SourceLocks
  <2> QED BY SMTT(20), <1>1, <1>4, <2>1, Single, NoStatement
<1>5. CASE o.kind \notin {"gitlab", "remote"}
  <2>1. SourceChecks(o) = <<>> /\ SourceLocks(o) = <<>>
    BY <1>5 DEF SourceChecks, SourceLocks
  <2> QED BY <1>1, <1>5, <2>1, Single, NoStatement
<1> QED BY <1>3, <1>4, <1>5

\* Every statement that the operations name is one.
LEMMA Named ==
    /\ \A x \in Names : x \in Statement
    /\ {"settings", "server", "active", "columns", "reload", "source", "serverRow", "access",
        "schedules", "affected", "adminsExist", "serverEnabled", "serverThere", "rootFree",
        "profilesExist", "admin", "runnable"} \subseteq Names
    /\ \A p \in Profile : p \in Statement /\ p \notin Names
<1>1. \A p \in Profile : p \notin Names
  BY Apart
<1> QED BY <1>1 DEF Statement, Names, Checks, LockNames, Reads, Sweeps

LEMMA CreateReady ==
    ASSUME NEW o \in Operations, o.op = "create"
    PROVE  Ready(o, Statements(o))
<1> DEFINE a == SourceChecks(o)
           b == <<"adminsExist", "settings">>
           c == SourceLocks(o)
           d == a \o b
<1>1. Statements(o) = d \o c
  BY DEF Statements, CreateStatements
<1>2. b \in Seq(Statement) /\ Range(b) = {"adminsExist", "settings"} /\ Ordered(o, b)
  <2>1. "adminsExist" \in Statement /\ "settings" \in Statement
    BY Named
  <2>2. Before(o, "adminsExist", "settings")
    BY Ranks DEF Before, Unranked
  <2> QED BY <2>1, <2>2, Two
<1>3. /\ a \in Seq(Statement) /\ c \in Seq(Statement) /\ Ordered(o, a) /\ Ordered(o, c)
      /\ Range(a) \subseteq {"serverEnabled", "rootFree"} /\ Range(c) \subseteq {"server"}
  BY ForSource
<1>4. /\ Rank(o, "serverEnabled") = 0 /\ Rank(o, "rootFree") = 0 /\ Rank(o, "adminsExist") = 0
      /\ Rank(o, "settings") = 1 /\ Rank(o, "server") = 6
  BY Ranks DEF Unranked
<1> HIDE DEF a, b, c
<1>5. \A x \in Range(a), y \in Range(b) : Before(o, x, y)
  BY <1>3, <1>4 DEF Before
<1>6. d \in Seq(Statement) /\ Range(d) = Range(a) \union Range(b) /\ Ordered(o, d)
  BY <1>2, <1>3, <1>5, Joined
<1> HIDE DEF d
<1>6a. \A x \in Range(d) : Rank(o, x) \in 0 .. 1
  BY <1>2, <1>3, <1>4, <1>6
<1>6b. \A x \in Range(c) : Rank(o, x) = 6
  BY <1>3, <1>4
<1>7. \A x \in Range(d), y \in Range(c) : Before(o, x, y)
  BY <1>6a, <1>6b DEF Before
<1>8. /\ d \o c \in Seq(Statement) /\ Ordered(o, d \o c)
      /\ Range(d \o c) = Range(a) \union Range(b) \union Range(c)
  BY <1>3, <1>6, <1>7, Joined
<1>9. LocksFit(o, Range(d \o c), {})
  <2>1. "settings" \in Range(d \o c)
    BY <1>2, <1>8
  <2>2. \A x \in Range(d \o c) : x \in Names /\ x \notin Sweeps
    BY <1>2, <1>3, <1>8, Named DEF Sweeps
  <2>3. \A x \in Range(d \o c) : x \notin Profile
    BY <2>2, Named
  <2> QED BY <2>1, <2>2, <2>3
          DEF LocksFit, WithServer, WithProfile, Queueing, Sweeping, Scheduling, Sweeps
<1>10. OwnReads \intersect Range(d \o c) = {}
  BY <1>2, <1>3, <1>8 DEF OwnReads, Reads
<1> QED BY <1>1, <1>8, <1>9, <1>10 DEF Ready, Queueing

LEMMA UpdateReady ==
    ASSUME NEW o \in Operations, o.op = "update"
    PROVE  Ready(o, Statements(o))
<1> DEFINE a == <<"settings", "active", o.profile, "source", "adminsExist">>
           b == SourceChecks(o)
           c == SourceLocks(o)
           d == a \o b
<1>1. Statements(o) = d \o c
  BY DEF Statements, UpdateStatements
<1>2. /\ Rank(o, "serverEnabled") = 0 /\ Rank(o, "rootFree") = 8 /\ Rank(o, "adminsExist") = 0
      /\ Rank(o, "settings") = 1 /\ Rank(o, "server") = 6 /\ Rank(o, "active") = 0
      /\ Rank(o, o.profile) = 3 /\ Rank(o, "source") = 0 /\ o.profile \in Profile
  BY Ranks, OperationTypes DEF Unranked, Queueing, WithProfile
<1>3. /\ a \in Seq(Statement) /\ Ordered(o, a)
      /\ Range(a) = {"settings", "active", o.profile, "source", "adminsExist"}
  <2>1. /\ "settings" \in Statement /\ "active" \in Statement /\ o.profile \in Statement
        /\ "source" \in Statement /\ "adminsExist" \in Statement
    BY <1>2, Named
  <2>2. /\ Before(o, "settings", "active") /\ Before(o, "settings", o.profile)
        /\ Before(o, "settings", "source") /\ Before(o, "settings", "adminsExist")
        /\ Before(o, "active", o.profile) /\ Before(o, "active", "source")
        /\ Before(o, "active", "adminsExist") /\ Before(o, o.profile, "source")
        /\ Before(o, o.profile, "adminsExist") /\ Before(o, "source", "adminsExist")
    BY <1>2 DEF Before
  <2> QED BY <2>1, <2>2, Five
<1>4. /\ b \in Seq(Statement) /\ c \in Seq(Statement) /\ Ordered(o, b) /\ Ordered(o, c)
      /\ Range(b) \subseteq {"serverEnabled", "rootFree"} /\ Range(c) \subseteq {"server"}
      /\ o.kind = "gitlab" => "rootFree" \in Range(b) /\ Range(c) = {}
      /\ o.kind # "gitlab" => "rootFree" \notin Range(b)
  BY ForSource
<1> HIDE DEF a, b, c
<1>5. \A x \in Range(a), y \in Range(b) : Before(o, x, y)
  BY <1>2, <1>3, <1>4 DEF Before
<1>6. d \in Seq(Statement) /\ Range(d) = Range(a) \union Range(b) /\ Ordered(o, d)
  BY <1>3, <1>4, <1>5, Joined
<1> HIDE DEF d
<1>6a. \A y \in Range(c) : Rank(o, y) = 6 /\ o.kind # "gitlab"
  BY <1>2, <1>4
<1>6b. o.kind # "gitlab" => \A x \in Range(d) : Rank(o, x) \in 0 .. 3
  BY <1>2, <1>3, <1>4, <1>6
<1>7. \A x \in Range(d), y \in Range(c) : Before(o, x, y)
  BY <1>6a, <1>6b DEF Before
<1>8. /\ d \o c \in Seq(Statement) /\ Ordered(o, d \o c)
      /\ Range(d \o c) = Range(a) \union Range(b) \union Range(c)
  BY <1>4, <1>6, <1>7, Joined
<1>9. LocksFit(o, Range(d \o c), {})
  <2>1. "settings" \in Range(d \o c) /\ o.profile \in Range(d \o c)
    BY <1>3, <1>8
  <2>2. \A x \in Range(d \o c) : x = o.profile \/ (x \in Names /\ x \notin Sweeps)
    BY <1>3, <1>4, <1>8, Named DEF Sweeps
  <2>3. \A x \in Range(d \o c) : x \in Profile => x = o.profile
    BY <2>2, Named
  <2>4. o.profile \notin Sweeps
    BY <1>2, Named DEF Sweeps
  <2> QED BY <2>1, <2>2, <2>3, <2>4 DEF LocksFit, WithServer, WithProfile, Sweeping, Sweeps
<1>10. o.kind = "gitlab" => "rootFree" \in Range(d \o c)
  BY <1>4, <1>8
<1> QED BY <1>1, <1>8, <1>9, <1>10 DEF Ready, Queueing, WithProfile

LEMMA ProfileReady ==
    ASSUME NEW o \in Operations, o.op \in {"edit", "delete", "assign_admins"}
    PROVE  Ready(o, Statements(o))
<1>1. /\ o.profile \in Profile /\ o.profile \in Statement /\ o.profile \notin Names
      /\ \A x \in {"settings", "active", "source", "reload", "adminsExist"} :
            x \in Statement /\ x \notin Profile /\ x \notin Sweeps
  BY OperationTypes, Named DEF WithProfile, Sweeps
<1>2. /\ Rank(o, "settings") = 1 /\ Rank(o, "active") = 0 /\ Rank(o, o.profile) = 3
      /\ Rank(o, "source") = 0 /\ Rank(o, "reload") = 0 /\ Rank(o, "adminsExist") = 0
  BY <1>1, Ranks DEF Unranked, Queueing
<1>3. o.profile \notin Sweeps
  BY <1>1, Named DEF Sweeps
<1>4. CASE o.op = "edit"
  <2>1. Statements(o) = <<"settings", "active", o.profile, "reload">>
    BY <1>4 DEF Statements
  <2>2. /\ Before(o, "settings", "active") /\ Before(o, "settings", o.profile)
        /\ Before(o, "settings", "reload") /\ Before(o, "active", o.profile)
        /\ Before(o, "active", "reload") /\ Before(o, o.profile, "reload")
    BY <1>2 DEF Before
  <2>3. /\ Statements(o) \in Seq(Statement) /\ Ordered(o, Statements(o))
        /\ Range(Statements(o)) = {"settings", "active", o.profile, "reload"}
    BY <1>1, <2>1, <2>2, Four
  <2>4. LocksFit(o, Range(Statements(o)), {})
    BY <1>1, <1>3, <1>4, <2>3 DEF LocksFit, WithServer, WithProfile, Sweeping, Sweeps
  <2> QED BY <1>4, <2>3, <2>4 DEF Ready, Queueing, WithProfile
<1>5. CASE o.op = "delete"
  <2>1. Statements(o) = <<"active", "source", o.profile>>
    BY <1>5 DEF Statements
  <2>2. /\ Before(o, "active", "source") /\ Before(o, "active", o.profile)
        /\ Before(o, "source", o.profile)
    BY <1>2 DEF Before
  <2>3. /\ Statements(o) \in Seq(Statement) /\ Ordered(o, Statements(o))
        /\ Range(Statements(o)) = {"active", "source", o.profile}
    BY <1>1, <2>1, <2>2, Three
  <2>4. LocksFit(o, Range(Statements(o)), {})
    BY <1>1, <1>3, <1>5, <2>3 DEF LocksFit, WithServer, WithProfile, WithSettings, Sweeping, Sweeps
  <2> QED BY <1>5, <2>3, <2>4 DEF Ready, Queueing, WithProfile
<1>6. CASE o.op = "assign_admins"
  <2>1. Statements(o) = <<"active", o.profile, "adminsExist">>
    BY <1>6 DEF Statements
  <2>2. /\ Before(o, "active", o.profile) /\ Before(o, "active", "adminsExist")
        /\ Before(o, o.profile, "adminsExist")
    BY <1>2 DEF Before
  <2>3. /\ Statements(o) \in Seq(Statement) /\ Ordered(o, Statements(o))
        /\ Range(Statements(o)) = {"active", o.profile, "adminsExist"}
    BY <1>1, <2>1, <2>2, Three
  <2>4. LocksFit(o, Range(Statements(o)), {})
    BY <1>1, <1>3, <1>6, <2>3 DEF LocksFit, WithServer, WithProfile, WithSettings, Sweeping, Sweeps
  <2> QED BY <1>6, <2>3, <2>4 DEF Ready, Queueing, WithProfile
<1> QED BY <1>4, <1>5, <1>6

LEMMA AdminReady ==
    ASSUME NEW o \in Operations,
           o.op \in {"assign", "create_admin", "set_enabled", "delete_admin"} \union WithServer
    PROVE  Ready(o, Statements(o))
<1>1. \A x \in {"admin", "profilesExist", "affected", "server", "serverThere"} :
         x \in Statement /\ x \notin Profile
  BY Named
<1>2. /\ Rank(o, "admin") = 0 /\ Rank(o, "profilesExist") = 0 /\ Rank(o, "affected") = 2
      /\ Rank(o, "server") = 6 /\ Rank(o, "serverThere") = 0
  BY Ranks DEF Unranked
<1>3. CASE o.op = "assign"
  <2>1. Statements(o) = <<"admin", "profilesExist", "affected">>
    BY <1>3 DEF Statements
  <2>2. /\ Before(o, "admin", "profilesExist") /\ Before(o, "admin", "affected")
        /\ Before(o, "profilesExist", "affected")
    BY <1>2 DEF Before
  <2>3. /\ Statements(o) \in Seq(Statement) /\ Ordered(o, Statements(o))
        /\ Range(Statements(o)) = {"admin", "profilesExist", "affected"}
    BY <1>1, <2>1, <2>2, Three
  <2>4. LocksFit(o, Range(Statements(o)), {})
    <3>1. "schedules" \notin Range(Statements(o))
      BY <2>3
    <3> QED BY <1>3, <3>1 DEF LocksFit, WithServer, WithProfile, WithSettings, Queueing, Sweeping,
          Scheduling
  <2>5. OwnReads \intersect Range(Statements(o)) = {}
    BY <2>3 DEF OwnReads, Reads
  <2> QED BY <1>3, <2>3, <2>4, <2>5 DEF Ready, Queueing
<1>4. CASE o.op \in {"create_admin", "set_enabled", "delete_admin"}
  <2>1. PICK x \in {"profilesExist", "admin"} : Statements(o) = <<x>>
    BY <1>4 DEF Statements
  <2>2. /\ Statements(o) \in Seq(Statement) /\ Range(Statements(o)) = {x}
        /\ Ordered(o, Statements(o))
    BY <1>1, <2>1, Single
  <2>3. x \notin Profile /\ x \notin Sweeps
    BY <1>1, <2>1 DEF Sweeps
  <2>4. LocksFit(o, Range(Statements(o)), {})
    BY <1>4, <2>2, <2>3 DEF LocksFit, WithServer, WithProfile, WithSettings, Queueing, Sweeping,
          Scheduling
  <2>5. OwnReads \intersect Range(Statements(o)) = {}
    BY <2>1, <2>2 DEF OwnReads, Reads
  <2> QED BY <1>4, <2>2, <2>4, <2>5 DEF Ready, Queueing
<1>5. CASE o.op \in WithServer
  <2>1. Statements(o) = <<"server", "serverThere">>
    BY <1>5 DEF Statements, WithServer
  <2>2. Before(o, "server", "serverThere")
    BY <1>2 DEF Before
  <2>3. /\ Statements(o) \in Seq(Statement) /\ Ordered(o, Statements(o))
        /\ Range(Statements(o)) = {"server", "serverThere"}
    BY <1>1, <2>1, <2>2, Two
  <2>4. LocksFit(o, Range(Statements(o)), {})
    BY <1>1, <1>5, <2>3
       DEF LocksFit, WithServer, WithProfile, WithSettings, Queueing, Sweeping, Scheduling,
           Sweeps
  <2>5. OwnReads \intersect Range(Statements(o)) = {}
    BY <2>3 DEF OwnReads, Reads
  <2> QED BY <1>5, <2>3, <2>4, <2>5 DEF Ready, Queueing, WithServer
<1> QED BY <1>3, <1>4, <1>5

LEMMA TimezoneReady ==
    ASSUME NEW o \in Operations, o.op = "set_timezone"
    PROVE  Ready(o, Statements(o))
<1>1. Statements(o) = <<"settings", "schedules">>
  BY DEF Statements
<1>2. /\ "settings" \in Statement /\ "schedules" \in Statement
      /\ "settings" \notin Profile /\ "schedules" \notin Profile
  BY Named
<1>3. Before(o, "settings", "schedules")
  BY Ranks DEF Before
<1>4. /\ Statements(o) \in Seq(Statement) /\ Ordered(o, Statements(o))
      /\ Range(Statements(o)) = {"settings", "schedules"}
  BY <1>1, <1>2, <1>3, Two
<1>5. LocksFit(o, Range(Statements(o)), {})
  BY <1>2, <1>4
     DEF LocksFit, WithServer, WithProfile, WithSettings, Queueing, Sweeping, Scheduling
<1>6. OwnReads \intersect Range(Statements(o)) = {}
  BY <1>4 DEF OwnReads, Reads
<1> QED BY <1>4, <1>5, <1>6 DEF Ready, Queueing

LEMMA QueueReady ==
    ASSUME NEW o \in Operations, o.op \in Queueing
    PROVE  Ready(o, Statements(o))
<1> DEFINE b == <<"source", "runnable", "access">>
<1>1. /\ o.profile \in Profile /\ o.profile \in Statement /\ o.profile \notin Names
      /\ \A x \in {"settings", "schedules", "columns", "source", "runnable", "access"} :
            x \in Statement /\ x \notin Profile
  BY OperationTypes, Named DEF WithProfile
<1>2. /\ Rank(o, "settings") = 1 /\ Rank(o, "schedules") = 2 /\ Rank(o, o.profile) = 3
      /\ Rank(o, "columns") \in {0, 4} /\ Rank(o, "source") = 5 /\ Rank(o, "runnable") = 8
      /\ Rank(o, "access") = 0
      /\ o.op = "retry" => Rank(o, "columns") = 0
  BY <1>1, Ranks DEF Unranked
<1>3. o.profile \notin Sweeps
  BY <1>1, Named DEF Sweeps
<1>4. /\ b \in Seq(Statement) /\ Range(b) = {"source", "runnable", "access"}
      /\ Ordered(o, b)
  <2>1. /\ Before(o, "source", "runnable") /\ Before(o, "source", "access")
        /\ Before(o, "runnable", "access")
    BY <1>2 DEF Before
  <2> QED BY <1>1, <2>1, Three
<1> DEFINE a == CASE o.op = "manual"    -> <<o.profile, "columns">>
                  [] o.op = "retry"     -> <<"columns", o.profile>>
                  [] o.op = "scheduled" -> <<"settings", "schedules", "columns">>
<1>5. Statements(o) = a \o b
  BY DEF Statements, QueueStatements, Queueing
<1>6. /\ a \in Seq(Statement) /\ Ordered(o, a)
      /\ o.op = "scheduled" => Range(a) = {"settings", "schedules", "columns"}
      /\ o.op # "scheduled" => Range(a) = {o.profile, "columns"}
  <2>1. CASE o.op = "manual"
    <3>1. a = <<o.profile, "columns">> /\ Before(o, o.profile, "columns")
      BY <1>2, <2>1 DEF Before
    <3> QED BY <1>1, <2>1, <3>1, Two
  <2>2. CASE o.op = "retry"
    <3>1. a = <<"columns", o.profile>> /\ Before(o, "columns", o.profile)
      BY <1>2, <2>2 DEF Before
    <3> QED BY <1>1, <2>2, <3>1, Two
  <2>3. CASE o.op = "scheduled"
    <3>1. /\ a = <<"settings", "schedules", "columns">>
          /\ Before(o, "settings", "schedules") /\ Before(o, "settings", "columns")
          /\ Before(o, "schedules", "columns")
      BY <1>2, <2>3 DEF Before
    <3> QED BY <1>1, <2>3, <3>1, Three
  <2> QED BY <2>1, <2>2, <2>3 DEF Queueing
<1> HIDE DEF a, b
<1>7. \A x \in Range(a), y \in Range(b) : Before(o, x, y)
  <2>1. \A x \in Range(a) : Rank(o, x) <= 4 /\ Rank(o, x) \in Nat
    BY <1>2, <1>6
  <2>2. \A y \in Range(b) : Rank(o, y) = 0 \/ Rank(o, y) >= 5
    BY <1>2, <1>4
  <2>3. \A y \in Range(b) : Rank(o, y) \in Nat
    BY <1>2, <1>4
  <2> QED BY <2>1, <2>2, <2>3 DEF Before
<1> DEFINE q == a \o b
<1>8. q \in Seq(Statement) /\ Ordered(o, q) /\ Range(q) = Range(a) \union Range(b)
  BY <1>4, <1>6, <1>7, Joined
<1> HIDE DEF q
<1>9. LocksFit(o, Range(q), {})
  <2>1. /\ o.op = "scheduled" => "settings" \in Range(q) /\ "schedules" \in Range(q)
        /\ o.op # "scheduled" => o.profile \in Range(q)
        /\ o.op # "scheduled" =>
              Range(q) = {o.profile, "columns", "source", "runnable", "access"}
    BY <1>4, <1>6, <1>8
  <2>2. o.op # "scheduled" => Range(q) \intersect Sweeps = {}
    BY <1>3, <2>1 DEF Sweeps
  <2>3. o.op # "scheduled" => \A l \in Profile : l \in Range(q) => l = o.profile
    BY <1>1, <2>1
  <2>4. "affected" \notin Range(q)
    BY <1>1, <1>4, <1>6, <1>8, Named
  <2> QED BY <2>1, <2>2, <2>3, <2>4
          DEF LocksFit, WithServer, WithProfile, WithSettings, Queueing, Sweeping, Scheduling,
              Sweeps
<1>10. /\ {"columns", "source", "runnable"} \subseteq Range(q)
       /\ {"server", "serverRow"} \intersect Range(q) = {}
  BY <1>1, <1>4, <1>6, <1>8, Named
<1> QED BY <1>5, <1>8, <1>9, <1>10 DEF Ready, Queueing, WithProfile, q

LEMMA StatementsReady ==
    ASSUME NEW o \in Operations
    PROVE  Ready(o, Statements(o))
<1>1. o.op \in OpNames
  BY OperationTypes
<1> QED BY <1>1, CreateReady, UpdateReady, ProfileReady, AdminReady, TimezoneReady,
           QueueReady
        DEF OpNames, WithServer, Queueing

-----------------------------------------------------------------------------
(* One statement of a session                                              *)

\* The session that has begun an operation.
LEMMA FreshFits ==
    ASSUME NEW o \in Operations, NEW rec,
           rec = [Idle EXCEPT !.op = o, !.todo = Statements(o)]
    PROVE  rec \in Copies /\ Fits(rec, {}) /\ rec.op = o /\ rec.todo = Statements(o)
<1>1. Ready(o, Statements(o))
  BY StatementsReady
<1>2. /\ rec = [op |-> o, todo |-> Statements(o), columns |-> Nothing, source |-> NoSource,
                server |-> Nothing, admins |-> {}]
  BY DEF Idle
<1>3. NoSource \in SourceRow
  BY DEF NoSource, SourceRow
<1>4. rec \in Copies
  <2>1. Statements(o) \in Seq(Statement)
    BY <1>1 DEF Ready
  <2> QED BY <1>2, <1>3, <2>1 DEF Copies
<1>5. /\ rec.op = o /\ rec.todo = Statements(o) /\ rec.server = Nothing
      /\ rec.source.kind = "none"
  <2>1. rec.op = o /\ rec.todo = Statements(o)
    BY <1>2
  <2>2. rec.server = Nothing
    BY DEF Idle
  <2>3. rec.source = NoSource
    BY DEF Idle
  <2> QED BY <2>1, <2>2, <2>3 DEF NoSource
<1>6. ASSUME o.op \in Queueing
      PROVE  QueueFits(rec, Range(rec.todo), {})
  <2>1. /\ "columns" \in Range(rec.todo) /\ "source" \in Range(rec.todo)
        /\ "runnable" \in Range(rec.todo) /\ "serverRow" \notin Range(rec.todo)
    BY <1>1, <1>5, <1>6 DEF Ready
  <2>2. "server" \notin Range(rec.todo)
    BY <1>1, <1>5, <1>6 DEF Ready
  <2> QED BY <1>5, <2>1, <2>2 DEF QueueFits
<1> QED BY <1>1, <1>4, <1>5, <1>6 DEF Fits, Ready

\* The record of a session that goes on from `read`, with the statements of `then` before
\* the others; what it has read leaves the operation and its statements alone.
Continues(next, read, then) == next = [read EXCEPT !.todo = then \o Tail(read.todo)]
SameTask(rec, read) == read.op = rec.op /\ read.todo = rec.todo

\* What changes when a session goes on, with what it has read now.
LEMMA Going ==
    ASSUME NEW rec \in Copies, NEW read \in Copies, NEW then \in Seq(Statement), NEW next,
           rec.todo # <<>>, Ordered(rec.op, rec.todo),
           SameTask(rec, read), Continues(next, read, then)
    PROVE  /\ next \in Copies /\ next.op = rec.op
           /\ next.columns = read.columns /\ next.source = read.source
           /\ next.server = read.server
           /\ next.todo = then \o Tail(rec.todo)
           /\ Range(next.todo) = Range(then) \union Range(Tail(rec.todo))
           /\ Range(rec.todo) = {Head(rec.todo)} \union Range(Tail(rec.todo))
           /\ Ordered(rec.op, Tail(rec.todo)) /\ Tail(rec.todo) \in Seq(Statement)
           /\ \A x \in Range(Tail(rec.todo)) : Before(rec.op, Head(rec.todo), x)
<1>1. rec.todo \in Seq(Statement)
  BY DEF Copies
<1>2. /\ Head(rec.todo) \in Statement /\ Tail(rec.todo) \in Seq(Statement)
      /\ Range(rec.todo) = {Head(rec.todo)} \union Range(Tail(rec.todo))
      /\ Ordered(rec.op, Tail(rec.todo))
      /\ \A x \in Range(Tail(rec.todo)) : Before(rec.op, Head(rec.todo), x)
  BY <1>1, RestOf
<1>3. /\ then \o Tail(rec.todo) \in Seq(Statement)
      /\ Range(then \o Tail(rec.todo)) = Range(then) \union Range(Tail(rec.todo))
  <2> DEFINE rest == Tail(rec.todo)
  <2>1. rest \in Seq(Statement)
    BY <1>2
  <2> HIDE DEF rest
  <2>2. then \o rest \in Seq(Statement)
    BY <2>1, ConcatProperties
  <2>3. Range(then \o rest) = Range(then) \union Range(rest)
    BY <2>1, RangeConcatenation
  <2> QED BY <2>2, <2>3 DEF rest
<1>4. /\ next \in Copies /\ next.op = read.op /\ next.columns = read.columns
      /\ next.source = read.source /\ next.server = read.server
      /\ next.todo = then \o Tail(read.todo)
  BY <1>3 DEF Copies, Continues, SameTask
<1> QED BY <1>2, <1>3, <1>4 DEF SameTask

\* With no new statements.
LEMMA GoingStraight ==
    ASSUME NEW rec \in Copies, NEW read \in Copies, NEW next,
           rec.todo # <<>>, Ordered(rec.op, rec.todo),
           SameTask(rec, read), Continues(next, read, <<>>)
    PROVE  /\ next \in Copies /\ next.op = rec.op
           /\ next.columns = read.columns /\ next.source = read.source
           /\ next.server = read.server
           /\ Range(rec.todo) = {Head(rec.todo)} \union Range(next.todo)
           /\ Ordered(rec.op, next.todo)
           /\ \A x \in Range(next.todo) : Before(rec.op, Head(rec.todo), x)
<1>1. rec.todo \in Seq(Statement)
  BY DEF Copies
<1>2. /\ Head(rec.todo) \in Statement /\ Tail(rec.todo) \in Seq(Statement)
      /\ Range(rec.todo) = {Head(rec.todo)} \union Range(Tail(rec.todo))
      /\ Ordered(rec.op, Tail(rec.todo))
      /\ \A x \in Range(Tail(rec.todo)) : Before(rec.op, Head(rec.todo), x)
  BY <1>1, RestOf
<1>3. <<>> \o Tail(rec.todo) = Tail(rec.todo)
  BY <1>2, ConcatEmptySeq
<1>4. /\ next \in Copies /\ next.op = read.op /\ next.columns = read.columns
      /\ next.source = read.source /\ next.server = read.server
      /\ next.todo = Tail(read.todo)
  BY <1>2, <1>3 DEF Copies, Continues, SameTask
<1> QED BY <1>2, <1>4 DEF SameTask

\* The locks after a statement h that leaves `rest`.
LEMMA LocksAfterLock ==
    ASSUME NEW o, NEW rest, NEW held, NEW l \in Locks,
           LocksFit(o, {l} \union rest, held), \A x \in rest : Before(o, l, x)
    PROVE  LocksFit(o, rest, held \union {l})
<1>1. l # "schedules" /\ l # "affected"
  BY Named DEF Locks, LockNames
<1> QED BY <1>1 DEF LocksFit

LEMMA LocksAfterOther ==
    ASSUME NEW o, NEW rest, NEW held, NEW h, h \notin Locks, h \notin Sweeps,
           LocksFit(o, {h} \union rest, held), o.op \in WithProfile => o.profile \in Profile
    PROVE  LocksFit(o, rest, held)
<1>1. h # "settings" /\ h # "server" /\ h \notin Profile /\ h # "schedules"
  BY DEF Locks, LockNames, Sweeps
<1> QED BY <1>1 DEF LocksFit

\* h locks the profiles in rows at once, before the statements in rest.
SweepsFirst(o, h, rows, rest, held) ==
    /\ o \in Operations /\ held \subseteq Locks /\ rows \subseteq Profile /\ h \in Sweeps
    /\ LocksFit(o, {h} \union rest, held) /\ \A x \in rest : Before(o, h, x)
    /\ o.op = "scheduled" => o.profile \in rows

LEMMA LocksAfterSweep ==
    ASSUME NEW o, NEW h, NEW rows, NEW rest, NEW held, SweepsFirst(o, h, rows, rest, held)
    PROVE  /\ LocksFit(o, rows \union rest, held)
           /\ \A x \in rows, y \in rest : Before(o, x, y)
           /\ \A x, y \in rows : Before(o, x, y)
<1>0. /\ o \in Operations /\ held \subseteq Locks /\ rows \subseteq Profile /\ h \in Sweeps
      /\ LocksFit(o, {h} \union rest, held) /\ \A x \in rest : Before(o, h, x)
      /\ o.op = "scheduled" => o.profile \in rows
  BY DEF SweepsFirst
<1>1. /\ Rank(o, h) = 2 /\ Rank(o, "settings") = 1 /\ \A p \in Profile : Rank(o, p) = 3
      /\ Rank(o, "server") = 6 /\ \A x : Rank(o, x) \in Nat
      /\ \A x : Rank(o, x) = 3 => x \in Profile
  BY <1>0, Ranks, RankThree DEF Sweeps
<1>2. h \notin Profile /\ \A p \in Profile : p # "settings" /\ p # "server" /\ p \notin Sweeps
  BY <1>0, Named DEF Sweeps
<1>3. \A y \in rest : Rank(o, y) = 0 \/ Rank(o, y) > 2
  BY <1>0, <1>1, <1>2 DEF Before
<1>4. \A x \in rows, y \in rest : Before(o, x, y)
  BY <1>0, <1>1, <1>3 DEF Before
<1>5. \A x, y \in rows : Before(o, x, y)
  BY <1>0 DEF Before
<1>6. \A l \in held : l = "settings"
  <2>1. ASSUME NEW l \in held PROVE Before(o, l, h)
    BY <1>0 DEF LocksFit
  <2> QED BY <1>0, <1>1, <1>2, <2>1 DEF Before, Locks, LockNames
<1>7. \A l \in held, x \in rows \union rest : Before(o, l, x)
  <2>1. \A l \in held, x \in rest : Before(o, l, x)
    BY <1>0 DEF LocksFit
  <2>2. \A x \in rows : Before(o, "settings", x)
    BY <1>0, <1>1 DEF Before
  <2> QED BY <1>0, <1>6, <2>1, <2>2
<1>8. o.op \in Sweeping
  BY <1>0 DEF LocksFit, Sweeps, Sweeping, Scheduling
<1>9. h \notin {"settings", "server"}
  BY <1>0 DEF Sweeps
<1>10. /\ o.op \in WithSettings /\ "settings" \notin rows \union rest => "settings" \in held
       /\ o.op \in WithServer /\ "server" \notin rows \union rest => "server" \in held
  BY <1>0, <1>9 DEF LocksFit
<1>11. o.op \in WithProfile /\ o.profile \notin rows \union rest
          /\ "schedules" \notin rows \union rest => o.profile \in held
  <2>1. o.op \in WithProfile => o.profile \in Profile
    BY <1>0, OperationTypes
  <2> QED BY <1>0, <1>2, <2>1 DEF LocksFit, Sweeps, Scheduling, WithProfile, Queueing
<1>12. /\ "schedules" \in rows \union rest => o.op \in Scheduling
       /\ "affected" \in rows \union rest => o.op = "assign"
  BY <1>0, <1>2 DEF LocksFit, Sweeps
<1> QED BY <1>0, <1>4, <1>5, <1>7, <1>8, <1>10, <1>11, <1>12 DEF LocksFit

\* A session after each kind of statement.
LEMMA FitsAfterLock ==
    ASSUME NEW rec \in Copies, NEW held, NEW next, rec.todo # <<>>, Fits(rec, held),
           Head(rec.todo) \in Locks, Continues(next, rec, <<>>)
    PROVE  /\ next \in Copies /\ next.op = rec.op /\ next.columns = rec.columns
           /\ next.source = rec.source /\ next.server = rec.server
           /\ Fits(next, held \union {Head(rec.todo)})
           /\ \A x : x \notin Locks => (x \in Range(next.todo) <=> x \in Range(rec.todo))
<1> DEFINE o == rec.op
           l == Head(rec.todo)
           left == Range(rec.todo)
           rest == Range(next.todo)
<1>1. Ordered(o, rec.todo) /\ LocksFit(o, left, held) /\ o \in Operations
  BY DEF Fits
<1>0. SameTask(rec, rec)
  BY DEF SameTask
<1>2. /\ next \in Copies /\ next.op = rec.op /\ next.columns = rec.columns
      /\ next.source = rec.source /\ next.server = rec.server
      /\ left = {l} \union rest /\ Ordered(o, next.todo)
      /\ \A x \in rest : Before(o, l, x)
  BY <1>0, <1>1, GoingStraight
<1>3. LocksFit(o, rest, held \union {l})
  BY <1>1, <1>2, LocksAfterLock
<1>4. \A x : x \notin Locks => (x \in rest <=> x \in left)
  BY <1>2
<1>5. \A x \in Reads \union Sweeps \union Checks : x \notin Locks
  BY Named DEF Reads, Sweeps, Checks, Locks, LockNames, Names
<1>6. ASSUME o.op \in Queueing
      PROVE  QueueFits(next, rest, held \union {l})
  <2>1. QueueFits(rec, left, held)
    BY <1>6 DEF Fits
  <2>2. /\ "columns" \in rest <=> "columns" \in left
        /\ "source" \in rest <=> "source" \in left
        /\ "serverRow" \in rest <=> "serverRow" \in left
        /\ "runnable" \in rest <=> "runnable" \in left
        /\ "schedules" \in rest <=> "schedules" \in left
    BY <1>4, <1>5 DEF Reads, Sweeps, Checks
  <2> HIDE DEF left, rest, l, o
  <2>3. /\ "server" \in rest => "server" \in left
        /\ "server" \in left => "server" \in rest \union {l}
        /\ o.profile \in rest => o.profile \in left
    BY <1>2
  <2> QED BY <1>2, <2>1, <2>2, <2>3 DEF QueueFits, o
<1>7. o.op = "update" /\ o.kind = "gitlab" /\ "rootFree" \notin rest => "settings" \notin rest
  <2>1. "rootFree" \in rest <=> "rootFree" \in left
    BY <1>4, <1>5 DEF Checks
  <2> QED BY <1>2, <2>1 DEF Fits
<1>8. o.op \notin WithProfile => OwnReads \intersect rest = {}
  BY <1>2 DEF Fits
<1> HIDE DEF left, rest, l, o
<1> QED BY <1>1, <1>2, <1>3, <1>4, <1>6, <1>7, <1>8 DEF Fits, o, l, rest, left

LEMMA FitsAfterCheck ==
    ASSUME NEW rec \in Copies, NEW held, NEW next, rec.todo # <<>>, Fits(rec, held),
           Head(rec.todo) \in Checks, Continues(next, rec, <<>>),
           Head(rec.todo) = "runnable" => rec.columns.status = "live" /\ rec.columns.enabled
    PROVE  /\ next \in Copies /\ next.op = rec.op /\ next.columns = rec.columns
           /\ next.source = rec.source /\ next.server = rec.server
           /\ Fits(next, held)
           /\ \A x : x # Head(rec.todo) => (x \in Range(next.todo) <=> x \in Range(rec.todo))
<1> DEFINE o == rec.op
           h == Head(rec.todo)
           left == Range(rec.todo)
           rest == Range(next.todo)
<1>1. Ordered(o, rec.todo) /\ LocksFit(o, left, held) /\ o \in Operations
  BY DEF Fits
<1>0. SameTask(rec, rec)
  BY DEF SameTask
<1>2. /\ next \in Copies /\ next.op = rec.op /\ next.columns = rec.columns
      /\ next.source = rec.source /\ next.server = rec.server
      /\ left = {h} \union rest /\ Ordered(o, next.todo)
      /\ \A x \in rest : Before(o, h, x)
  BY <1>0, <1>1, GoingStraight
<1>3. /\ h \notin Locks /\ h \notin Sweeps /\ h \notin Reads /\ h \notin Profile
      /\ o.op \in WithProfile => o.profile \in Profile
  BY <1>1, Named, OperationTypes DEF Checks, Locks, LockNames, Sweeps, Reads
<1>4. LocksFit(o, rest, held)
  BY <1>1, <1>2, <1>3, LocksAfterOther
<1>5. \A x : x # h => (x \in rest <=> x \in left)
  BY <1>2
<1>6. ASSUME o.op \in Queueing
      PROVE  QueueFits(next, rest, held)
  <2>1. QueueFits(rec, left, held)
    BY <1>6 DEF Fits
  <2>2. /\ "columns" \in rest <=> "columns" \in left
        /\ "source" \in rest <=> "source" \in left
        /\ "serverRow" \in rest <=> "serverRow" \in left
        /\ "schedules" \in rest <=> "schedules" \in left
        /\ "server" \in rest <=> "server" \in left
    BY <1>3, <1>5 DEF Reads, Sweeps, Locks, LockNames
  <2>3. o.profile \in rest <=> o.profile \in left
    BY <1>3, <1>5, <1>6 DEF WithProfile
  <2>4. ASSUME o.op # "retry", h = "runnable"
        PROVE  "columns" \notin rest
    <3>1. Rank(o, "columns") = 4 /\ Rank(o, "runnable") = 8
      BY <1>6, <2>4, Ranks DEF Queueing
    <3>2. "columns" \notin Profile
      BY Named
    <3> QED BY <1>2, <2>4, <3>1, <3>2 DEF Before
  <2>5. o.op # "retry" /\ "runnable" \notin rest =>
           "columns" \notin rest /\ rec.columns.status = "live" /\ rec.columns.enabled
    <3>1. CASE h = "runnable"
      BY <2>4, <3>1
    <3>2. CASE h # "runnable"
      BY <1>5, <2>1, <2>2, <3>2 DEF QueueFits
    <3> QED BY <3>1, <3>2
  <2> HIDE DEF left, rest, h, o
  <2> QED BY <1>2, <2>1, <2>2, <2>3, <2>5 DEF QueueFits, o
<1>7. o.op = "update" /\ o.kind = "gitlab" /\ "rootFree" \notin rest => "settings" \notin rest
  <2>1. CASE h = "rootFree"
    <3>1. o.op = "update" => Rank(o, "rootFree") = 8 /\ Rank(o, "settings") = 1
      BY Ranks
    <3>2. "settings" \notin Profile
      BY Named
    <3> QED BY <1>2, <2>1, <3>1, <3>2 DEF Before
  <2>2. CASE h # "rootFree"
    BY <1>2, <1>5, <2>2 DEF Fits
  <2> QED BY <2>1, <2>2
<1>8. o.op \notin WithProfile => OwnReads \intersect rest = {}
  BY <1>2 DEF Fits
<1> HIDE DEF left, rest, h, o
<1> QED BY <1>1, <1>2, <1>4, <1>5, <1>6, <1>7, <1>8 DEF Fits, o, h, rest, left

\* Reads of anything but the source rows; h is the next statement, read the new copies.
LEMMA FitsAfterRead ==
    ASSUME NEW rec \in Copies, NEW read \in Copies, NEW held, NEW next,
           rec.todo # <<>>, Fits(rec, held), Head(rec.todo) \in Reads \ {"source"},
           SameTask(rec, read), read.source = rec.source,
           Head(rec.todo) # "serverRow" => read.server = rec.server,
           "runnable" \notin Range(rec.todo) /\ rec.op.op \in Queueing /\ rec.op.op # "retry" =>
              read.columns.status = "live" /\ read.columns.enabled,
           Continues(next, read, <<>>)
    PROVE  /\ next \in Copies /\ next.op = rec.op /\ next.columns = read.columns
           /\ next.source = read.source /\ next.server = read.server
           /\ Fits(next, held)
           /\ \A x : x # Head(rec.todo) => (x \in Range(next.todo) <=> x \in Range(rec.todo))
<1> DEFINE o == rec.op
           h == Head(rec.todo)
           left == Range(rec.todo)
           rest == Range(next.todo)
<1>1. Ordered(o, rec.todo) /\ LocksFit(o, left, held) /\ o \in Operations
  BY DEF Fits
<1>2. /\ next \in Copies /\ next.op = rec.op /\ next.columns = read.columns
      /\ next.source = read.source /\ next.server = read.server
      /\ left = {h} \union rest /\ Ordered(o, next.todo)
      /\ \A x \in rest : Before(o, h, x)
  <2>1. Ordered(rec.op, rec.todo) /\ rec.todo # <<>> /\ SameTask(rec, read)
    BY <1>1
  <2>2. /\ next \in Copies /\ next.op = rec.op
        /\ next.columns = read.columns /\ next.source = read.source
        /\ next.server = read.server
        /\ Range(rec.todo) = {Head(rec.todo)} \union Range(next.todo)
        /\ Ordered(rec.op, next.todo)
        /\ \A x \in Range(next.todo) : Before(rec.op, Head(rec.todo), x)
    BY Zenon, <2>1, GoingStraight
  <2> QED BY <2>2
<1>3. /\ h \notin Locks /\ h \notin Sweeps /\ h \notin Checks /\ h \notin Profile
      /\ o.op \in WithProfile => o.profile \in Profile
  BY <1>1, Named, OperationTypes DEF Checks, Locks, LockNames, Sweeps, Reads
<1>4. LocksFit(o, rest, held)
  BY <1>1, <1>2, <1>3, LocksAfterOther
<1>5. \A x : x # h => (x \in rest <=> x \in left)
  BY <1>2
<1>6. ASSUME o.op \in Queueing
      PROVE  QueueFits(next, rest, held)
  <2>1. QueueFits(rec, left, held)
    BY <1>6 DEF Fits
  <2>2. /\ "runnable" \in rest <=> "runnable" \in left
        /\ "source" \in rest <=> "source" \in left
        /\ "schedules" \in rest <=> "schedules" \in left
        /\ "server" \in rest <=> "server" \in left
        /\ h # "columns" => ("columns" \in rest <=> "columns" \in left)
        /\ h # "serverRow" => ("serverRow" \in rest <=> "serverRow" \in left)
        /\ "columns" \in rest => "columns" \in left
        /\ "serverRow" \in rest => "serverRow" \in left
    BY <1>3, <1>5, <1>2 DEF Checks, Sweeps, Locks, LockNames
  <2>3. o.profile \in rest <=> o.profile \in left
    BY <1>3, <1>5, <1>6 DEF WithProfile
  <2>4. ASSUME o.op # "retry", h = "columns"
        PROVE  o.profile \notin left /\ "schedules" \notin left
    <3>1. /\ Rank(o, "columns") = 4 /\ Rank(o, "schedules") = 2 /\ o.profile \in Profile
          /\ Rank(o, o.profile) = 3
      BY <1>3, <1>6, <2>4, Ranks DEF Queueing, WithProfile
    <3>2. "columns" \notin Profile
      BY Named
    <3> QED BY <1>2, <1>3, <2>4, <3>1, <3>2 DEF Before
  <2>5. ASSUME h = "serverRow"
        PROVE  /\ "serverRow" \in left
               /\ "server" \notin left
    <3>1. Rank(o, "serverRow") = 7 /\ Rank(o, "server") = 6
      BY Ranks
    <3>2. "server" \notin Profile
      BY Named
    <3> QED BY <1>2, <2>5, <3>1, <3>2 DEF Before
  <2>6. o.op # "retry" /\ "runnable" \notin rest =>
           "columns" \notin rest /\ next.columns.status = "live" /\ next.columns.enabled
    BY <1>2, <1>6, <2>1, <2>2 DEF QueueFits
  <2>7. /\ o.op # "retry" /\ "columns" \notin rest =>
              o.profile \notin rest /\ "schedules" \notin rest
        /\ "source" \notin rest => o.profile \notin rest /\ "schedules" \notin rest
    BY <2>1, <2>2, <2>3, <2>4 DEF QueueFits
  <2>8. {"server", "serverRow"} \intersect rest # {} \/ next.server # Nothing =>
           "source" \notin rest /\ next.source.kind = "remote"
    BY <1>2, <2>1, <2>2, <2>5 DEF QueueFits
  <2>9. "source" \notin rest /\ next.source.kind = "remote" =>
           /\ "server" \notin rest => "server" \in held
           /\ "server" \in rest => "serverRow" \in rest
    BY <1>2, <2>1, <2>2, <2>5 DEF QueueFits
  <2> HIDE DEF left, rest, h, o
  <2> QED BY <1>2, <2>6, <2>7, <2>8, <2>9 DEF QueueFits, o
<1>7. o.op = "update" /\ o.kind = "gitlab" /\ "rootFree" \notin rest => "settings" \notin rest
  <2>1. "rootFree" \in rest <=> "rootFree" \in left
    BY <1>3, <1>5 DEF Checks
  <2> QED BY <1>2, <2>1 DEF Fits
<1>8. o.op \notin WithProfile => OwnReads \intersect rest = {}
  BY <1>2 DEF Fits
<1> HIDE DEF left, rest, h, o
<1> QED BY <1>1, <1>2, <1>4, <1>5, <1>6, <1>7, <1>8 DEF Fits, o, h, rest, left

\* A run that is queued goes on to the server that the source rows name.
LEMMA FitsAfterSource ==
    ASSUME NEW rec \in Copies, NEW read \in Copies, NEW held, NEW next,
           rec.todo # <<>>, Fits(rec, held), Head(rec.todo) = "source",
           SameTask(rec, read), read.columns = rec.columns,
           read.server = rec.server,
           Continues(next, read,
              IF rec.op.op \in Queueing /\ read.source.kind = "remote"
              THEN <<"server", "serverRow">> ELSE <<>>)
    PROVE  /\ next \in Copies /\ next.op = rec.op /\ next.columns = rec.columns
           /\ next.source = read.source /\ next.server = rec.server
           /\ Fits(next, held)
           /\ \A x \in {"columns", "rootFree", "runnable"} :
                 x \in Range(next.todo) <=> x \in Range(rec.todo)
           /\ rec.op.op \in Queueing /\ read.source.kind = "remote" =>
                 "serverRow" \in Range(next.todo)
<1> DEFINE o == rec.op
           left == Range(rec.todo)
           rest == Range(next.todo)
           tail == Range(Tail(rec.todo))
           remote == o.op \in Queueing /\ read.source.kind = "remote"
           then == IF remote THEN <<"server", "serverRow">> ELSE <<>>
<1>1. Ordered(o, rec.todo) /\ LocksFit(o, left, held) /\ o \in Operations
  BY DEF Fits
<1>2. /\ then \in Seq(Statement) /\ Ordered(o, then)
      /\ remote => Range(then) = {"server", "serverRow"}
      /\ ~remote => Range(then) = {}
  <2>1. CASE remote
    <3>1. "server" \in Statement /\ "serverRow" \in Statement
      BY Named
    <3>2. Before(o, "server", "serverRow")
      BY Ranks DEF Before
    <3> QED BY <2>1, <3>1, <3>2, Two
  <2>2. CASE ~remote
    BY <2>2, NoStatement
  <2> QED BY <2>1, <2>2
<1>3. Continues(next, read, then)
  OBVIOUS
<1> HIDE DEF then
<1>4. /\ next \in Copies /\ next.op = rec.op
      /\ next.columns = read.columns /\ next.source = read.source
      /\ next.server = read.server
      /\ next.todo = then \o Tail(rec.todo)
      /\ rest = Range(then) \union tail
      /\ left = {"source"} \union tail
      /\ Ordered(o, Tail(rec.todo)) /\ Tail(rec.todo) \in Seq(Statement)
      /\ \A x \in tail : Before(o, "source", x)
  <2>1. Ordered(rec.op, rec.todo) /\ then \in Seq(Statement) /\ Continues(next, read, then)
    BY <1>1, <1>2, <1>3
  <2>2. /\ next \in Copies /\ next.op = rec.op
        /\ next.columns = read.columns /\ next.source = read.source
        /\ next.server = read.server
        /\ next.todo = then \o Tail(rec.todo)
        /\ Range(next.todo) = Range(then) \union Range(Tail(rec.todo))
        /\ Range(rec.todo) = {Head(rec.todo)} \union Range(Tail(rec.todo))
        /\ Ordered(rec.op, Tail(rec.todo)) /\ Tail(rec.todo) \in Seq(Statement)
        /\ \A x \in Range(Tail(rec.todo)) : Before(rec.op, Head(rec.todo), x)
    BY <2>1, Going
  <2> QED BY <2>2
<1>5. /\ \A p \in Profile : p \notin Names
      /\ {"source", "columns", "rootFree", "runnable", "server", "serverRow", "settings",
          "schedules", "affected"} \subseteq Names
      /\ o.op \in WithProfile => o.profile \in Profile
      /\ o.op \in Queueing => o.op \in WithProfile
  BY <1>1, Named, OperationTypes DEF WithProfile
<1>6. ASSUME o.op \in Queueing
      PROVE  /\ QueueFits(rec, left, held)
             /\ "source" \in left /\ "server" \notin left /\ "serverRow" \notin left
             /\ rec.server = Nothing
             /\ "source" \notin tail /\ o.profile \notin tail /\ "schedules" \notin tail
             /\ \A y \in tail : Rank(o, y) = 0 \/ Rank(o, y) = 8
  <2>1. QueueFits(rec, left, held) /\ "source" \in left
    BY <1>4, <1>6 DEF Fits
  <2>2. "server" \notin left /\ "serverRow" \notin left /\ rec.server = Nothing
    BY <2>1 DEF QueueFits
  <2>3. Rank(o, "source") = 5 /\ \A x : Rank(o, x) \in 0 .. 8
    BY <1>6, Ranks
  <2>4. \A y \in tail : Rank(o, y) = 0 \/ Rank(o, y) \in 6 .. 8
    BY <1>4, <1>5, <2>3 DEF Before
  <2>5. \A y \in tail : y # "server" /\ y # "serverRow"
    BY <1>4, <2>2
  <2>6. \A y \in tail : Rank(o, y) # 6 /\ Rank(o, y) # 7
    BY <2>5 DEF Rank
  <2>7. \A y \in tail : Rank(o, y) = 0 \/ Rank(o, y) = 8
    BY <2>3, <2>4, <2>6
  <2>8. Rank(o, o.profile) = 3 /\ Rank(o, "schedules") = 2
    BY <1>5, <1>6, Ranks
  <2>9. "source" \notin tail /\ o.profile \notin tail /\ "schedules" \notin tail
    BY <2>3, <2>7, <2>8
  <2> QED BY <2>1, <2>2, <2>7, <2>9
<1>7. Ordered(o, next.todo)
  <2>1. \A x \in Range(then), y \in tail : Before(o, x, y)
    <3>1. Rank(o, "server") = 6 /\ Rank(o, "serverRow") = 7
      BY Ranks
    <3> QED BY <1>2, <1>6, <3>1 DEF Before
  <2> DEFINE q == Tail(rec.todo)
  <2>2. q \in Seq(Statement) /\ Ordered(o, q) /\ next.todo = then \o q
    BY <1>4
  <2>3. \A x \in Range(then), y \in Range(q) : Before(o, x, y)
    BY <2>1
  <2> HIDE DEF q
  <2> QED BY <1>2, <2>2, <2>3, Joined
<1>8. LocksFit(o, rest, held)
  <2>1. "source" \notin Locks /\ "source" \notin Sweeps
    BY <1>5 DEF Locks, LockNames, Sweeps
  <2>2. LocksFit(o, tail, held)
    BY <1>1, <1>4, <1>5, <2>1, LocksAfterOther
  <2>3. CASE ~remote
    BY <1>2, <1>4, <2>2, <2>3
  <2>4. CASE remote
    <3>1. \A l \in held, x \in rest : Before(o, l, x)
      <4>1. ASSUME NEW l \in held PROVE Before(o, l, "source")
        BY <1>1, <1>4 DEF LocksFit
      <4>2. \A l \in held : Rank(o, l) \in 0 .. 4
        BY <1>5, <2>4, <4>1, Ranks DEF Before
      <4>3. \A l \in held : Before(o, l, "server") /\ Before(o, l, "serverRow")
        BY <4>2, Ranks DEF Before
      <4> QED BY <1>2, <1>4, <2>2, <2>4, <4>3 DEF LocksFit
    <3>2. rest = {"server", "serverRow"} \union tail
      BY <1>2, <1>4, <2>4
    <3>3. o.op \notin WithServer
      BY <2>4 DEF WithServer, Queueing
    <3> HIDE DEF rest, tail
    <3> QED BY <1>5, <2>2, <3>1, <3>2, <3>3 DEF LocksFit
  <2> QED BY <2>3, <2>4
<1>9. ASSUME o.op \in Queueing
      PROVE  QueueFits(next, rest, held)
  <2>1. remote => "server" \in rest /\ "serverRow" \in rest
    BY <1>2, <1>4
  <2>2. ~remote => rest = tail
    BY <1>2, <1>4
  <2>3. /\ \A x \in {"columns", "runnable"} : x \in rest <=> x \in left
        /\ "source" \notin rest /\ o.profile \notin rest /\ "schedules" \notin rest
    BY <1>2, <1>4, <1>5, <1>6, <1>9
  <2>4. ~remote => "server" \notin rest /\ "serverRow" \notin rest
    BY <1>4, <1>6, <1>9, <2>2
  <2> HIDE DEF left, rest, tail
  <2>5. o.op # "retry" /\ "runnable" \notin rest =>
           "columns" \notin rest /\ next.columns.status = "live" /\ next.columns.enabled
    BY <1>4, <1>6, <1>9, <2>3 DEF QueueFits
  <2> QED BY <1>4, <1>6, <1>9, <2>1, <2>3, <2>4, <2>5 DEF QueueFits
<1>10. \A x \in {"columns", "rootFree", "runnable"} : x \in rest <=> x \in left
  BY <1>2, <1>4
<1>11. o.op = "update" /\ o.kind = "gitlab" /\ "rootFree" \notin rest => "settings" \notin rest
  <2>1. o.op = "update" => ~remote
    BY DEF Queueing
  <2> QED BY <1>2, <1>4, <1>10, <2>1 DEF Fits
<1>12. remote => "serverRow" \in rest
  BY <1>2, <1>4
<1>13. o.op \notin WithProfile => OwnReads \intersect rest = {}
  BY <1>2, <1>4 DEF Fits, OwnReads, Reads
<1> HIDE DEF left, rest, tail, o
<1> QED BY <1>1, <1>4, <1>7, <1>8, <1>9, <1>10, <1>11, <1>12, <1>13 DEF Fits, o, rest, left

\* Every order of a set of profiles names each of them.
LEMMA OrderOfRows ==
    ASSUME NEW rows \in SUBSET Profile, NEW order \in SetToSeqs(rows)
    PROVE  order \in Seq(Statement) /\ Range(order) = rows
<1> DEFINE n == Cardinality(rows)
<1>1. IsFiniteSet(rows)
  BY Apart, FS_Subset
<1>2. n \in Nat /\ IsFiniteSet(1 .. n) /\ Cardinality(1 .. n) = n
  BY <1>1, FS_CardinalityType, FS_Interval
<1>3. order \in [1 .. n -> rows] /\ \A i, j \in 1 .. n : i # j => order[i] # order[j]
  BY DEF SetToSeqs
<1> HIDE DEF n
<1>4. order \in Injection(1 .. n, rows)
  BY <1>3 DEF Injection, IsInjective
<1>5. order \in Surjection(1 .. n, rows)
  BY <1>1, <1>2, <1>4, FS_Injection DEF n
<1>6. Range(order) = rows
  BY <1>3, <1>5 DEF Surjection, Range
<1>7. rows \subseteq Statement
  BY DEF Statement
<1>8. order \in Seq(Statement)
  BY <1>2, <1>3, <1>7
<1> QED BY <1>6, <1>8

\* Several profiles are to be locked.
LEMMA FitsAfterSweep ==
    ASSUME NEW rec \in Copies, NEW held \in SUBSET Locks, NEW next,
           NEW rows \in SUBSET Profile, NEW order \in SetToSeqs(rows),
           rec.todo # <<>>, Fits(rec, held), Head(rec.todo) \in Sweeps,
           rec.op.op = "scheduled" => rec.op.profile \in rows,
           Continues(next, rec, order)
    PROVE  /\ next \in Copies /\ next.op = rec.op /\ next.columns = rec.columns
           /\ next.source = rec.source /\ next.server = rec.server
           /\ Fits(next, held)
           /\ \A x \in Reads \union Checks : x \in Range(next.todo) <=> x \in Range(rec.todo)
<1> DEFINE o == rec.op
           h == Head(rec.todo)
           left == Range(rec.todo)
           rest == Range(next.todo)
           q == Tail(rec.todo)
           tail == Range(q)
<1>1. Ordered(o, rec.todo) /\ LocksFit(o, left, held) /\ o \in Operations
  BY DEF Fits
<1>2. order \in Seq(Statement) /\ Range(order) = rows
  BY OrderOfRows
<1>3. /\ next \in Copies /\ next.op = rec.op
      /\ next.columns = rec.columns /\ next.source = rec.source
      /\ next.server = rec.server
      /\ next.todo = order \o q
      /\ rest = rows \union tail
      /\ left = {h} \union tail
      /\ Ordered(o, q) /\ q \in Seq(Statement)
      /\ \A x \in tail : Before(o, h, x)
  <2>1. SameTask(rec, rec) /\ Ordered(rec.op, rec.todo)
    BY <1>1 DEF SameTask
  <2>2. /\ next \in Copies /\ next.op = rec.op
        /\ next.columns = rec.columns /\ next.source = rec.source
        /\ next.server = rec.server
        /\ next.todo = order \o Tail(rec.todo)
        /\ Range(next.todo) = Range(order) \union Range(Tail(rec.todo))
        /\ Range(rec.todo) = {Head(rec.todo)} \union Range(Tail(rec.todo))
        /\ Ordered(rec.op, Tail(rec.todo)) /\ Tail(rec.todo) \in Seq(Statement)
        /\ \A x \in Range(Tail(rec.todo)) : Before(rec.op, Head(rec.todo), x)
    BY <1>2, <2>1, Going
  <2> QED BY <1>2, <2>2
<1>4. LocksFit(o, {h} \union tail, held)
  BY <1>1, <1>3
<1>5. /\ o.op = "scheduled" => o.profile \in rows
      /\ h \in Sweeps
  OBVIOUS
<1> HIDE DEF left, rest, tail, q, h, o
<1>6. /\ LocksFit(o, rows \union tail, held)
      /\ \A x \in rows, y \in tail : Before(o, x, y)
      /\ \A x, y \in rows : Before(o, x, y)
  <2>1. o \in Operations /\ \A x \in tail : Before(o, h, x)
    BY <1>1, <1>3
  <2>2. LocksFit(o, {h} \union tail, held) /\ h \in Sweeps
    BY <1>4, <1>5
  <2>3. SweepsFirst(o, h, rows, tail, held)
    BY <1>5, <2>1, <2>2 DEF SweepsFirst
  <2> QED BY <2>3, LocksAfterSweep
<1>7. Ordered(o, order)
  BY <1>2, <1>6, OrderedIf
<1>8. Ordered(o, next.todo)
  BY <1>2, <1>3, <1>6, <1>7, Joined DEF tail
<1>9. /\ \A x \in rows : x \notin Names
      /\ h \notin Reads \union Checks \union Locks
      /\ h \in Names /\ Reads \subseteq Names /\ Checks \subseteq Names
      /\ "server" \in Names /\ "settings" \in Names
  BY <1>5, Named DEF Sweeps, Reads, Checks, Locks, LockNames
<1>10. \A x \in Names : x # h => (x \in rest <=> x \in left)
  BY <1>3, <1>9
<1>11. \A x \in Reads \union Checks : x \in rest <=> x \in left
  BY <1>9, <1>10
<1>12. ASSUME o.op \in Queueing
       PROVE  QueueFits(next, rest, held)
  <2>1. QueueFits(rec, left, held)
    BY <1>12 DEF Fits, o, left
  <2>2. "schedules" \in left
    <3>1. h = "schedules" \/ h = "affected"
      BY <1>5 DEF Sweeps
    <3>2. h = "affected" => o.op = "assign"
      BY <1>4 DEF LocksFit
    <3> QED BY <1>3, <1>12, <3>1, <3>2 DEF Queueing
  <2>3. "source" \in left /\ (o.op # "retry" => "columns" \in left)
    BY <2>1, <2>2 DEF QueueFits, o
  <2>4. "server" \in rest <=> "server" \in left
    BY <1>9, <1>10 DEF Locks, LockNames
  <2>5. \A x \in {"source", "columns", "serverRow", "runnable"} : x \in rest <=> x \in left
    BY <1>11 DEF Reads, Checks
  <2> QED BY <1>3, <2>1, <2>3, <2>4, <2>5 DEF QueueFits, o
<1>13. o.op = "update" /\ o.kind = "gitlab" /\ "rootFree" \notin rest => "settings" \notin rest
  <2>1. "rootFree" \in rest <=> "rootFree" \in left
    BY <1>11 DEF Checks
  <2>2. "settings" \in rest <=> "settings" \in left
    BY <1>9, <1>10 DEF Locks, LockNames
  <2> QED BY <2>1, <2>2 DEF Fits, o, left
<1>14. LocksFit(o, rest, held)
  BY <1>3, <1>6
<1>15. o.op \notin WithProfile => OwnReads \intersect rest = {}
  BY <1>11 DEF Fits, OwnReads, o, left
<1> QED BY <1>1, <1>3, <1>8, <1>11, <1>12, <1>13, <1>14, <1>15 DEF Fits, o, rest, left

-----------------------------------------------------------------------------
(* One step of one session                                                 *)

\* A step of session s: its record becomes `next`, and nobody else's locks change.
Replaces(s, next) ==
    /\ session' = [session EXCEPT ![s] = next]
    /\ locked' \in [Locks -> Session \union {Nothing}]
    /\ \A l \in Locks, t \in Session \ {s} : locked'[l] = t <=> locked[l] = t

LEMMA Frame ==
    ASSUME Types, NEW s \in Session, NEW next \in Copies, Replaces(s, next)
    PROVE  /\ session' \in [Session -> Copies] /\ session'[s] = next
           /\ \A t \in Session \ {s} : session'[t] = session[t] /\ Held(t)' = Held(t)
<1>1. session \in [Session -> Copies]
  BY DEF Types
<1>2. session' \in [Session -> Copies] /\ session'[s] = next
  BY <1>1 DEF Replaces
<1>3. \A t \in Session \ {s} : session'[t] = session[t]
  BY <1>1 DEF Replaces
<1>4. ASSUME NEW t \in Session \ {s} PROVE Held(t)' = Held(t)
  BY DEF Replaces, Held
<1> QED BY <1>2, <1>3, <1>4

LEMMA IdleIsACopy ==
    Idle \in Copies /\ Idle.op \notin Operations /\ Idle.todo = <<>>
<1>1. NoSource \in SourceRow
  BY DEF NoSource, SourceRow
<1>2. <<>> \in Seq(Statement)
  BY EmptySeq
<1> QED BY <1>1, <1>2, NothingIsNoOperation DEF Idle, Copies

\* A session that works goes on and nothing is written: the invariant holds if what it
\* has left and has read fits.
LEMMA Proceeds ==
    ASSUME IInv, NEW s \in Session, NEW next \in Copies, Working(s), Replaces(s, next),
           UNCHANGED <<data, begun>>, next.op = session[s].op, Fits(next, Held(s)'), ReadsHold(s)'
    PROVE  IInv'
<1>1. /\ session' \in [Session -> Copies] /\ session'[s] = next
      /\ \A t \in Session \ {s} : session'[t] = session[t] /\ Held(t)' = Held(t)
  BY Frame DEF IInv
<1>2. /\ columns' = columns /\ source' = source /\ access' = access /\ admins' = admins
      /\ server' = server /\ queued' = queued /\ begun' = begun
  BY DEF data
<1>3. Types'
  BY <1>1, <1>2 DEF IInv, Types, Replaces, Live
<1>4. next # Idle /\ Working(s)'
  BY <1>1, IdleIsACopy DEF Fits, Working
<1>5. IdleHoldsNothing'
  BY <1>1, <1>4 DEF IInv, IdleHoldsNothing, Working
<1>6. ASSUME NEW t \in Session, Working(t)'
      PROVE  SessionFits(t)' /\ ReadsHold(t)'
  <2>1. CASE t = s
    BY <1>1, <2>1 DEF SessionFits
  <2>2. CASE t # s
    <3>1. SessionFits(t) /\ ReadsHold(t)
      BY <1>1, <1>6, <2>2 DEF IInv, SessionsFit, Working
    <3>2. session'[t] = session[t] /\ Held(t)' = Held(t)
      BY <1>1, <2>2
    <3>3. SessionFits(t)'
      BY <3>1, <3>2 DEF SessionFits
    <3>4. ReadsHold(t)'
      BY <1>2, <3>1, <3>2 DEF ReadsHold, Left, HasRoot, Live
    <3> QED BY <3>3, <3>4
  <2> QED BY <2>1, <2>2
<1>7. \A t \in Session : Working(t)' <=> Working(t)
  BY <1>1, <1>4 DEF Working
<1>8. \A t \in Session : session'[t].op = session[t].op
  BY <1>1
<1>9. ASSUME NEW t \in Session, Working(t)'
      PROVE  ProfilesThere(t)'
  <2>1. ProfilesThere(t)
    BY <1>7, <1>9 DEF IInv, SessionsFit
  <2> QED BY <1>2, <1>7, <1>8, <2>1 DEF ProfilesThere
<1>10. QueuedIsCurrent'
  BY <1>2 DEF IInv, QueuedIsCurrent
<1> QED BY <1>3, <1>5, <1>6, <1>9, <1>10 DEF IInv, SessionsFit

\* A session that ends releases its locks.
LEMMA EndsReplaces ==
    ASSUME Types, NEW s \in Session, Ends(s)
    PROVE  Replaces(s, Idle) /\ Held(s)' = {}
<1>1. locked \in [Locks -> Session \union {Nothing}]
  BY DEF Types
<1>2. locked' = [l \in Locks |-> IF locked[l] = s THEN Nothing ELSE locked[l]]
  BY DEF Ends
<1>3. Nothing \notin Session
  BY CatalogueAssumption
<1>4. locked' \in [Locks -> Session \union {Nothing}]
  BY <1>1, <1>2
<1>5. \A l \in Locks, t \in Session \ {s} : locked'[l] = t <=> locked[l] = t
  BY <1>1, <1>2, <1>3
<1>6. \A l \in Locks : locked'[l] # s
  BY <1>2, <1>3
<1> QED BY <1>4, <1>5, <1>6 DEF Replaces, Ends, Held

\* The end of a session: the invariant holds if what is written leaves alone what the
\* other sessions have read under their locks.
LEMMA Concludes ==
    ASSUME IInv, NEW s \in Session, Ends(s), begun' = begun, Types',
           \A t \in Session \ {s} : Working(t) => ReadsHold(t)' /\ ProfilesThere(t)',
           QueuedIsCurrent'
    PROVE  IInv'
<1>1. Replaces(s, Idle) /\ Held(s)' = {} /\ Idle \in Copies
  BY EndsReplaces, IdleIsACopy DEF IInv
<1>2. /\ session'[s] = Idle
      /\ \A t \in Session \ {s} : session'[t] = session[t] /\ Held(t)' = Held(t)
  BY <1>1, Frame DEF IInv
<1>3. IdleHoldsNothing'
  BY <1>1, <1>2 DEF IInv, IdleHoldsNothing, Working
<1>4. ASSUME NEW t \in Session, Working(t)'
      PROVE  SessionFits(t)' /\ ReadsHold(t)' /\ ProfilesThere(t)'
  <2>1. t # s /\ Working(t)
    BY <1>2, <1>4 DEF Working
  <2>2. SessionFits(t)
    BY <2>1 DEF IInv, SessionsFit
  <2>3. SessionFits(t)'
    BY <1>2, <2>1, <2>2 DEF SessionFits
  <2> QED BY <2>1, <2>3
<1> QED BY <1>3, <1>4 DEF IInv, SessionsFit

\* An operation that fails leaves nothing behind.
LEMMA RefusesKeeps ==
    ASSUME IInv, NEW s \in Session, Refuses(s)
    PROVE  IInv'
<1>1. /\ columns' = columns /\ source' = source /\ access' = access /\ admins' = admins
      /\ server' = server /\ queued' = queued /\ begun' = begun /\ Ends(s)
  BY DEF Refuses, data
<1>2. Replaces(s, Idle) /\ Idle \in Copies
  BY <1>1, EndsReplaces, IdleIsACopy DEF IInv
<1>3. /\ session' \in [Session -> Copies] /\ session'[s] = Idle
      /\ \A t \in Session \ {s} : session'[t] = session[t] /\ Held(t)' = Held(t)
  BY <1>2, Frame DEF IInv
<1>4. Types'
  BY <1>1, <1>2, <1>3 DEF IInv, Types, Replaces, Live
<1>5. QueuedIsCurrent'
  BY <1>1 DEF IInv, QueuedIsCurrent
<1>6. ASSUME NEW t \in Session \ {s}, Working(t)
      PROVE  ReadsHold(t)' /\ ProfilesThere(t)'
  <2>1. ReadsHold(t) /\ ProfilesThere(t)
    BY <1>6 DEF IInv, SessionsFit
  <2>2. ReadsHold(t)'
    BY <1>1, <1>3, <2>1 DEF ReadsHold, Left, HasRoot, Live
  <2>3. \A u \in Session \ {t} : Working(u)' => Working(u) /\ session'[u] = session[u]
    BY <1>3 DEF Working
  <2>4. ProfilesThere(t)'
    BY <1>1, <1>3, <2>1, <2>3 DEF ProfilesThere
  <2> QED BY <2>2, <2>4
<1> QED BY <1>1, <1>4, <1>5, <1>6, Concludes

LEMMA BeginKeeps ==
    ASSUME IInv, NEW s \in Session, Begin(s)
    PROVE  IInv'
<1>1. PICK o \in Operations :
         /\ o.op = "create" =>
               /\ o.enabled /\ columns[o.profile].status = "none"
               /\ \A t \in Session : session[t] # Idle /\ session[t].op.op = "create" =>
                     session[t].op.profile # o.profile
         /\ o.op \notin {"create", "assign", "create_admin", "set_enabled", "delete_admin",
                         "update_server", "enable_server", "delete_server", "set_timezone"} =>
               Live(o.profile)
         /\ session' = [session EXCEPT ![s] = [Idle EXCEPT !.op = o, !.todo = Statements(o)]]
  BY DEF Begin
<1> DEFINE next == [Idle EXCEPT !.op = o, !.todo = Statements(o)]
<1>2. /\ columns' = columns /\ source' = source /\ access' = access /\ admins' = admins
      /\ server' = server /\ queued' = queued /\ locked' = locked
      /\ begun' = begun + 1 /\ begun < MaxOperations /\ session[s] = Idle
  BY DEF Begin, data
<1>3. /\ next \in Copies /\ Fits(next, {}) /\ next.op = o /\ next.todo = Statements(o)
  BY FreshFits
<1> HIDE DEF next
<1>4. Replaces(s, next)
  BY <1>1, <1>2 DEF Replaces, next, IInv, Types
<1>5. /\ session' \in [Session -> Copies] /\ session'[s] = next
      /\ \A t \in Session \ {s} : session'[t] = session[t] /\ Held(t)' = Held(t)
  BY <1>3, <1>4, Frame DEF IInv
<1>6. Held(s)' = {}
  BY <1>2 DEF IInv, IdleHoldsNothing, Working, Held
<1>7. begun' \in 0 .. MaxOperations
  <2>1. begun \in 0 .. MaxOperations
    BY DEF IInv, Types
  <2> QED BY <1>2, <2>1, CatalogueAssumption
<1>8. Types'
  BY <1>2, <1>5, <1>7 DEF IInv, Types, Live
<1>9. next # Idle /\ Working(s)'
  BY <1>3, <1>5, IdleIsACopy DEF Working
<1>10. IdleHoldsNothing'
  BY <1>5, <1>9 DEF IInv, IdleHoldsNothing, Working
<1>11. SessionFits(s)'
  BY <1>3, <1>5, <1>6 DEF SessionFits
<1>12. ReadsHold(s)'
  <2>1. Ready(o, Statements(o)) /\ Left(s)' = Range(Statements(o)) /\ session'[s].op = o
    BY <1>3, <1>5, StatementsReady DEF Left
  <2>2. o.op \in Queueing => "columns" \in Left(s)' /\ "source" \in Left(s)'
    BY <2>1 DEF Ready
  <2>3. o.op = "update" /\ o.kind = "gitlab" => "rootFree" \in Left(s)'
    BY <2>1 DEF Ready
  <2> QED BY <2>1, <2>2, <2>3 DEF ReadsHold
<1>13. ProfilesThere(s)'
  <2>1. o.op \in WithProfile => columns[o.profile].status # "none"
    <3>1. o.op \in WithProfile => Live(o.profile)
      BY <1>1 DEF WithProfile, Queueing
    <3> QED BY <3>1 DEF Live
  <2>2. ASSUME o.op = "create"
        PROVE  /\ columns[o.profile].status = "none"
               /\ \A t \in Session \ {s} : Working(t)' /\ session'[t].op.op = "create" =>
                     session'[t].op.profile # o.profile
    BY <1>1, <1>5, <2>2 DEF Working
  <2> QED BY <1>2, <1>3, <1>5, <2>1, <2>2 DEF ProfilesThere
<1>14. ASSUME NEW t \in Session \ {s}, Working(t)'
       PROVE  SessionFits(t)' /\ ReadsHold(t)' /\ ProfilesThere(t)'
  <2>1. SessionFits(t) /\ ReadsHold(t) /\ ProfilesThere(t)
    BY <1>5, <1>14 DEF IInv, SessionsFit, Working
  <2>2. SessionFits(t)'
    BY <1>5, <2>1 DEF SessionFits
  <2>3. ReadsHold(t)'
    BY <1>2, <1>5, <2>1 DEF ReadsHold, Left, HasRoot, Live
  <2>4. ASSUME session[t].op.op = "create", o.op = "create"
        PROVE  o.profile # session[t].op.profile
    BY <1>1, <1>5, <1>14, <2>4 DEF Working
  <2>5. ProfilesThere(t)'
    BY <1>2, <1>3, <1>5, <2>1, <2>4 DEF ProfilesThere, Working
  <2> QED BY <2>2, <2>3, <2>5
<1>15. QueuedIsCurrent'
  BY <1>2 DEF IInv, QueuedIsCurrent
<1> QED BY <1>8, <1>10, <1>11, <1>12, <1>13, <1>14, <1>15 DEF IInv, SessionsFit

\* The copies of a session and the reads it has left decide what it must have right.
LEMMA ReadsStay ==
    ASSUME NEW s \in Session, NEW next, ReadsHold(s), UNCHANGED <<data, begun>>,
           session'[s] = next, next.op = session[s].op, next.columns = session[s].columns,
           next.source = session[s].source, next.server = session[s].server,
           \A x \in {"columns", "source", "serverRow", "rootFree"} :
              x \in Range(next.todo) <=> x \in Range(session[s].todo)
    PROVE  ReadsHold(s)'
<1>1. /\ columns' = columns /\ source' = source /\ server' = server
  BY DEF data
<1>2. \A x \in {"columns", "source", "serverRow", "rootFree"} : x \in Left(s)' <=> x \in Left(s)
  BY DEF Left
<1>3. HasRoot' = HasRoot
  BY <1>1 DEF HasRoot, Live
<1> QED BY <1>1, <1>2, <1>3 DEF ReadsHold

\* A session at a statement works, and fits.
LEMMA AtWork ==
    ASSUME IInv, NEW s \in Session, session[s].todo # <<>>
    PROVE  /\ Working(s) /\ session[s] \in Copies /\ Fits(session[s], Held(s))
           /\ ReadsHold(s) /\ Held(s) \in SUBSET Locks /\ session[s].op \in Operations
<1>1. Working(s) /\ session[s] \in Copies /\ Held(s) \in SUBSET Locks
  BY IdleIsACopy DEF Working, IInv, Types, Held
<1> QED BY <1>1 DEF IInv, SessionsFit, SessionFits, Fits

LEMMA LockKeeps ==
    ASSUME IInv, NEW s \in Session, Lock(s)
    PROVE  IInv'
<1>1. PICK l \in Locks : /\ At(s, l) /\ locked[l] \in {Nothing, s}
                         /\ locked' = [locked EXCEPT ![l] = s]
  BY DEF Lock
<1> DEFINE rec == session[s]
           next == [rec EXCEPT !.todo = <<>> \o Tail(rec.todo)]
<1>2. /\ session' = [session EXCEPT ![s] = next] /\ UNCHANGED <<data, begun>>
      /\ rec.todo # <<>> /\ Head(rec.todo) = l
  BY <1>1 DEF Lock, GoesOn, At
<1>3. Continues(next, rec, <<>>)
  BY DEF Continues
<1> HIDE DEF next
<1>4. /\ Working(s) /\ rec \in Copies /\ Fits(rec, Held(s)) /\ ReadsHold(s)
  BY <1>2, AtWork
<1>5. /\ next \in Copies /\ next.op = rec.op /\ next.columns = rec.columns
      /\ next.source = rec.source /\ next.server = rec.server
      /\ Fits(next, Held(s) \union {l})
      /\ \A x : x \notin Locks => (x \in Range(next.todo) <=> x \in Range(rec.todo))
  <2> DEFINE held == Held(s)
  <2>1. /\ rec \in Copies /\ rec.todo # <<>> /\ Fits(rec, held) /\ Head(rec.todo) = l
        /\ Head(rec.todo) \in Locks
    BY <1>2, <1>4
  <2> HIDE DEF rec, held
  <2>2. /\ next \in Copies /\ next.op = rec.op /\ next.columns = rec.columns
        /\ next.source = rec.source /\ next.server = rec.server
        /\ Fits(next, held \union {Head(rec.todo)})
        /\ \A x : x \notin Locks => (x \in Range(next.todo) <=> x \in Range(rec.todo))
    BY <1>3, <2>1, FitsAfterLock
  <2> QED BY <2>1, <2>2 DEF held
<1>6. Replaces(s, next)
  <2>1. locked \in [Locks -> Session \union {Nothing}]
    BY DEF IInv, Types
  <2>2. Nothing \notin Session
    BY CatalogueAssumption
  <2> QED BY <1>1, <1>2, <2>1, <2>2 DEF Replaces
<1>7. Held(s)' = Held(s) \union {l}
  <2>1. locked \in [Locks -> Session \union {Nothing}]
    BY DEF IInv, Types
  <2> QED BY <1>1, <2>1 DEF Held
<1>8. session'[s] = next
  BY <1>5, <1>6, Frame DEF IInv
<1>9. ReadsHold(s)'
  <2>1. \A x \in {"columns", "source", "serverRow", "rootFree"} : x \notin Locks
    BY Named DEF Locks, LockNames
  <2> QED BY <1>2, <1>4, <1>5, <1>8, <2>1, ReadsStay
<1> QED BY <1>2, <1>4, <1>5, <1>6, <1>7, <1>9, Proceeds

LEMMA ValidatesKeeps ==
    ASSUME IInv, NEW s \in Session, Validates(s)
    PROVE  IInv'
<1>1. PICK h \in Checks :
         /\ At(s, h)
         /\ IF Holds(s, h)
            THEN GoesOn(s, session[s], <<>>) /\ UNCHANGED <<data, locked, begun>>
            ELSE Refuses(s)
  BY DEF Validates
<1>2. CASE ~Holds(s, h)
  BY <1>1, <1>2, RefusesKeeps
<1>3. CASE Holds(s, h)
  <2> DEFINE rec == session[s]
             next == [rec EXCEPT !.todo = <<>> \o Tail(rec.todo)]
  <2>1. /\ session' = [session EXCEPT ![s] = next] /\ UNCHANGED <<data, begun>>
        /\ locked' = locked /\ rec.todo # <<>> /\ Head(rec.todo) = h
    BY <1>1, <1>3 DEF GoesOn, At
  <2>2. Continues(next, rec, <<>>)
    BY DEF Continues
  <2> HIDE DEF next
  <2>3. /\ Working(s) /\ rec \in Copies /\ Fits(rec, Held(s)) /\ ReadsHold(s)
    BY <2>1, AtWork
  <2>4. h = "runnable" => rec.columns.status = "live" /\ rec.columns.enabled
    BY <1>3 DEF Holds
  <2>5. /\ next \in Copies /\ next.op = rec.op /\ next.columns = rec.columns
        /\ next.source = rec.source /\ next.server = rec.server
        /\ Fits(next, Held(s))
        /\ \A x : x # h => (x \in Range(next.todo) <=> x \in Range(rec.todo))
    <3> DEFINE held == Held(s)
    <3>1. /\ rec \in Copies /\ rec.todo # <<>> /\ Fits(rec, held) /\ Head(rec.todo) = h
          /\ Head(rec.todo) \in Checks
      BY <2>1, <2>3
    <3> HIDE DEF rec, held
    <3>2. /\ next \in Copies /\ next.op = rec.op /\ next.columns = rec.columns
          /\ next.source = rec.source /\ next.server = rec.server
          /\ Fits(next, held)
          /\ \A x : x # Head(rec.todo) => (x \in Range(next.todo) <=> x \in Range(rec.todo))
      BY <2>2, <2>4, <3>1, FitsAfterCheck
    <3> QED BY <3>1, <3>2 DEF held
  <2>6. Replaces(s, next) /\ Held(s)' = Held(s)
    BY <2>1 DEF Replaces, IInv, Types, Held
  <2>7. session'[s] = next
    BY <2>5, <2>6, Frame DEF IInv
  <2>8. ReadsHold(s)'
    <3>1. CASE h # "rootFree"
      <4>1. \A x \in {"columns", "source", "serverRow", "rootFree"} : x # h
        BY <1>1, <3>1 DEF Checks
      <4> QED BY <2>1, <2>3, <2>5, <2>7, <4>1, ReadsStay
    <3>2. CASE h = "rootFree"
      <4>1. HasRoot \subseteq {rec.op.profile}
        BY <1>3, <3>2 DEF Holds
      <4>2. columns' = columns /\ source' = source /\ server' = server
        BY <2>1 DEF data
      <4>3. HasRoot' = HasRoot
        BY <4>2 DEF HasRoot, Live
      <4>4. \A x \in {"columns", "source", "serverRow"} : x \in Left(s)' <=> x \in Left(s)
        BY <2>5, <2>7, <3>2 DEF Left
      <4> QED BY <2>3, <2>5, <2>7, <4>1, <4>2, <4>3, <4>4 DEF ReadsHold
    <3> QED BY <3>1, <3>2
  <2> QED BY <2>1, <2>3, <2>5, <2>6, <2>8, Proceeds
<1> QED BY <1>2, <1>3

\* A read of anything but the source rows.
LEMMA ReadKeeps ==
    ASSUME IInv, NEW s \in Session, NEW h \in Reads \ {"source"}, NEW read \in Copies,
           At(s, h), SameTask(session[s], read), GoesOn(s, read, <<>>),
           UNCHANGED <<data, locked, begun>>,
           read.source = session[s].source,
           h = "serverRow" => read.server = server,
           h # "serverRow" => read.server = session[s].server,
           h \in {"active", "columns", "reload"} =>
              read.columns = columns[session[s].op.profile],
           h \notin {"active", "columns", "reload"} => read.columns = session[s].columns
    PROVE  IInv'
<1> DEFINE rec == session[s]
           o == rec.op
           held == Held(s)
           next == [read EXCEPT !.todo = <<>> \o Tail(read.todo)]
<1>1. /\ session' = [session EXCEPT ![s] = next] /\ UNCHANGED <<data, begun>>
      /\ locked' = locked /\ rec.todo # <<>> /\ Head(rec.todo) = h
  BY DEF GoesOn, At
<1>2. Continues(next, read, <<>>)
  BY DEF Continues
<1> HIDE DEF next
<1>3. /\ Working(s) /\ rec \in Copies /\ Fits(rec, held) /\ ReadsHold(s)
  BY <1>1, AtWork
<1>4. "runnable" \notin Range(rec.todo) /\ o.op \in Queueing /\ o.op # "retry" =>
         read.columns.status = "live" /\ read.columns.enabled
  <2>1. CASE "runnable" \notin Range(rec.todo) /\ o.op \in Queueing /\ o.op # "retry"
    <3>1. /\ "columns" \notin Range(rec.todo)
          /\ rec.columns.status = "live" /\ rec.columns.enabled
      BY <1>3, <2>1 DEF Fits, QueueFits
    <3>2. rec.columns = columns[o.profile]
      BY <1>3, <2>1, <3>1 DEF ReadsHold, Left
    <3> QED BY <3>1, <3>2
  <2> QED BY <2>1
<1>5. /\ next \in Copies /\ next.op = rec.op /\ next.columns = read.columns
      /\ next.source = read.source /\ next.server = read.server
      /\ Fits(next, held)
      /\ \A x : x # h => (x \in Range(next.todo) <=> x \in Range(rec.todo))
  <2>1. /\ Head(rec.todo) \in Reads \ {"source"} /\ SameTask(rec, read)
        /\ read.source = rec.source /\ rec.todo # <<>>
        /\ Head(rec.todo) # "serverRow" => read.server = rec.server
        /\ "runnable" \notin Range(rec.todo) /\ rec.op.op \in Queueing /\ rec.op.op # "retry" =>
              read.columns.status = "live" /\ read.columns.enabled
    BY <1>1, <1>4
  <2>2. Fits(rec, held) /\ rec \in Copies
    BY <1>3
  <2>3. Head(rec.todo) = h
    BY <1>1
  <2> HIDE DEF rec, held, o
  <2>4. /\ next \in Copies /\ next.op = rec.op /\ next.columns = read.columns
        /\ next.source = read.source /\ next.server = read.server
        /\ Fits(next, held)
        /\ \A x : x # Head(rec.todo) => (x \in Range(next.todo) <=> x \in Range(rec.todo))
    BY <1>2, <2>1, <2>2, FitsAfterRead
  <2> QED BY <2>3, <2>4
<1>6. Replaces(s, next) /\ Held(s)' = held
  BY <1>1 DEF Replaces, IInv, Types, Held
<1>7. session'[s] = next
  BY <1>5, <1>6, Frame DEF IInv
<1>8. columns' = columns /\ source' = source /\ server' = server
  BY <1>1 DEF data
<1>9. HasRoot' = HasRoot
  BY <1>8 DEF HasRoot, Live
<1>10. Left(s)' = Range(next.todo) /\ Left(s) = Range(rec.todo)
  BY <1>7 DEF Left
<1>11. ReadsHold(s)'
  <2>1. o.op \in Queueing /\ o.op # "retry" /\ "columns" \notin Left(s)' =>
           next.columns = columns[o.profile]
    <3>1. CASE h \in {"active", "columns", "reload"}
      BY <1>5, <3>1
    <3>2. CASE h \notin {"active", "columns", "reload"}
      <4>1. "columns" \notin Left(s)' => "columns" \notin Left(s)
        BY <1>5, <1>10, <3>2
      <4> QED BY <1>3, <1>5, <3>2, <4>1 DEF ReadsHold
    <3> QED BY <3>1, <3>2
  <2>2. "source" \in Left(s)' <=> "source" \in Left(s)
    BY <1>5, <1>10
  <2>3. "rootFree" \in Left(s)' <=> "rootFree" \in Left(s)
    <3>1. h # "rootFree"
      BY DEF Reads
    <3> QED BY <1>5, <1>10, <3>1
  <2>4. o.op \in Queueing /\ "source" \notin Left(s)' =>
           next.source = source[o.profile]
    BY <1>3, <1>5, <2>2 DEF ReadsHold
  <2>5. o.op \in Queueing /\ "source" \notin Left(s)' /\ next.source.kind = "remote"
           /\ "serverRow" \notin Left(s)' => next.server = server
    <3>1. CASE h = "serverRow"
      BY <1>5, <3>1
    <3>2. CASE h # "serverRow"
      <4>1. "serverRow" \notin Left(s)' => "serverRow" \notin Left(s)
        BY <1>5, <1>10, <3>2
      <4> QED BY <1>3, <1>5, <2>2, <3>2, <4>1 DEF ReadsHold
    <3> QED BY <3>1, <3>2
  <2>6. o.op = "update" /\ o.kind = "gitlab" /\ "rootFree" \notin Left(s)' =>
           HasRoot \subseteq {o.profile}
    BY <1>3, <2>3 DEF ReadsHold
  <2> HIDE DEF rec
  <2>7. session'[s].op = o /\ session'[s].columns = next.columns
        /\ session'[s].source = next.source /\ session'[s].server = next.server
    BY <1>5, <1>7
  <2> HIDE DEF o
  <2> QED BY <1>8, <1>9, <2>1, <2>4, <2>5, <2>6, <2>7 DEF ReadsHold
<1> QED BY <1>1, <1>3, <1>5, <1>6, <1>7, <1>11, Proceeds

\* The profile that a session is to read is one.
LEMMA OwnProfile ==
    ASSUME IInv, NEW s \in Session, NEW h \in OwnReads, At(s, h)
    PROVE  session[s].op.op \in WithProfile /\ session[s].op.profile \in Profile
<1>1. /\ session[s].todo # <<>> /\ Head(session[s].todo) = h
  BY DEF At
<1>2. Fits(session[s], Held(s)) /\ session[s] \in Copies
  BY <1>1, AtWork
<1>3. /\ session[s].todo \in Seq(Statement) /\ session[s].op \in Operations
      /\ Ordered(session[s].op, session[s].todo)
  BY <1>2 DEF Copies, Fits
<1>4. h \in Range(session[s].todo)
  BY <1>1, <1>3, RestOf
<1> QED BY <1>2, <1>3, <1>4, OperationTypes DEF Fits

LEMMA ReadsKeep ==
    ASSUME IInv, NEW s \in Session,
           ReadsColumns(s) \/ ReloadsColumns(s) \/ ReadsServer(s) \/ ReadsAccess(s)
    PROVE  IInv'
<1> DEFINE rec == session[s]
           p == rec.op.profile
<1>1. rec \in Copies /\ server \in ServerRow
  BY DEF IInv, Types
<1>2. p \in Profile => columns[p] \in Columns
  BY DEF IInv, Types
<1>3. ASSUME NEW h \in {"active", "columns", "reload"}, At(s, h),
             GoesOn(s, [rec EXCEPT !.columns = columns[p]], <<>>),
             UNCHANGED <<data, locked, begun>>
      PROVE  IInv'
  <2>1. p \in Profile /\ h \in Reads \ {"source"}
    BY <1>3, OwnProfile DEF OwnReads, Reads
  <2> DEFINE read == [rec EXCEPT !.columns = columns[p]]
  <2>2. /\ read \in Copies /\ SameTask(rec, read) /\ read.source = rec.source
        /\ read.server = rec.server /\ read.columns = columns[p]
    BY <1>1, <1>2, <2>1 DEF Copies, SameTask
  <2>3. GoesOn(s, read, <<>>)
    BY <1>3
  <2> HIDE DEF read
  <2> QED BY <1>3, <2>1, <2>2, <2>3, ReadKeeps
<1>4. CASE ReadsColumns(s)
  <2>1. CASE At(s, "active") /\ ~ Live(p)
    BY <1>4, <2>1, RefusesKeeps DEF ReadsColumns
  <2>2. CASE ~(At(s, "active") /\ ~ Live(p))
    <3>1. PICK h \in {"active", "columns"} : At(s, h)
      BY <1>4 DEF ReadsColumns
    <3>2. /\ GoesOn(s, [rec EXCEPT !.columns = columns[p]], <<>>)
          /\ UNCHANGED <<data, locked, begun>>
      BY <1>4, <2>2 DEF ReadsColumns
    <3> QED BY <1>3, <3>1, <3>2
  <2> QED BY <2>1, <2>2
<1>5. CASE ReloadsColumns(s)
  BY <1>3, <1>5 DEF ReloadsColumns
<1>6. CASE ReadsServer(s)
  <2>1. At(s, "serverRow") /\ "serverRow" \in Reads \ {"source"}
    BY <1>6 DEF ReadsServer, Reads
  <2> DEFINE read == [rec EXCEPT !.server = server]
  <2>2. /\ read \in Copies /\ SameTask(rec, read) /\ read.source = rec.source
        /\ read.server = server /\ read.columns = rec.columns
    BY <1>1 DEF Copies, SameTask
  <2>3. GoesOn(s, read, <<>>) /\ UNCHANGED <<data, locked, begun>>
    BY <1>6 DEF ReadsServer
  <2> HIDE DEF read
  <2> QED BY <2>1, <2>2, <2>3, ReadKeeps
<1>7. CASE ReadsAccess(s)
  <2>1. At(s, "access") /\ "access" \in Reads \ {"source"}
    BY <1>7 DEF ReadsAccess, Reads
  <2> DEFINE read == [rec EXCEPT !.admins = AdminsOf(p)]
  <2>2. /\ read \in Copies /\ SameTask(rec, read) /\ read.source = rec.source
        /\ read.server = rec.server /\ read.columns = rec.columns
    <3>1. AdminsOf(p) \in SUBSET Admin
      BY DEF AdminsOf
    <3> QED BY <1>1, <3>1 DEF Copies, SameTask
  <2>3. GoesOn(s, read, <<>>) /\ UNCHANGED <<data, locked, begun>>
    BY <1>7 DEF ReadsAccess
  <2> HIDE DEF read
  <2> QED BY <2>1, <2>2, <2>3, ReadKeeps
<1> QED BY <1>4, <1>5, <1>6, <1>7

LEMMA ReadsSourceKeeps ==
    ASSUME IInv, NEW s \in Session, ReadsSource(s)
    PROVE  IInv'
<1> DEFINE rec == session[s]
           o == rec.op
           held == Held(s)
           rows == source[o.profile]
           then == IF o.op \in Queueing /\ rows.kind = "remote"
                   THEN <<"server", "serverRow">> ELSE <<>>
           read == [rec EXCEPT !.source = rows]
           next == [read EXCEPT !.todo = then \o Tail(read.todo)]
<1>1. /\ rec.todo # <<>> /\ Head(rec.todo) = "source" /\ UNCHANGED <<data, begun>>
      /\ locked' = locked /\ At(s, "source")
  BY DEF ReadsSource, At
<1>2. session' = [session EXCEPT ![s] = next]
  BY DEF ReadsSource, GoesOn, Queues, Queueing
<1>3. /\ Working(s) /\ rec \in Copies /\ Fits(rec, held) /\ ReadsHold(s)
  BY <1>1, AtWork
<1>4. rows \in SourceRow
  <2>1. o.profile \in Profile
    BY <1>1, OwnProfile DEF OwnReads, Reads
  <2> QED BY <2>1 DEF IInv, Types
<1>5. /\ read \in Copies /\ SameTask(rec, read) /\ read.source = rows
      /\ read.server = rec.server /\ read.columns = rec.columns
  BY <1>3, <1>4 DEF Copies, SameTask
<1>6. Continues(next, read, IF rec.op.op \in Queueing /\ read.source.kind = "remote"
                            THEN <<"server", "serverRow">> ELSE <<>>)
  <2>1. Continues(next, read, then)
    BY DEF Continues
  <2> QED BY <1>5, <2>1
<1> HIDE DEF read, next, rows, then
<1>7. /\ next \in Copies /\ next.op = rec.op /\ next.columns = rec.columns
      /\ next.source = read.source /\ next.server = rec.server
      /\ Fits(next, held)
      /\ \A x \in {"columns", "rootFree", "runnable"} :
            x \in Range(next.todo) <=> x \in Range(rec.todo)
      /\ rec.op.op \in Queueing /\ read.source.kind = "remote" =>
            "serverRow" \in Range(next.todo)
  <2>1. /\ rec \in Copies /\ Fits(rec, held) /\ rec.todo # <<>> /\ Head(rec.todo) = "source"
    BY <1>1, <1>3
  <2> HIDE DEF rec, held, o
  <2> QED BY <1>5, <1>6, <2>1, FitsAfterSource
<1>8. Replaces(s, next) /\ Held(s)' = held
  BY <1>1, <1>2 DEF Replaces, IInv, Types, Held
<1>9. session'[s] = next
  BY <1>7, <1>8, Frame DEF IInv
<1>10. columns' = columns /\ source' = source /\ server' = server
  BY <1>1 DEF data
<1>11. HasRoot' = HasRoot
  BY <1>10 DEF HasRoot, Live
<1>12. Left(s)' = Range(next.todo) /\ Left(s) = Range(rec.todo)
  BY <1>9 DEF Left
<1>13. ReadsHold(s)'
  <2>1. /\ "columns" \in Left(s)' <=> "columns" \in Left(s)
        /\ "rootFree" \in Left(s)' <=> "rootFree" \in Left(s)
        /\ o.op \in Queueing /\ rows.kind = "remote" => "serverRow" \in Left(s)'
    BY <1>5, <1>7, <1>12
  <2>2. session'[s].op = o /\ session'[s].columns = rec.columns /\ session'[s].source = rows
    BY <1>5, <1>7, <1>9
  <2> QED BY <1>3, <1>10, <1>11, <2>1, <2>2 DEF ReadsHold, rows
<1> QED BY <1>1, <1>3, <1>7, <1>8, <1>9, <1>13, Proceeds

LEMMA LocksSeveralKeeps ==
    ASSUME IInv, NEW s \in Session, LocksSeveral(s)
    PROVE  IInv'
<1> DEFINE rec == session[s]
           o == rec.op
           held == Held(s)
           rows == IF At(s, "schedules")
                   THEN {p \in Profile : Live(p) /\ columns[p].enabled}
                   ELSE {p \in Profile : <<o.admin, p>> \in access} \union o.profiles
<1>1. CASE o.op = "scheduled" /\ o.profile \notin rows
  BY <1>1, RefusesKeeps DEF LocksSeveral
<1>2. CASE ~(o.op = "scheduled" /\ o.profile \notin rows)
  <2>1. PICK h \in Sweeps : At(s, h)
    BY DEF LocksSeveral, Sweeps
  <2>2. PICK order \in SetToSeqs(rows) : GoesOn(s, rec, order)
    BY <1>2 DEF LocksSeveral
  <2>3. /\ rec.todo # <<>> /\ Head(rec.todo) = h /\ UNCHANGED <<data, begun>>
        /\ locked' = locked
    BY <1>2, <2>1 DEF LocksSeveral, At
  <2>4. /\ Working(s) /\ rec \in Copies /\ Fits(rec, held) /\ ReadsHold(s)
        /\ held \in SUBSET Locks /\ o \in Operations
    BY <2>3, AtWork
  <2>5. rows \in SUBSET Profile
    <3>1. CASE At(s, "schedules")
      BY <3>1
    <3>2. CASE ~At(s, "schedules")
      <4>1. h = "affected"
        BY <2>1, <3>2 DEF Sweeps
      <4>2. rec.todo \in Seq(Statement) /\ Ordered(o, rec.todo)
        BY <2>4 DEF Copies, Fits
      <4>3. "affected" \in Range(rec.todo)
        BY <2>3, <4>1, <4>2, RestOf
      <4>4. o.op = "assign"
        BY <2>4, <4>3 DEF Fits, LocksFit
      <4>5. o.profiles \in SUBSET Profile
        BY <2>4, <4>4, OperationTypes
      <4> QED BY <3>2, <4>5
    <3> QED BY <3>1, <3>2
  <2>6. o.op = "scheduled" => o.profile \in rows
    BY <1>2
  <2> DEFINE next == [rec EXCEPT !.todo = order \o Tail(rec.todo)]
  <2>7. session' = [session EXCEPT ![s] = next] /\ Continues(next, rec, order)
    BY <2>2 DEF GoesOn, Continues
  <2> HIDE DEF next, rows
  <2>8. /\ next \in Copies /\ next.op = rec.op /\ next.columns = rec.columns
        /\ next.source = rec.source /\ next.server = rec.server
        /\ Fits(next, held)
        /\ \A x \in Reads \union Checks : x \in Range(next.todo) <=> x \in Range(rec.todo)
    <3>1. /\ rec \in Copies /\ Fits(rec, held) /\ rec.todo # <<>> /\ held \in SUBSET Locks
          /\ Head(rec.todo) \in Sweeps
          /\ rec.op.op = "scheduled" => rec.op.profile \in rows
      BY <2>3, <2>4, <2>6
    <3> HIDE DEF rec, held, o
    <3> QED BY <2>2, <2>5, <2>7, <3>1, FitsAfterSweep
  <2>9. Replaces(s, next) /\ Held(s)' = held
    BY <2>3, <2>7 DEF Replaces, IInv, Types, Held
  <2>10. session'[s] = next
    BY <2>8, <2>9, Frame DEF IInv
  <2>11. ReadsHold(s)'
    <3>1. \A x \in {"columns", "source", "serverRow", "rootFree"} : x \in Reads \union Checks
      BY DEF Reads, Checks
    <3> QED BY <2>3, <2>4, <2>8, <2>10, <3>1, ReadsStay
  <2> QED BY <2>3, <2>4, <2>8, <2>9, <2>10, <2>11, Proceeds
<1> QED BY <1>1, <1>2

-----------------------------------------------------------------------------
(* Commits                                                                 *)

\* What an operation that has executed all its statements holds.
LEMMA AtCommit ==
    ASSUME IInv, NEW s \in Session, NEW ops, Commits(s, ops)
    PROVE  LET o == session[s].op
           IN  /\ Working(s) /\ Left(s) = {} /\ o \in Operations /\ o.op \in ops
               /\ session[s] \in Copies /\ Ends(s)
               /\ Fits(session[s], Held(s)) /\ ReadsHold(s) /\ ProfilesThere(s)
               /\ o.op \in WithSettings => "settings" \in Held(s)
               /\ o.op \in WithServer => "server" \in Held(s)
               /\ o.op \in WithProfile => o.profile \in Held(s)
<1>1. /\ session[s] # Idle /\ session[s].todo = <<>> /\ session[s].op.op \in ops /\ Ends(s)
  BY DEF Commits
<1>2. /\ Working(s) /\ Fits(session[s], Held(s)) /\ ReadsHold(s) /\ ProfilesThere(s)
  BY <1>1 DEF Working, IInv, SessionsFit, SessionFits
<1>3. Left(s) = {} /\ Range(session[s].todo) = {}
  BY <1>1, NoStatement DEF Left
<1>4. session[s] \in Copies
  BY DEF IInv, Types
<1>5. LocksFit(session[s].op, {}, Held(s)) /\ session[s].op \in Operations
  BY <1>2, <1>3 DEF Fits
<1>6. /\ session[s].op.op \in WithSettings => "settings" \in Held(s)
      /\ session[s].op.op \in WithServer => "server" \in Held(s)
      /\ session[s].op.op \in WithProfile => session[s].op.profile \in Held(s)
  BY <1>5 DEF LocksFit
<1> QED BY <1>1, <1>2, <1>3, <1>4, <1>5, <1>6

\* The lock under which a session has read what it relies on.
LEMMA Relies ==
    ASSUME IInv, NEW t \in Session, Working(t)
    PROVE  LET rec == session[t]
               o   == rec.op
           IN  /\ /\ o.op \in Queueing
                  /\ (o.op # "retry" /\ "columns" \notin Left(t)) \/ "source" \notin Left(t)
                  => o.profile \in Held(t)
               /\ /\ o.op \in Queueing /\ "source" \notin Left(t)
                  /\ rec.source.kind = "remote" /\ "serverRow" \notin Left(t)
                  => "server" \in Held(t)
               /\ o.op = "update" /\ o.kind = "gitlab" /\ "rootFree" \notin Left(t) =>
                     "settings" \in Held(t)
<1> DEFINE rec == session[t]
           o == rec.op
           left == Range(rec.todo)
<1>1. Fits(rec, Held(t)) /\ Left(t) = left
  BY DEF IInv, SessionsFit, SessionFits, Left
<1>2. LocksFit(o, left, Held(t)) /\ (o.op \in Queueing => QueueFits(rec, left, Held(t)))
  BY <1>1 DEF Fits
<1>3. o.op = "update" /\ o.kind = "gitlab" /\ "rootFree" \notin left => "settings" \notin left
  BY <1>1 DEF Fits
<1> HIDE DEF rec, left
<1>4. ASSUME o.op \in Queueing,
             (o.op # "retry" /\ "columns" \notin left) \/ "source" \notin left
      PROVE  o.profile \in Held(t)
  <2>1. o.profile \notin left /\ "schedules" \notin left
    BY <1>2, <1>4 DEF QueueFits
  <2> QED BY <1>2, <1>4, <2>1 DEF LocksFit, WithProfile
<1>5. ASSUME o.op \in Queueing, "source" \notin left, rec.source.kind = "remote",
             "serverRow" \notin left
      PROVE  "server" \in Held(t)
  BY <1>2, <1>5 DEF QueueFits
<1>6. ASSUME o.op = "update", o.kind = "gitlab", "rootFree" \notin left
      PROVE  "settings" \in Held(t)
  BY <1>2, <1>3, <1>6 DEF LocksFit, WithSettings
<1> QED BY <1>1, <1>4, <1>5, <1>6 DEF rec

\* A commit that writes only what its locks protect, or a profile that did not exist.
LEMMA Writes ==
    ASSUME IInv, NEW s \in Session, Working(s), Ends(s), begun' = begun,
           columns' \in [Profile -> Columns], source' \in [Profile -> SourceRow],
           access' \subseteq Admin \X Profile,
           admins' \in [Admin -> {"none", "enabled", "disabled", "deleted"}],
           server' \in ServerRow,
           \A p \in Profile : columns'[p].status = "live" =>
              source'[p].kind \in SourceKinds /\ source'[p].version = columns'[p].version,
           \A p \in Profile : columns'[p] # columns[p] \/ source'[p] # source[p] =>
              p \in Held(s) \/ columns[p].status = "none",
           server' # server => "server" \in Held(s),
           HasRoot' \subseteq HasRoot \/ "settings" \in Held(s),
           \A p \in Profile : columns[p].status # "none" => columns'[p].status # "none",
           \A p \in Profile : columns[p].status = "none" =>
              \/ columns'[p].status = "none"
              \/ session[s].op.op = "create" /\ session[s].op.profile = p,
           QueuedIsCurrent'
    PROVE  IInv'
<1>1. Replaces(s, Idle) /\ Idle \in Copies
  BY EndsReplaces, IdleIsACopy DEF IInv
<1>2. /\ session' \in [Session -> Copies] /\ session'[s] = Idle
      /\ \A t \in Session \ {s} : session'[t] = session[t] /\ Held(t)' = Held(t)
  BY <1>1, Frame DEF IInv
<1>3. Types'
  <2>1. begun' \in 0 .. MaxOperations
    BY DEF IInv, Types
  <2> QED BY <1>1, <1>2, <2>1 DEF Types, Replaces, Live
<1>4. ASSUME NEW t \in Session \ {s}, Working(t)
      PROVE  ReadsHold(t)' /\ ProfilesThere(t)'
  <2> DEFINE rec == session[t]
             o == rec.op
  <2>1. ReadsHold(t) /\ ProfilesThere(t) /\ o \in Operations
    BY <1>4 DEF IInv, SessionsFit, SessionFits, Fits
  <2>2. \A l \in Locks : l \in Held(t) => l \notin Held(s)
    BY DEF Held
  <2>3. session'[t] = rec /\ Left(t)' = Left(t)
    BY <1>2 DEF Left
  <2>4. ASSUME o.op \in Queueing, o.profile \in Held(t)
        PROVE  columns'[o.profile] = columns[o.profile] /\ source'[o.profile] = source[o.profile]
    <3>1. o.profile \in Profile /\ o.profile \in Locks
      BY <2>1, <2>4, OperationTypes DEF WithProfile, Locks
    <3>2. o.profile \notin Held(s) /\ columns[o.profile].status # "none"
      BY <2>1, <2>2, <2>4, <3>1 DEF ProfilesThere, WithProfile
    <3> QED BY <3>1, <3>2
  <2>5. "server" \in Held(t) => server' = server
    BY <2>2 DEF Locks, LockNames
  <2>6. "settings" \in Held(t) => HasRoot' \subseteq HasRoot
    BY <2>2 DEF Locks, LockNames
  <2>7. ASSUME o.op \in Queueing
        PROVE  /\ o.op # "retry" /\ "columns" \notin Left(t) => rec.columns = columns'[o.profile]
               /\ "source" \notin Left(t) => rec.source = source'[o.profile]
               /\ "source" \notin Left(t) /\ rec.source.kind = "remote"
                    /\ "serverRow" \notin Left(t) => rec.server = server'
    <3>1. /\ (o.op # "retry" /\ "columns" \notin Left(t)) \/ "source" \notin Left(t)
             => o.profile \in Held(t)
          /\ "source" \notin Left(t) /\ rec.source.kind = "remote" /\ "serverRow" \notin Left(t)
             => "server" \in Held(t)
      BY <1>4, <2>7, Relies
    <3> QED BY <2>1, <2>4, <2>5, <2>7, <3>1 DEF ReadsHold
  <2>8. ASSUME o.op = "update", o.kind = "gitlab", "rootFree" \notin Left(t)
        PROVE  HasRoot' \subseteq {o.profile}
    <3>1. "settings" \in Held(t)
      BY <1>4, <2>8, Relies
    <3> QED BY <2>1, <2>6, <2>8, <3>1 DEF ReadsHold
  <2>9. ReadsHold(t)'
    BY <2>3, <2>7, <2>8 DEF ReadsHold
  <2>10. o.op \in WithProfile \union {"create"} => o.profile \in Profile
    BY <2>1, OperationTypes
  <2>11. ASSUME o.op = "create"
         PROVE  columns'[o.profile].status = "none"
    <3>1. /\ columns[o.profile].status = "none"
          /\ session[s].op.op = "create" => session[s].op.profile # o.profile
      BY <1>4, <2>1, <2>11 DEF ProfilesThere
    <3> QED BY <2>10, <2>11, <3>1
  <2>12. \A u \in Session \ {t} : Working(u)' => Working(u) /\ session'[u] = session[u]
    BY <1>2 DEF Working
  <2>13. ProfilesThere(t)'
    BY <2>1, <2>3, <2>10, <2>11, <2>12 DEF ProfilesThere
  <2> QED BY <2>9, <2>13
<1> QED BY <1>3, <1>4, Concludes

LEMMA AssignedTypes ==
    ASSUME Types, NEW p \in Profile, NEW chosen \in SUBSET Admin
    PROVE  Assigned(p, chosen) \subseteq Admin \X Profile
BY DEF Types, Assigned

\* What a commit leaves alone is as it must be.
LEMMA Unwritten ==
    ASSUME IInv
    PROVE  /\ columns \in [Profile -> Columns] /\ source \in [Profile -> SourceRow]
           /\ access \subseteq Admin \X Profile
           /\ admins \in [Admin -> {"none", "enabled", "disabled", "deleted"}]
           /\ server \in ServerRow
           /\ \A p \in Profile : columns[p].status = "live" =>
                 source[p].kind \in SourceKinds /\ source[p].version = columns[p].version
           /\ HasRoot = {p \in Profile : columns[p].status = "live" /\ source[p].kind = "gitlab"}
BY DEF IInv, Types, Live, HasRoot

LEMMA CreateKeeps ==
    ASSUME IInv, NEW s \in Session, CommitCreate(s)
    PROVE  IInv'
<1> DEFINE o == session[s].op
           p == o.profile
           row == [status |-> "live", enabled |-> TRUE, version |-> 0]
           new == [kind |-> o.kind, version |-> 0]
<1>1. /\ Working(s) /\ Ends(s) /\ o \in Operations /\ o.op = "create" /\ ProfilesThere(s)
      /\ "settings" \in Held(s)
  BY AtCommit DEF CommitCreate, WithSettings
<1>2. /\ columns' = [columns EXCEPT ![p] = row] /\ source' = [source EXCEPT ![p] = new]
      /\ access' = Assigned(p, o.admins)
      /\ admins' = admins /\ server' = server /\ queued' = queued /\ begun' = begun
  BY DEF CommitCreate
<1>3. p \in Profile /\ o.kind \in SourceKinds /\ o.admins \in SUBSET Admin
  BY <1>1, OperationTypes
<1>4. columns[p].status = "none"
  BY <1>1 DEF ProfilesThere
<1>5. row \in Columns /\ new \in SourceRow
  BY <1>3 DEF Columns, SourceRow
<1>6. row.status = "live" /\ row.version = new.version /\ new.kind \in SourceKinds
  BY <1>3
<1> HIDE DEF row, new
<1>7. /\ columns' \in [Profile -> Columns] /\ source' \in [Profile -> SourceRow]
      /\ columns'[p] = row /\ source'[p] = new
      /\ \A q \in Profile \ {p} : columns'[q] = columns[q] /\ source'[q] = source[q]
  BY <1>2, <1>3, <1>5, Unwritten
<1>8. access' \subseteq Admin \X Profile
  BY <1>2, <1>3, AssignedTypes DEF IInv
<1>9. \A q \in Profile : columns'[q].status = "live" =>
         source'[q].kind \in SourceKinds /\ source'[q].version = columns'[q].version
  BY <1>6, <1>7, Unwritten
<1>10. \A q \in Profile : columns'[q] # columns[q] \/ source'[q] # source[q] =>
          q \in Held(s) \/ columns[q].status = "none"
  BY <1>4, <1>7
<1>11. /\ \A q \in Profile : columns[q].status # "none" => columns'[q].status # "none"
       /\ \A q \in Profile : columns[q].status = "none" =>
             \/ columns'[q].status = "none"
             \/ session[s].op.op = "create" /\ session[s].op.profile = q
  BY <1>1, <1>6, <1>7
<1>12. QueuedIsCurrent'
  BY <1>2 DEF IInv, QueuedIsCurrent
<1>13. admins' \in [Admin -> {"none", "enabled", "disabled", "deleted"}] /\ server' \in ServerRow
  BY <1>2, Unwritten
<1> HIDE DEF o, p
<1> QED BY <1>1, <1>2, <1>7, <1>8, <1>9, <1>10, <1>11, <1>12, <1>13, Writes

LEMMA UpdateKeeps ==
    ASSUME IInv, NEW s \in Session, CommitUpdate(s)
    PROVE  IInv'
<1> DEFINE o == session[s].op
           p == o.profile
           version == columns[p].version + 1
           new == [kind |-> o.kind, version |-> version]
<1>1. /\ Working(s) /\ Ends(s) /\ o \in Operations /\ o.op = "update" /\ ProfilesThere(s)
      /\ "settings" \in Held(s) /\ p \in Held(s)
  BY AtCommit DEF CommitUpdate, WithSettings, WithProfile
<1>2. p \in Profile /\ o.kind \in SourceKinds /\ o.admins \in SUBSET Admin /\ o.enabled \in BOOLEAN
  BY <1>1, OperationTypes DEF WithProfile
<1>3. /\ source' = [source EXCEPT ![p] = new]
      /\ access' = Assigned(p, o.admins)
      /\ admins' = admins /\ server' = server /\ queued' = queued /\ begun' = begun
  BY DEF CommitUpdate
<1>4. columns[p] \in Columns
  BY <1>2, Unwritten
<1>5. PICK row \in Columns : /\ row.status = columns[p].status /\ row.version = version
                             /\ columns' = [columns EXCEPT ![p] = row]
  <2> DEFINE row == [columns[p] EXCEPT !.version = version,
                        !.enabled = Written(session[s].columns.enabled, o.enabled, @)]
  <2>1. columns' = [columns EXCEPT ![p] = row]
    BY <1>2, <1>4, Unwritten DEF CommitUpdate, Columns
  <2>2. Written(session[s].columns.enabled, o.enabled, columns[p].enabled) \in BOOLEAN
    BY <1>2, <1>4 DEF Written, Columns
  <2>3. version \in Nat
    BY <1>4 DEF Columns
  <2>4. ASSUME NEW c \in Columns, NEW v \in Nat, NEW e \in BOOLEAN
        PROVE  LET r == [c EXCEPT !.version = v, !.enabled = e]
               IN  r \in Columns /\ r.status = c.status /\ r.version = v
    BY DEF Columns
  <2>5. row \in Columns /\ row.status = columns[p].status /\ row.version = version
    <3> HIDE DEF version
    <3> QED BY <1>4, <2>2, <2>3, <2>4
  <2> QED BY <2>1, <2>5
<1>6. new \in SourceRow /\ new.version = version /\ new.kind \in SourceKinds
  BY <1>2, <1>4 DEF SourceRow, Columns
<1> HIDE DEF new, version
<1>7. /\ columns' \in [Profile -> Columns] /\ source' \in [Profile -> SourceRow]
      /\ columns'[p] = row /\ source'[p] = new
      /\ \A q \in Profile \ {p} : columns'[q] = columns[q] /\ source'[q] = source[q]
  BY <1>2, <1>3, <1>5, <1>6, Unwritten
<1>8. access' \subseteq Admin \X Profile
  BY <1>2, <1>3, AssignedTypes DEF IInv
<1>9. \A q \in Profile : columns'[q].status = "live" =>
         source'[q].kind \in SourceKinds /\ source'[q].version = columns'[q].version
  BY <1>5, <1>6, <1>7, Unwritten
<1>10. \A q \in Profile : columns'[q] # columns[q] \/ source'[q] # source[q] =>
          q \in Held(s) \/ columns[q].status = "none"
  BY <1>1, <1>7
<1>11. /\ \A q \in Profile : columns[q].status # "none" => columns'[q].status # "none"
       /\ \A q \in Profile : columns[q].status = "none" =>
             \/ columns'[q].status = "none"
             \/ session[s].op.op = "create" /\ session[s].op.profile = q
  BY <1>5, <1>7
<1>12. QueuedIsCurrent'
  BY <1>3 DEF IInv, QueuedIsCurrent
<1>13. admins' \in [Admin -> {"none", "enabled", "disabled", "deleted"}] /\ server' \in ServerRow
  BY <1>3, Unwritten
<1> HIDE DEF o, p
<1> QED BY <1>1, <1>3, <1>7, <1>8, <1>9, <1>10, <1>11, <1>12, <1>13, Writes

LEMMA EditKeeps ==
    ASSUME IInv, NEW s \in Session, CommitEdit(s)
    PROVE  IInv'
<1> DEFINE o == session[s].op
           p == o.profile
<1>1. /\ Working(s) /\ Ends(s) /\ o \in Operations /\ o.op = "edit" /\ p \in Held(s)
  BY AtCommit DEF CommitEdit, WithProfile
<1>2. p \in Profile /\ o.enabled \in BOOLEAN
  BY <1>1, OperationTypes DEF WithProfile
<1>3. /\ source' = source /\ access' = access /\ admins' = admins /\ server' = server
      /\ queued' = queued /\ begun' = begun
  BY DEF CommitEdit
<1>4. columns[p] \in Columns
  BY <1>2, Unwritten
<1>5. PICK row \in Columns : /\ row.status = columns[p].status
                             /\ row.version = columns[p].version
                             /\ columns' = [columns EXCEPT ![p] = row]
  <2> DEFINE row == [columns[p] EXCEPT
                        !.enabled = Written(session[s].columns.enabled, o.enabled, @)]
  <2>1. columns' = [columns EXCEPT ![p] = row]
    BY <1>2, <1>4, Unwritten DEF CommitEdit, Columns
  <2>2. Written(session[s].columns.enabled, o.enabled, columns[p].enabled) \in BOOLEAN
    BY <1>2, <1>4 DEF Written, Columns
  <2>3. ASSUME NEW c \in Columns, NEW e \in BOOLEAN
        PROVE  LET r == [c EXCEPT !.enabled = e]
               IN  r \in Columns /\ r.status = c.status /\ r.version = c.version
    BY DEF Columns
  <2>4. row \in Columns /\ row.status = columns[p].status /\ row.version = columns[p].version
    BY <1>4, <2>2, <2>3
  <2> QED BY <2>1, <2>4
<1>6. /\ columns' \in [Profile -> Columns] /\ columns'[p] = row
      /\ \A q \in Profile \ {p} : columns'[q] = columns[q]
  BY <1>2, <1>5, Unwritten
<1>7. \A q \in Profile : columns'[q].status = columns[q].status
                         /\ columns'[q].version = columns[q].version
  BY <1>5, <1>6
<1>8. HasRoot' = HasRoot
  BY <1>3, <1>7 DEF HasRoot, Live
<1>9. \A q \in Profile : columns'[q].status = "live" =>
         source'[q].kind \in SourceKinds /\ source'[q].version = columns'[q].version
  BY <1>3, <1>7, Unwritten
<1>10. \A q \in Profile : columns'[q] # columns[q] \/ source'[q] # source[q] =>
          q \in Held(s) \/ columns[q].status = "none"
  BY <1>1, <1>3, <1>6
<1>11. QueuedIsCurrent'
  BY <1>3 DEF IInv, QueuedIsCurrent
<1>12. /\ source' \in [Profile -> SourceRow] /\ access' \subseteq Admin \X Profile
       /\ admins' \in [Admin -> {"none", "enabled", "disabled", "deleted"}]
       /\ server' \in ServerRow
  BY <1>3, Unwritten
<1> HIDE DEF o, p
<1> QED BY <1>1, <1>3, <1>6, <1>7, <1>8, <1>9, <1>10, <1>11, <1>12, Writes

LEMMA DeleteKeeps ==
    ASSUME IInv, NEW s \in Session, CommitDelete(s)
    PROVE  IInv'
<1> DEFINE o == session[s].op
           p == o.profile
<1>1. /\ Working(s) /\ Ends(s) /\ o \in Operations /\ o.op = "delete" /\ p \in Held(s)
  BY AtCommit DEF CommitDelete, WithProfile
<1>2. p \in Profile
  BY <1>1, OperationTypes DEF WithProfile
<1>3. /\ source' \in {source, [source EXCEPT ![p] = NoSource]}
      /\ access' = Assigned(p, {}) /\ admins' = admins /\ server' = server
      /\ queued' = queued /\ begun' = begun
  BY DEF CommitDelete
<1>4. columns[p] \in Columns
  BY <1>2, Unwritten
<1>5. PICK row \in Columns : /\ row.status = "archived"
                             /\ columns' = [columns EXCEPT ![p] = row]
  <2> DEFINE row == [columns[p] EXCEPT !.status = "archived",
                        !.enabled = Written(session[s].columns.enabled, FALSE, @)]
  <2>1. columns' = [columns EXCEPT ![p] = row]
    BY <1>2, <1>4, Unwritten DEF CommitDelete, Columns
  <2>2. Written(session[s].columns.enabled, FALSE, columns[p].enabled) \in BOOLEAN
    BY <1>2, <1>4 DEF Written, Columns
  <2>3. ASSUME NEW c \in Columns, NEW e \in BOOLEAN
        PROVE  LET r == [c EXCEPT !.status = "archived", !.enabled = e]
               IN  r \in Columns /\ r.status = "archived"
    BY DEF Columns
  <2>4. row \in Columns /\ row.status = "archived"
    BY <1>4, <2>2, <2>3
  <2> QED BY <2>1, <2>4
<1>6. /\ columns' \in [Profile -> Columns] /\ columns'[p] = row
      /\ \A q \in Profile \ {p} : columns'[q] = columns[q]
  BY <1>2, <1>5, Unwritten
<1>7. NoSource \in SourceRow
  BY DEF NoSource, SourceRow
<1>8. /\ source' \in [Profile -> SourceRow]
      /\ \A q \in Profile \ {p} : source'[q] = source[q]
  BY <1>2, <1>3, <1>7, Unwritten
<1>9. HasRoot' \subseteq HasRoot
  BY <1>5, <1>6, <1>8 DEF HasRoot, Live
<1>10. \A q \in Profile : columns'[q].status = "live" =>
         source'[q].kind \in SourceKinds /\ source'[q].version = columns'[q].version
  BY <1>5, <1>6, <1>8, Unwritten
<1>11. \A q \in Profile : columns'[q] # columns[q] \/ source'[q] # source[q] =>
          q \in Held(s) \/ columns[q].status = "none"
  BY <1>1, <1>6, <1>8
<1>12. ProfilesThere(s)
  BY AtCommit DEF CommitDelete
<1>13. /\ \A q \in Profile : columns[q].status # "none" => columns'[q].status # "none"
       /\ \A q \in Profile : columns[q].status = "none" => columns'[q].status = "none"
  BY <1>1, <1>5, <1>6, <1>12 DEF ProfilesThere, WithProfile
<1>14. QueuedIsCurrent'
  BY <1>3 DEF IInv, QueuedIsCurrent
<1>15. access' \subseteq Admin \X Profile
  BY <1>2, <1>3, AssignedTypes DEF IInv
<1>16. /\ admins' \in [Admin -> {"none", "enabled", "disabled", "deleted"}]
       /\ server' \in ServerRow
  BY <1>3, Unwritten
<1> HIDE DEF o, p
<1> QED BY <1>1, <1>3, <1>6, <1>8, <1>9, <1>10, <1>11, <1>13, <1>14, <1>15, <1>16, Writes

\* Commits that write neither a profile nor its source.
LEMMA OtherWrites ==
    ASSUME IInv, NEW s \in Session, Working(s), Ends(s), begun' = begun,
           columns' = columns, source' = source,
           access' \subseteq Admin \X Profile,
           admins' \in [Admin -> {"none", "enabled", "disabled", "deleted"}],
           server' \in ServerRow, server' # server => "server" \in Held(s),
           QueuedIsCurrent'
    PROVE  IInv'
<1>1. HasRoot' = HasRoot
  BY DEF HasRoot, Live
<1>2. /\ columns' \in [Profile -> Columns] /\ source' \in [Profile -> SourceRow]
      /\ \A p \in Profile : columns'[p].status = "live" =>
            source'[p].kind \in SourceKinds /\ source'[p].version = columns'[p].version
  BY Unwritten
<1> QED BY <1>1, <1>2, Writes

LEMMA AccessKeeps ==
    ASSUME IInv, NEW s \in Session,
           CommitAssignAdmins(s) \/ CommitAssign(s) \/ CommitCreateAdmin(s) \/ CommitAdmin(s)
    PROVE  IInv'
<1> DEFINE o == session[s].op
           states == {"none", "enabled", "disabled", "deleted"}
<1>1. /\ columns' = columns /\ source' = source /\ server' = server /\ queued' = queued
      /\ begun' = begun
  BY DEF CommitAssignAdmins, CommitAssign, CommitCreateAdmin, CommitAdmin
<1>2. QueuedIsCurrent'
  BY <1>1 DEF IInv, QueuedIsCurrent
<1>3. /\ access \subseteq Admin \X Profile /\ admins \in [Admin -> states]
      /\ server \in ServerRow
  BY Unwritten
<1>4. CASE CommitAssignAdmins(s)
  <2>1. Working(s) /\ Ends(s) /\ o \in Operations /\ o.op = "assign_admins"
    BY <1>4, AtCommit DEF CommitAssignAdmins
  <2>2. o.profile \in Profile /\ o.admins \in SUBSET Admin
    BY <2>1, OperationTypes DEF WithProfile
  <2>3. access' = Assigned(o.profile, o.admins) /\ admins' = admins
    BY <1>4 DEF CommitAssignAdmins
  <2>4. access' \subseteq Admin \X Profile
    BY <2>2, <2>3, AssignedTypes DEF IInv
  <2> QED BY <1>1, <1>2, <1>3, <2>1, <2>3, <2>4, OtherWrites
<1>5. CASE CommitAssign(s)
  <2>1. Working(s) /\ Ends(s) /\ o \in Operations /\ o.op = "assign"
    BY <1>5, AtCommit DEF CommitAssign
  <2>2. o.admin \in Admin /\ o.profiles \in SUBSET Profile
    BY <2>1, OperationTypes
  <2>3. /\ access' = {pair \in access : pair[1] # o.admin} \union ({o.admin} \X o.profiles)
        /\ admins' = admins
    BY <1>5 DEF CommitAssign
  <2>4. access' \subseteq Admin \X Profile
    BY <1>3, <2>2, <2>3
  <2> QED BY <1>1, <1>2, <1>3, <2>1, <2>3, <2>4, OtherWrites
<1>6. CASE CommitCreateAdmin(s)
  <2>1. Working(s) /\ Ends(s) /\ o \in Operations /\ o.op = "create_admin"
    BY <1>6, AtCommit DEF CommitCreateAdmin
  <2>2. o.admin \in Admin /\ o.profiles \in SUBSET Profile
    BY <2>1, OperationTypes
  <2>3. /\ access' = access \union ({o.admin} \X o.profiles)
        /\ admins' = [admins EXCEPT ![o.admin] = "enabled"]
    BY <1>6 DEF CommitCreateAdmin
  <2>4. access' \subseteq Admin \X Profile /\ admins' \in [Admin -> states]
    BY <1>3, <2>2, <2>3
  <2> QED BY <1>1, <1>2, <1>3, <2>1, <2>4, OtherWrites
<1>7. CASE CommitAdmin(s)
  <2>1. Working(s) /\ Ends(s)
    BY <1>7, AtCommit DEF CommitAdmin
  <2>2. admins' \in [Admin -> states] /\ access' \in SUBSET access
    <3>1. CASE o.op = "delete_admin"
      BY <1>3, <1>7, <3>1 DEF CommitAdmin
    <3>2. CASE o.op # "delete_admin"
      BY <1>3, <1>7, <3>2 DEF CommitAdmin
    <3> QED BY <3>1, <3>2
  <2>3. access' \subseteq Admin \X Profile
    BY <1>3, <2>2
  <2> QED BY <1>1, <1>2, <1>3, <2>1, <2>2, <2>3, OtherWrites
<1> QED BY <1>4, <1>5, <1>6, <1>7

LEMMA ServerKeeps ==
    ASSUME IInv, NEW s \in Session, CommitServer(s) \/ CommitServerStatus(s)
    PROVE  IInv'
<1>1. /\ columns' = columns /\ source' = source /\ access' = access /\ admins' = admins
      /\ queued' = queued /\ begun' = begun
  BY DEF CommitServer, CommitServerStatus
<1>2. QueuedIsCurrent'
  BY <1>1 DEF IInv, QueuedIsCurrent
<1>3. Working(s) /\ Ends(s) /\ "server" \in Held(s)
  BY AtCommit DEF CommitServer, CommitServerStatus, WithServer
<1>4. server \in ServerRow
  BY Unwritten
<1>5. server' \in ServerRow
  <2>1. CASE CommitServer(s)
    BY <1>4, <2>1 DEF CommitServer, ServerRow
  <2>2. CASE CommitServerStatus(s)
    BY <1>4, <2>2 DEF CommitServerStatus, ServerRow
  <2> QED BY <2>1, <2>2
<1>6. /\ access' \subseteq Admin \X Profile
      /\ admins' \in [Admin -> {"none", "enabled", "disabled", "deleted"}]
  BY <1>1, Unwritten
<1> QED BY <1>1, <1>2, <1>3, <1>5, <1>6, OtherWrites

LEMMA TimezoneKeeps ==
    ASSUME IInv, NEW s \in Session, CommitTimezone(s)
    PROVE  IInv'
<1>1. /\ columns' = columns /\ source' = source /\ access' = access /\ admins' = admins
      /\ server' = server /\ queued' = queued /\ begun' = begun
  BY DEF CommitTimezone, data
<1>2. QueuedIsCurrent'
  BY <1>1 DEF IInv, QueuedIsCurrent
<1>3. Working(s) /\ Ends(s)
  BY AtCommit DEF CommitTimezone
<1>4. /\ access' \subseteq Admin \X Profile /\ server' \in ServerRow
      /\ admins' \in [Admin -> {"none", "enabled", "disabled", "deleted"}]
  BY <1>1, Unwritten
<1> QED BY <1>1, <1>2, <1>3, <1>4, OtherWrites

LEMMA QueueKeeps ==
    ASSUME IInv, NEW s \in Session, CommitQueue(s)
    PROVE  IInv'
<1> DEFINE rec == session[s]
           p == rec.op.profile
<1>1. /\ Working(s) /\ Ends(s) /\ rec.op.op \in Queueing /\ Left(s) = {}
      /\ Fits(rec, Held(s)) /\ ReadsHold(s)
  BY AtCommit DEF CommitQueue, Queueing
<1>2. /\ columns' = columns /\ source' = source /\ access' = access /\ admins' = admins
      /\ server' = server /\ begun' = begun
      /\ queued' = [op |-> rec.op.op, snapshot |-> Snapshot(rec), committed |-> Committed(p),
                    admins |-> rec.admins, entitled |-> AdminsOf(p)]
  BY DEF CommitQueue
<1>3. QueueFits(rec, {}, Held(s))
  BY <1>1 DEF Fits, Left
<1>4. /\ rec.source = source[p]
      /\ rec.source.kind = "remote" => rec.server = server
      /\ rec.op.op # "retry" => rec.columns = columns[p]
  BY <1>1 DEF ReadsHold
<1>5. /\ rec.source.kind # "remote" => rec.server = Nothing
      /\ rec.op.op # "retry" => rec.columns.status = "live" /\ rec.columns.enabled
  BY <1>3 DEF QueueFits
<1>6. /\ queued'.op = rec.op.op
      /\ queued'.snapshot.columns = rec.columns /\ queued'.snapshot.source = rec.source
      /\ queued'.snapshot.server = rec.server
      /\ queued'.committed.columns = columns[p] /\ queued'.committed.source = source[p]
      /\ queued'.committed.server = IF source[p].kind = "remote" THEN server ELSE Nothing
      /\ queued'.snapshot = Snapshot(rec) /\ queued'.committed = Committed(p)
  BY <1>2 DEF Snapshot, Committed
<1>7. rec.server = IF source[p].kind = "remote" THEN server ELSE Nothing
  BY <1>4, <1>5
<1>8. rec.op.op # "retry" => Snapshot(rec) = Committed(p)
  BY <1>4, <1>7 DEF Snapshot, Committed
<1>9. QueuedIsCurrent'
  <2> HIDE DEF rec, p
  <2> QED BY <1>4, <1>5, <1>6, <1>7, <1>8 DEF QueuedIsCurrent
<1>10. /\ access' \subseteq Admin \X Profile
       /\ admins' \in [Admin -> {"none", "enabled", "disabled", "deleted"}]
       /\ server' \in ServerRow
  BY <1>2, Unwritten
<1> QED BY <1>1, <1>2, <1>9, <1>10, OtherWrites

-----------------------------------------------------------------------------
(* The theorems                                                            *)

LEMMA InitFits ==
    ASSUME Init
    PROVE  IInv
<1>1. PICK kind \in Kinds, others \in SUBSET (Profile \ {First}) :
         /\ columns = [p \in Profile |->
               [status |-> IF p \in others \union {First} THEN "live" ELSE "none",
                enabled |-> p \in others \union {First}, version |-> 0]]
         /\ source = [p \in Profile |->
               CASE p = First -> [kind |-> kind, version |-> 0]
                 [] p \in others ->
                       [kind |-> IF kind = "gitlab" THEN "remote" ELSE "gitlab", version |-> 0]
                 [] OTHER -> NoSource]
  BY DEF Init
<1>2. First \in Profile /\ kind \in SourceKinds /\ MaxOperations \in Nat
  BY Apart, CatalogueAssumption DEF First
<1>3. columns \in [Profile -> Columns]
  BY <1>1 DEF Columns
<1>4. ASSUME NEW p \in Profile
      PROVE  /\ source[p] \in SourceRow
             /\ Live(p) => source[p].kind \in SourceKinds /\ source[p].version = columns[p].version
  <2>1. CASE p = First
    <3>1. source[p] = [kind |-> kind, version |-> 0] /\ columns[p].version = 0
      BY <1>1, <2>1
    <3> QED BY <1>2, <3>1 DEF SourceRow
  <2>2. CASE p # First /\ p \in others
    <3>1. /\ source[p] = [kind |-> IF kind = "gitlab" THEN "remote" ELSE "gitlab", version |-> 0]
          /\ columns[p].version = 0
      BY <1>1, <2>2
    <3>2. source[p].kind \in SourceKinds /\ source[p].version = 0 /\ source[p] \in SourceRow
      BY <3>1 DEF SourceRow, SourceKinds
    <3> QED BY <3>1, <3>2
  <2>3. CASE p # First /\ p \notin others
    <3>1. source[p] = NoSource /\ columns[p].status = "none"
      BY <1>1, <2>3
    <3> QED BY <3>1 DEF SourceRow, NoSource, Live
  <2> QED BY <2>1, <2>2, <2>3
<1>5. source \in [Profile -> SourceRow]
  BY <1>1, <1>4
<1>6. PICK hired \in SUBSET Admin :
         /\ admins = [a \in Admin |-> IF a \in hired THEN "enabled" ELSE "none"]
         /\ access = hired \X {First}
  BY DEF Init
<1>7. /\ access \subseteq Admin \X Profile
      /\ admins \in [Admin -> {"none", "enabled", "disabled", "deleted"}]
  BY <1>2, <1>6
<1>8. /\ server = [status |-> "enabled", version |-> 0] /\ locked = [l \in Locks |-> Nothing]
      /\ session = [t \in Session |-> Idle] /\ queued = Nothing /\ begun = 0
  BY DEF Init
<1>9. Types
  BY <1>2, <1>3, <1>4, <1>5, <1>7, <1>8, IdleIsACopy DEF Types, ServerRow
<1>10. IdleHoldsNothing
  <2>1. Nothing \notin Session
    BY CatalogueAssumption
  <2> QED BY <1>8, <2>1 DEF IdleHoldsNothing, Held
<1>11. SessionsFit
  BY <1>8 DEF SessionsFit, Working
<1>12. QueuedIsCurrent
  BY <1>8 DEF QueuedIsCurrent
<1> QED BY <1>9, <1>10, <1>11, <1>12 DEF IInv

LEMMA StepKeeps ==
    ASSUME IInv, NEW s \in Session, Step(s)
    PROVE  IInv'
<1>1. CASE Lock(s)
  BY <1>1, LockKeeps
<1>2. CASE ReadsColumns(s) \/ ReloadsColumns(s) \/ ReadsServer(s) \/ ReadsAccess(s)
  BY <1>2, ReadsKeep
<1>3. CASE ReadsSource(s)
  BY <1>3, ReadsSourceKeeps
<1>4. CASE LocksSeveral(s)
  BY <1>4, LocksSeveralKeeps
<1>5. CASE Validates(s)
  BY <1>5, ValidatesKeeps
<1>6. CASE Aborts(s)
  BY <1>6, RefusesKeeps DEF Aborts
<1>7. CASE CommitCreate(s)
  BY <1>7, CreateKeeps
<1>8. CASE CommitUpdate(s)
  BY <1>8, UpdateKeeps
<1>9. CASE CommitEdit(s)
  BY <1>9, EditKeeps
<1>10. CASE CommitDelete(s)
  BY <1>10, DeleteKeeps
<1>11. CASE CommitAssignAdmins(s) \/ CommitAssign(s) \/ CommitCreateAdmin(s) \/ CommitAdmin(s)
  BY <1>11, AccessKeeps
<1>12. CASE CommitServer(s) \/ CommitServerStatus(s)
  BY <1>12, ServerKeeps
<1>13. CASE CommitQueue(s)
  BY <1>13, QueueKeeps
<1>14. CASE CommitTimezone(s)
  BY <1>14, TimezoneKeeps
<1> QED BY <1>1, <1>2, <1>3, <1>4, <1>5, <1>6, <1>7, <1>8, <1>9, <1>10, <1>11, <1>12, <1>13,
           <1>14
        DEF Step

LEMMA StutterKeeps ==
    ASSUME IInv, UNCHANGED vars
    PROVE  IInv'
<1>1. /\ columns' = columns /\ source' = source /\ access' = access /\ admins' = admins
      /\ server' = server /\ locked' = locked /\ session' = session /\ queued' = queued
      /\ begun' = begun
  BY DEF vars
<1>2. Types' /\ QueuedIsCurrent'
  BY <1>1 DEF IInv, Types, QueuedIsCurrent, Live
<1>3. \A s \in Session : Held(s)' = Held(s) /\ (Working(s)' <=> Working(s))
  BY <1>1 DEF Held, Working
<1>4. IdleHoldsNothing'
  BY <1>3 DEF IInv, IdleHoldsNothing
<1>5. ASSUME NEW s \in Session, Working(s)
      PROVE  SessionFits(s)' /\ ReadsHold(s)' /\ ProfilesThere(s)'
  <2>1. SessionFits(s) /\ ReadsHold(s) /\ ProfilesThere(s)
    BY <1>5 DEF IInv, SessionsFit
  <2>2. SessionFits(s)'
    BY <1>1, <1>3, <2>1 DEF SessionFits
  <2>3. ReadsHold(s)'
    BY <1>1, <2>1 DEF ReadsHold, Left, HasRoot, Live
  <2>4. ProfilesThere(s)'
    BY <1>1, <1>3, <2>1 DEF ProfilesThere
  <2> QED BY <2>2, <2>3, <2>4
<1> QED BY <1>2, <1>3, <1>4, <1>5 DEF IInv, SessionsFit

LEMMA NextKeeps ==
    ASSUME IInv, [Next]_vars
    PROVE  IInv'
<1>1. CASE Next
  <2>1. PICK s \in Session : Begin(s) \/ Step(s)
    BY <1>1 DEF Next
  <2> QED BY <2>1, BeginKeeps, StepKeeps
<1>2. CASE UNCHANGED vars
  BY <1>2, StutterKeeps
<1> QED BY <1>1, <1>2

\* What every session has left to do, holds and has read is consistent with its operation
\* and with what is committed, in every reachable state.
THEOREM Invariant == Spec => []IInv
<1>1. Init => IInv
  BY InitFits
<1>2. IInv /\ [Next]_vars => IInv'
  BY NextKeeps
<1> QED BY <1>1, <1>2, PTL DEF Spec

\* A run is queued with the profile's columns, its source and its server as they are
\* committed together at that moment; only a retry may have read the columns too early.
THEOREM QueuedAsCommitted == Spec => []QueuedIsCurrent
<1>1. IInv => QueuedIsCurrent
  BY DEF IInv
<1> QED BY <1>1, Invariant, PTL

\* A session that waits, what it waits for, and who holds that.
LEMMA Waiting ==
    ASSUME IInv, NEW s \in Session, Blocker(s) \in Session
    PROVE  /\ session[s].todo # <<>> /\ Head(session[s].todo) \in Locks
           /\ Head(session[s].todo) \in Held(Blocker(s))
           /\ Fits(session[s], Held(s))
           /\ Head(session[s].todo) \in Left(s)
<1>1. Nothing \notin Session
  BY CatalogueAssumption
<1>2. /\ session[s].todo # <<>> /\ Head(session[s].todo) \in Locks
      /\ Blocker(s) = locked[Head(session[s].todo)]
  BY <1>1 DEF Blocker
<1>3. Fits(session[s], Held(s)) /\ session[s] \in Copies
  BY <1>2, AtWork
<1>4. session[s].todo \in Seq(Statement) /\ Ordered(session[s].op, session[s].todo)
  BY <1>3 DEF Copies, Fits
<1>5. Head(session[s].todo) \in Range(session[s].todo)
  BY <1>2, <1>4, RestOf
<1> QED BY <1>2, <1>3, <1>5 DEF Held, Left

\* In a circle, whoever waits for a lock finds it held by another that waits for one that
\* comes later in its order; nobody waits for the server, which comes last.
LEMMA CircleOrder ==
    ASSUME IInv, NEW S \in SUBSET Session, Deadlocked(S), NEW s \in S
    PROVE  LET t == Blocker(s)
               l == Head(session[s].todo)
               m == Head(session[t].todo)
           IN  /\ t \in S /\ t # s /\ l \in Held(t) /\ l \in Locks /\ l # "server"
               /\ m \in Locks /\ m \in Left(t) /\ m \in Held(Blocker(t)) /\ Blocker(t) # t
               /\ LocksFit(session[t].op, Left(t), Held(t))
<1> DEFINE t == Blocker(s)
           l == Head(session[s].todo)
           m == Head(session[t].todo)
           o == session[t].op
<1>1. /\ t \in S \ {s} /\ t \in Session /\ Blocker(t) \in S \ {t} /\ Blocker(t) \in Session
      /\ s \in Session
  BY DEF Deadlocked
<1>2. l \in Held(t) /\ l \in Locks
  BY <1>1, Waiting
<1>3. /\ m \in Locks /\ m \in Left(t) /\ m \in Held(Blocker(t)) /\ Fits(session[t], Held(t))
  BY <1>1, Waiting
<1>4. LocksFit(o, Left(t), Held(t))
  BY <1>3 DEF Fits, Left
<1> HIDE DEF t, l, m, o
<1>5. ASSUME l = "server" PROVE FALSE
  <2>1. Before(o, "server", m)
    BY <1>2, <1>3, <1>4, <1>5 DEF LocksFit
  <2>2. Rank(o, "server") = 6 /\ Rank(o, m) \in {1, 3, 6} /\ "server" \notin Profile
    BY <1>3, Ranks, Named DEF Locks, LockNames
  <2> QED BY <2>1, <2>2 DEF Before
<1> QED BY <1>1, <1>2, <1>3, <1>4, <1>5 DEF t, l, m, o

\* Somebody in a circle waits for a profile: the settings come first.
LEMMA CircleOfProfiles ==
    ASSUME IInv, NEW S \in SUBSET Session, Deadlocked(S)
    PROVE  \E s \in S : Head(session[s].todo) \in Profile
<1>1. PICK s \in S : TRUE
  BY DEF Deadlocked
<1> DEFINE t == Blocker(s)
           l == Head(session[s].todo)
           m == Head(session[t].todo)
           o == session[t].op
<1>2. /\ t \in S /\ l \in Held(t) /\ l \in Locks /\ l # "server"
      /\ m \in Left(t) /\ LocksFit(o, Left(t), Held(t))
  BY CircleOrder
<1>3. m \in Locks /\ m # "server"
  BY <1>2, CircleOrder
<1>4. Before(o, l, m)
  BY <1>2 DEF LocksFit
<1>5. CASE l \in Profile
  BY <1>5
<1>6. CASE l \notin Profile
  <2> HIDE DEF t, l, m, o
  <2>1. l = "settings"
    BY <1>2, <1>6 DEF Locks, LockNames
  <2>2. Rank(o, "settings") = 1 /\ "settings" \notin Profile
    BY Ranks, Named
  <2>3. m # "settings"
    BY <1>4, <2>1, <2>2 DEF Before
  <2>4. m \in Profile
    BY <1>3, <2>3 DEF Locks, LockNames
  <2> QED BY <1>2, <2>4 DEF m
<1> QED BY <1>5, <1>6

\* A session in a circle that holds a profile for which another waits locks several: one
\* that locks its own profile alone would wait for itself.
LEMMA HolderSweeps ==
    ASSUME IInv, NEW S \in SUBSET Session, Deadlocked(S),
           NEW s \in S, Head(session[s].todo) \in Profile
    PROVE  LET t == Blocker(s)
           IN  /\ t \in S /\ t # s /\ Head(session[t].todo) \in Profile
               /\ session[t].op.op \in Sweeping
               /\ session[t].op.op \in Scheduling => "settings" \in Held(t)
<1> DEFINE t == Blocker(s)
           l == Head(session[s].todo)
           m == Head(session[t].todo)
           o == session[t].op
<1>1. /\ t \in S /\ t # s /\ l \in Held(t) /\ l \in Profile /\ m \in Locks
      /\ m \in Left(t) /\ m \in Held(Blocker(t)) /\ Blocker(t) # t
      /\ LocksFit(o, Left(t), Held(t))
  BY CircleOrder
<1>2. m # "server"
  BY <1>1, CircleOrder
<1> HIDE DEF t, l, m, o
<1>3. \A x \in Left(t) : Before(o, l, x)
  BY <1>1 DEF LocksFit
<1>4. Rank(o, l) = 3 /\ Rank(o, "settings") = 1 /\ "settings" \notin Profile
  BY <1>1, Ranks, Named
<1>5. m # "settings" /\ "settings" \notin Left(t)
  BY <1>1, <1>3, <1>4 DEF Before
<1>6. o.op \in Scheduling => "settings" \in Held(t)
  BY <1>1, <1>5 DEF LocksFit, WithSettings, Scheduling
<1>7. m \in Profile
  BY <1>1, <1>2, <1>5 DEF Locks, LockNames
<1>8. o.op \in Sweeping
  <2>1. ASSUME o.op \notin Sweeping PROVE FALSE
    <3>1. l = m
      BY <1>1, <1>7, <2>1 DEF LocksFit
    <3>2. Blocker(t) = t
      BY <1>1, <3>1 DEF Held
    <3> QED BY <1>1, <3>2
  <2> QED BY <2>1
<1> QED BY <1>1, <1>6, <1>7, <1>8 DEF t, m, o

\* In a circle there are two that lock several profiles, and not both are ticks or changes
\* of the timezone, which lock the settings first.
LEMMA CircleNeedsTwoSweeps ==
    ASSUME IInv
    PROVE  DeadlockNeedsTwoSweeps
<1> SUFFICES ASSUME NEW S \in SUBSET Session, Deadlocked(S)
             PROVE  \E s, t \in S : /\ s # t
                                    /\ session[s].op.op = "assign"
                                    /\ session[t].op.op \in
                                          {"assign", "scheduled", "set_timezone"}
  BY DEF DeadlockNeedsTwoSweeps
<1>1. PICK s \in S : Head(session[s].todo) \in Profile
  BY CircleOfProfiles
<1> DEFINE t == Blocker(s)
           u == Blocker(t)
<1>2. /\ t \in S /\ Head(session[t].todo) \in Profile /\ session[t].op.op \in Sweeping
      /\ session[t].op.op \in Scheduling => "settings" \in Held(t)
  BY <1>1, HolderSweeps
<1>3. /\ u \in S /\ u # t /\ session[u].op.op \in Sweeping
      /\ session[u].op.op \in Scheduling => "settings" \in Held(u)
  BY <1>2, HolderSweeps
<1> HIDE DEF t, u
<1>4. ~(session[t].op.op \in Scheduling /\ session[u].op.op \in Scheduling)
  BY <1>2, <1>3 DEF Held
<1> QED BY <1>2, <1>3, <1>4 DEF Sweeping, Scheduling

\* The catalogue is well-typed, the sessions hold only locks that exist and release them
\* when they end, and operations wait in a circle only where an assignment locks several
\* profiles in one statement while a tick, a change of the timezone or another assignment
\* does.
THEOREM Sound == Spec => []CatalogueInv
<1>1. IInv => CatalogueTypeOK
  <2> SUFFICES ASSUME IInv PROVE CatalogueTypeOK
    OBVIOUS
  <2>1. \A p \in Profile : columns[p] \in Columns
    BY Unwritten
  <2>2. \A s \in Session : session[s] = Idle => \A l \in Locks : locked[l] # s
    BY DEF IInv, IdleHoldsNothing, Working, Held
  <2>3. /\ \A p \in Profile :
              Live(p) => source[p].kind \in SourceKinds /\ source[p].version = columns[p].version
        /\ access \subseteq Admin \X Profile
        /\ \A a \in Admin : admins[a] \in {"none", "enabled", "disabled", "deleted"}
        /\ server.status \in {"enabled", "disabled", "deleted"} /\ server.version \in Nat
        /\ \A l \in Locks : locked[l] \in Session \union {Nothing}
        /\ begun \in 0 .. MaxOperations
    BY DEF IInv, Types, ServerRow
  <2> QED BY <2>1, <2>2, <2>3 DEF CatalogueTypeOK, Columns
<1>2. IInv => CatalogueInv
  BY <1>1, CircleNeedsTwoSweeps DEF CatalogueInv
<1> QED BY <1>2, Invariant, PTL

-----------------------------------------------------------------------------
(* GitLab roots                                                            *)

\* Only a creation adds a profile with a root while there is one; a reconfiguration has
\* found, under the settings, that no other profile has one.
LEMMA StepJoinsNoRoot ==
    ASSUME IInv, NEW s \in Session, Begin(s) \/ Step(s), HasRoot # {}
    PROVE  CommitCreate(s) \/ HasRoot' \subseteq HasRoot
<1>1. CASE CommitUpdate(s)
  <2> DEFINE o == session[s].op
             p == o.profile
  <2>1. /\ o.op = "update" /\ ReadsHold(s) /\ Left(s) = {} /\ o \in Operations
    BY <1>1, AtCommit DEF CommitUpdate
  <2>2. p \in Profile
    BY <2>1, OperationTypes DEF WithProfile
  <2>3. o.kind = "gitlab" => HasRoot \subseteq {p}
    BY <2>1 DEF ReadsHold
  <2>4. \A q \in Profile : columns'[q].status = columns[q].status
    <3>1. PICK v, e : columns' = [columns EXCEPT ![p].version = v, ![p].enabled = e]
      BY <1>1 DEF CommitUpdate
    <3>2. columns \in [Profile -> Columns]
      BY Unwritten
    <3> QED BY <2>2, <3>1, <3>2 DEF Columns
  <2>5. PICK v : source' = [source EXCEPT ![p] = [kind |-> o.kind, version |-> v]]
    BY <1>1 DEF CommitUpdate
  <2>6. /\ source'[p].kind = o.kind
        /\ \A q \in Profile \ {p} : source'[q] = source[q]
    BY <2>2, <2>5, Unwritten
  <2>7. CASE o.kind = "gitlab"
    <3>1. HasRoot = {p}
      BY <2>3, <2>7
    <3> QED BY <2>4, <2>6, <3>1 DEF HasRoot, Live
  <2>8. CASE o.kind # "gitlab"
    BY <2>4, <2>6, <2>8 DEF HasRoot, Live
  <2> QED BY <2>7, <2>8
<1>2. CASE CommitDelete(s)
  <2> DEFINE p == session[s].op.profile
  <2>1. session[s].op.op = "delete" /\ session[s].op \in Operations
    BY <1>2, AtCommit DEF CommitDelete
  <2>2. p \in Profile
    BY <2>1, OperationTypes DEF WithProfile
  <2>3. /\ columns'[p].status = "archived"
        /\ \A q \in Profile \ {p} : columns'[q] = columns[q]
    <3>1. PICK e : columns' = [columns EXCEPT ![p].status = "archived", ![p].enabled = e]
      BY <1>2 DEF CommitDelete
    <3>2. columns \in [Profile -> Columns]
      BY Unwritten
    <3> QED BY <2>2, <3>1, <3>2 DEF Columns
  <2>4. \A q \in Profile \ {p} : source'[q] = source[q]
    BY <1>2, <2>2, Unwritten DEF CommitDelete
  <2> QED BY <2>3, <2>4 DEF HasRoot, Live
<1>3. CASE CommitEdit(s)
  <2>1. \A q \in Profile : columns'[q].status = columns[q].status
    BY <1>3, Unwritten DEF CommitEdit, Columns
  <2>2. source' = source
    BY <1>3 DEF CommitEdit
  <2> QED BY <2>1, <2>2 DEF HasRoot, Live
<1>4. CASE columns' = columns /\ source' = source
  BY <1>4 DEF HasRoot, Live
<1>5. CASE CommitCreate(s)
  BY <1>5
<1>6. \/ CommitCreate(s) \/ CommitUpdate(s) \/ CommitDelete(s) \/ CommitEdit(s)
      \/ columns' = columns /\ source' = source
  <2>1. CASE Begin(s)
    BY <2>1 DEF Begin, data
  <2>2. CASE Refuses(s)
    BY <2>2 DEF Refuses, data
  <2>3. CASE \/ Lock(s) \/ ReadsColumns(s) \/ ReloadsColumns(s) \/ ReadsSource(s)
             \/ ReadsServer(s) \/ ReadsAccess(s) \/ LocksSeveral(s) \/ Validates(s) \/ Aborts(s)
    BY <2>2, <2>3 DEF Lock, ReadsColumns, ReloadsColumns, ReadsSource, ReadsServer, ReadsAccess,
                      LocksSeveral, Validates, Aborts, data
  <2>4. CASE \/ CommitAssignAdmins(s) \/ CommitAssign(s) \/ CommitCreateAdmin(s)
             \/ CommitAdmin(s) \/ CommitServer(s) \/ CommitServerStatus(s) \/ CommitTimezone(s)
             \/ CommitQueue(s)
    BY <2>4 DEF CommitAssignAdmins, CommitAssign, CommitCreateAdmin, CommitAdmin, CommitServer,
                CommitServerStatus, CommitTimezone, CommitQueue, data
  <2> QED BY <2>1, <2>3, <2>4 DEF Step
<1> QED BY <1>1, <1>2, <1>3, <1>4, <1>5, <1>6

LEMMA NextJoinsNoRoot ==
    ASSUME IInv, [Next]_vars, Cardinality(HasRoot') > Cardinality(HasRoot), HasRoot # {}
    PROVE  \E s \in Session : /\ session[s] # Idle /\ session[s].op.op = "create"
                              /\ session'[s] = Idle
<1>1. IsFiniteSet(HasRoot) /\ Cardinality(HasRoot) \in Nat
  BY Apart, FS_Subset, FS_CardinalityType DEF HasRoot
<1>2. ~(HasRoot' \subseteq HasRoot)
  <2>1. ASSUME HasRoot' \subseteq HasRoot PROVE FALSE
    <3> DEFINE after == HasRoot'
    <3>1. after \in SUBSET HasRoot
      BY <2>1
    <3> HIDE DEF after
    <3>2. Cardinality(after) <= Cardinality(HasRoot) /\ Cardinality(after) \in Nat
      BY <1>1, <3>1, FS_Subset, FS_CardinalityType
    <3> QED BY <1>1, <3>2 DEF after
  <2> QED BY <2>1
<1>3. CASE UNCHANGED vars
  BY <1>2, <1>3 DEF vars, HasRoot, Live
<1>4. CASE Next
  <2>1. PICK s \in Session : Begin(s) \/ Step(s)
    BY <1>4 DEF Next
  <2>2. CommitCreate(s)
    BY <1>2, <2>1, StepJoinsNoRoot
  <2>3. session \in [Session -> Copies]
    BY DEF IInv, Types
  <2> QED BY <2>2, <2>3 DEF CommitCreate, Commits, Ends
<1> QED BY <1>3, <1>4

\* A GitLab root that one profile has is joined by another one only when that is created: a
\* reconfiguration is validated under the settings, which nobody else can hold.
THEOREM JoinedOnlyAtCreation == Spec => RootJoinedAtCreation
<1>1. IInv /\ [Next]_vars =>
         [Cardinality(HasRoot') > Cardinality(HasRoot) /\ HasRoot # {} =>
             \E s \in Session : /\ session[s] # Idle /\ session[s].op.op = "create"
                                /\ session'[s] = Idle]_vars
  BY NextJoinsNoRoot
<1> QED BY <1>1, Invariant, PTL DEF Spec, RootJoinedAtCreation
=============================================================================
