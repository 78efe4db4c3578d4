---------------------------- MODULE Wizard_proofs ----------------------------
(***************************************************************************)
(* Proofs about Wizard, for all servers, administrators and profiles and   *)
(* for users who turn back as often as they like.                          *)
(*                                                                         *)
(* A draft may hold remnants of answers that were taken back.  The states  *)
(* have an order in which every path passes them (Rank), and a field is    *)
(* asked for at one place of it (Asks).  So what was answered before a     *)
(* state is not touched at or after it: the answers that stand are in the  *)
(* draft as they were given (Stands), and every field that they ask for    *)
(* has been answered when its place is passed (Reached).                   *)
(***************************************************************************)
EXTENDS Wizard, SequenceTheorems, TLAPS

Answers == BOOLEAN \union Server \union Replies

Drafts == UNION {[D -> Answers] : D \in SUBSET Fields}

ServerFields == {"artifact_server", "server", "gl_server"}

\* The states in an order in which every path passes them.
Rank(s) ==
    CASE s = "NAME" -> 1 [] s = "SOURCE" -> 2 [] s = "ENGINE" -> 3 [] s = "TARGET" -> 4
      [] s = "PASSWORD" -> 5 [] s = "TLS" -> 6 [] s = "TLS_CA" -> 7 [] s = "MSSQL_DOCKER" -> 8
      [] s = "MSSQL_PATH" -> 9 [] s = "MSSQL_HOST_PATH" -> 10 [] s = "MSSQL_SERVER" -> 11
      [] s = "FILES_LOCATION" -> 12 [] s = "FILES_SERVER" -> 13 [] s = "FILES_PATHS" -> 14
      [] s = "GITLAB_LOCATION" -> 15 [] s = "GITLAB_SERVER" -> 16
      [] s = "GITLAB_CONTAINER" -> 17 [] s = "GITLAB_REMOTE_PATH" -> 18
      [] s = "SCHEDULE" -> 19 [] s = "INTERVAL" -> 20 [] s = "SCHEDULE_VALUE" -> 21
      [] s = "ARCHIVE" -> 22 [] s = "COMPRESSION" -> 23 [] s = "PRESET" -> 24
      [] s = "ENCRYPTION" -> 25 [] s = "ENCRYPTION_SECRET" -> 26 [] s = "ADMINS" -> 27
      [] s = "CONFIRM" -> 28

\* The rank of the last state that asks for a field.
Asks(f) ==
    CASE f = "source" -> 2 [] f = "engine" -> 3 [] f = "preservable" -> 3
      [] f = "keep_password" -> 5 [] f = "tls" -> 6 [] f = "ca" -> 7 [] f = "docker" -> 8
      [] f = "path" -> 9 [] f = "host_path" -> 10 [] f = "artifact_server" -> 11
      [] f = "location" -> 12 [] f = "server" -> 13 [] f = "paths" -> 14
      [] f = "gl_location" -> 15 [] f = "gl_server" -> 16 [] f = "gl_path" -> 18
      [] f = "schedule" -> 21 [] f = "compression" -> 24 [] f = "encryption" -> 25
      [] f = "keep_age" -> 26

DatabaseSteps == {"ENGINE", "TARGET", "PASSWORD", "TLS", "TLS_CA", "MSSQL_DOCKER",
                  "MSSQL_PATH", "MSSQL_HOST_PATH", "MSSQL_SERVER"}
FilesSteps    == {"FILES_LOCATION", "FILES_SERVER", "FILES_PATHS"}
GitlabSteps   == {"GITLAB_LOCATION", "GITLAB_SERVER", "GITLAB_CONTAINER", "GITLAB_REMOTE_PATH"}

\* The answers c ask for field f.
Asked(c, f) ==
    CASE f \in {"source", "schedule", "compression", "encryption"} -> TRUE
      [] f = "keep_age" -> Get(c, "encryption") = "PASSPHRASE"
      [] f \in {"engine", "preservable", "keep_password", "tls"} -> Source(c) = "DATABASE"
      [] f = "ca" -> Source(c) = "DATABASE" /\ Get(c, "tls") = TRUE
      [] f \in {"docker", "path"} -> Source(c) = "DATABASE" /\ Get(c, "engine") = "MSSQL"
      [] f = "host_path" -> Source(c) = "DATABASE" /\ Get(c, "engine") = "MSSQL"
                            /\ Get(c, "docker") = TRUE
      [] f = "artifact_server" -> FALSE
      [] f \in {"location", "paths"} -> Source(c) = "FILES"
      [] f = "server" -> Source(c) = "FILES" /\ Get(c, "location") = "REMOTE"
      [] f = "gl_location" -> Source(c) = "GITLAB"
      [] f \in {"gl_server", "gl_path"} -> Source(c) = "GITLAB" /\ Get(c, "gl_location") = "REMOTE"

\* A state belongs to the source that was chosen, and a remote step to a remote place.
Belongs(s, c) ==
    /\ s \notin {"NAME", "SOURCE"} => Source(c) \in {"DATABASE", "FILES", "GITLAB"}
    /\ s \in DatabaseSteps => Source(c) = "DATABASE"
    /\ s \in FilesSteps    => Source(c) = "FILES"
    /\ s \in GitlabSteps   => Source(c) = "GITLAB"
    /\ s \in {"GITLAB_SERVER", "GITLAB_REMOTE_PATH"} => Get(c, "gl_location") = "REMOTE"
    /\ Source(c) = "GITLAB" /\ Rank(s) > 15 => Get(c, "gl_location") \in {"LOCAL", "REMOTE"}

\* A password is kept only for a database of the engine that was chosen.
Keeping(c, o) ==
    /\ Get(c, "keep_password") = TRUE => Get(c, "preservable") = TRUE
    /\ Get(c, "preservable") = TRUE =>
          o # Nothing /\ o.source = "DATABASE" /\ o.engine = Get(c, "engine")

\* The answers c lead to state s: they answer what comes before it, if it was asked for.
Reached(s, c, o) ==
    /\ \A f \in Fields : Get(c, f) # Nothing => Asks(f) < Rank(s)
    /\ \A f \in Fields : Asked(c, f) /\ Asks(f) < Rank(s) => Get(c, f) # Nothing
    /\ Belongs(s, c)
    /\ Keeping(c, o)

\* The draft has the answers c, and nothing of a server if GitLab is local.
Stands(c, d) ==
    /\ \A f \in Fields : Get(c, f) # Nothing => Get(d, f) = Get(c, f)
    /\ Get(c, "gl_location") = "LOCAL" =>
          Get(d, "gl_server") = Nothing /\ Get(d, "gl_path") = Nothing

Path == Append(history, state)

Ordered == \A i, j \in 1 .. Len(Path) : i < j => Rank(Path[i]) < Rank(Path[j])

PathIsSound ==
    /\ Ordered
    /\ \A k \in 1 .. Len(Path) : Reached(Path[k], clean[k], original) /\ Stands(clean[k], draft)

IInv ==
    /\ WizardTypeOK
    /\ draft \in Drafts
    /\ clean \in Seq(Drafts)
    /\ state = Nothing => history = <<>> /\ draft = Empty /\ clean = <<>>
    /\ state # Nothing => PathIsSound

-----------------------------------------------------------------------------
(* Drafts.                                                                 *)

\* What a step writes: answers, or Nothing for a field that it takes back.
IsAnswer(a) ==
    /\ DOMAIN a \subseteq Fields
    /\ a = [f \in DOMAIN a |-> a[f]]
    /\ \A f \in DOMAIN a : a[f] \in Answers \union {Nothing}
    /\ \A f \in ServerFields \intersect DOMAIN a : a[f] \in Server \union {Nothing}

\* Nothing is not an answer.
LEMMA NothingIsNone == Nothing \notin Answers
  BY WizardAssumption DEF Answers

\* A draft holds answers to its fields.
LEMMA DraftIs ==
    ASSUME NEW d
    PROVE  d \in Drafts <=> /\ d = [f \in DOMAIN d |-> d[f]]
                            /\ DOMAIN d \subseteq Fields
                            /\ \A f \in DOMAIN d : d[f] \in Answers
<1>1. ASSUME d \in Drafts
      PROVE  /\ d = [f \in DOMAIN d |-> d[f]]
             /\ DOMAIN d \subseteq Fields
             /\ \A f \in DOMAIN d : d[f] \in Answers
  <2>1. PICK D \in SUBSET Fields : d \in [D -> Answers]
    BY <1>1 DEF Drafts
  <2> QED BY <2>1
<1>2. ASSUME d = [f \in DOMAIN d |-> d[f]], DOMAIN d \subseteq Fields,
             \A f \in DOMAIN d : d[f] \in Answers
      PROVE  d \in Drafts
  <2>1. d \in [DOMAIN d -> Answers]
    BY <1>2
  <2> QED BY <2>1, <1>2 DEF Drafts
<1> QED BY <1>1, <1>2

\* A field is in a draft exactly if it has a value.
LEMMA GetIs ==
    ASSUME NEW d \in Drafts, NEW f
    PROVE  /\ f \in DOMAIN d <=> Get(d, f) # Nothing
           /\ Get(d, f) # Nothing => f \in Fields /\ Get(d, f) \in Answers /\ d[f] = Get(d, f)
  BY DraftIs, NothingIsNone DEF Get

\* The empty draft.
LEMMA EmptyIs ==
    Empty \in Drafts /\ IsAnswer(Empty) /\ DOMAIN Empty = {} /\ \A f : Get(Empty, f) = Nothing
<1>1. DOMAIN Empty = {} /\ Empty = [f \in DOMAIN Empty |-> Empty[f]]
  BY DEF Empty
<1>2. Empty \in Drafts
  BY <1>1, DraftIs
<1> QED BY <1>1, <1>2 DEF Get, IsAnswer

\* An answer replaces its fields and leaves the others.
LEMMA PutIs ==
    ASSUME NEW d \in Drafts, NEW a, IsAnswer(a)
    PROVE  /\ Put(d, a) \in Drafts
           /\ \A f \in Fields :
                 Get(Put(d, a), f) = IF f \in DOMAIN a THEN a[f] ELSE Get(d, f)
<1> DEFINE value(f) == IF f \in DOMAIN a THEN a[f] ELSE d[f]
<1> DEFINE p == Put(d, a)
<1>1. p = [f \in {g \in DOMAIN a \union DOMAIN d : value(g) # Nothing} |-> value(f)]
  BY DEF Put
<1> HIDE DEF p
<1>2. /\ \A f : f \in DOMAIN p <=> f \in DOMAIN a \union DOMAIN d /\ value(f) # Nothing
      /\ \A f \in DOMAIN p : p[f] = value(f)
  BY <1>1
<1>5. p = [f \in DOMAIN p |-> p[f]]
  BY <1>1
<1>6. DOMAIN p \subseteq Fields /\ \A f \in DOMAIN p : p[f] \in Answers
  BY <1>2, DraftIs DEF IsAnswer
<1>7. p \in Drafts
  BY <1>5, <1>6, DraftIs
<1>8. ASSUME NEW f \in Fields
      PROVE  Get(p, f) = IF f \in DOMAIN a THEN a[f] ELSE Get(d, f)
  <2>1. CASE f \in DOMAIN a
    BY <2>1, <1>2 DEF Get
  <2>2. CASE f \notin DOMAIN a
    BY <2>2, <1>2, GetIs DEF Get
  <2> QED BY <2>1, <2>2
<1> QED BY <1>7, <1>8 DEF p

-----------------------------------------------------------------------------
(* Answers on a path.                                                      *)

\* At s, with the answers c, a writes what is asked for there or later: the location of
\* GitLab takes its server and path back, which are else written for a remote one.
Fits(a, s, c) ==
    /\ \A f \in DOMAIN a : Rank(s) <= Asks(f)
    /\ "gl_location" \in DOMAIN a =>
          /\ "gl_server" \in DOMAIN a /\ a["gl_server"] = Nothing
          /\ "gl_path" \in DOMAIN a /\ a["gl_path"] = Nothing
    /\ "gl_location" \notin DOMAIN a /\ ("gl_server" \in DOMAIN a \/ "gl_path" \in DOMAIN a) =>
          Get(c, "gl_location") = "REMOTE"

\* The answers p of a path that went on from s to new.
Leads(s, new, p, o) ==
    /\ Rank(s) < Rank(new)
    /\ \A f \in Fields : Rank(s) <= Asks(f) /\ Get(p, f) # Nothing => Asks(f) < Rank(new)
    /\ \A f \in Fields : Rank(s) <= Asks(f) /\ Asks(f) < Rank(new) /\ Asked(p, f) =>
          Get(p, f) # Nothing
    /\ Belongs(new, p)
    /\ Keeping(p, o)

\* Ranks are numbers.
LEMMA Ranks ==
    (\A s \in Steps : Rank(s) \in Nat) /\ (\A f \in Fields : Asks(f) \in Nat)
  BY DEF Steps, Fields, Rank, Asks

\* The place of each field.
LEMMA AsksTable ==
    /\ Asks("source") = 2 /\ Asks("engine") = 3 /\ Asks("preservable") = 3
    /\ Asks("keep_password") = 5 /\ Asks("tls") = 6 /\ Asks("ca") = 7 /\ Asks("docker") = 8
    /\ Asks("path") = 9 /\ Asks("host_path") = 10 /\ Asks("artifact_server") = 11
    /\ Asks("location") = 12 /\ Asks("server") = 13 /\ Asks("paths") = 14
    /\ Asks("gl_location") = 15 /\ Asks("gl_server") = 16 /\ Asks("gl_path") = 18
    /\ Asks("schedule") = 21 /\ Asks("compression") = 24 /\ Asks("encryption") = 25
    /\ Asks("keep_age") = 26
  BY DEF Asks

\* The place of each state.
LEMMA RankTable ==
    /\ Rank("NAME") = 1 /\ Rank("SOURCE") = 2 /\ Rank("ENGINE") = 3 /\ Rank("TARGET") = 4
    /\ Rank("PASSWORD") = 5 /\ Rank("TLS") = 6 /\ Rank("TLS_CA") = 7 /\ Rank("MSSQL_DOCKER") = 8
    /\ Rank("MSSQL_PATH") = 9 /\ Rank("MSSQL_HOST_PATH") = 10 /\ Rank("MSSQL_SERVER") = 11
    /\ Rank("FILES_LOCATION") = 12 /\ Rank("FILES_SERVER") = 13 /\ Rank("FILES_PATHS") = 14
    /\ Rank("GITLAB_LOCATION") = 15 /\ Rank("GITLAB_SERVER") = 16 /\ Rank("GITLAB_CONTAINER") = 17
    /\ Rank("GITLAB_REMOTE_PATH") = 18 /\ Rank("SCHEDULE") = 19 /\ Rank("INTERVAL") = 20
    /\ Rank("SCHEDULE_VALUE") = 21 /\ Rank("ARCHIVE") = 22 /\ Rank("COMPRESSION") = 23
    /\ Rank("PRESET") = 24 /\ Rank("ENCRYPTION") = 25 /\ Rank("ENCRYPTION_SECRET") = 26
    /\ Rank("ADMINS") = 27 /\ Rank("CONFIRM") = 28
  BY DEF Rank

\* An answer at s leaves what was answered before s: whether a field is asked for
\* depends on fields that are asked for earlier.
LEMMA AskedBefore ==
    ASSUME NEW c \in Drafts, NEW a, IsAnswer(a), NEW s \in Steps, NEW f \in Fields,
           \A g \in DOMAIN a : Rank(s) <= Asks(g), Asks(f) < Rank(s)
    PROVE  /\ Get(Put(c, a), f) = Get(c, f)
           /\ Asked(Put(c, a), f) <=> Asked(c, f)
<1> DEFINE p == Put(c, a)
<1>1. \A g \in Fields : Asks(g) < Rank(s) => Get(p, g) = Get(c, g)
  <2>1. TAKE g \in Fields
  <2>2. HAVE Asks(g) < Rank(s)
  <2>3. g \notin DOMAIN a
    BY <2>2, Ranks
  <2> QED BY <2>3, PutIs
<1> HIDE DEF p
<1>2. \A g \in Fields : Asks(g) <= Asks(f) => Get(p, g) = Get(c, g)
  BY <1>1, Ranks
<1>3. Asked(p, f) <=> Asked(c, f)
  <2>1. CASE f \in {"source", "schedule", "compression", "artifact_server"}
    BY <2>1 DEF Asked
  <2>2. CASE f = "keep_age"
    BY <1>2, <2>2, AsksTable DEF Asked, Fields
  <2>3. CASE f \in {"engine", "preservable", "keep_password", "tls", "location", "paths",
                    "gl_location"}
    <3>1. Get(p, "source") = Get(c, "source")
      BY <1>2, <2>3, AsksTable DEF Fields
    <3> QED BY <2>3, <3>1 DEF Asked, Source
  <2>4. CASE f \in {"ca", "docker", "path", "host_path"}
    <3>1. \A g \in {"source", "engine", "tls"} : Get(p, g) = Get(c, g)
      BY <1>2, <2>4, AsksTable DEF Fields
    <3>2. f = "host_path" => Get(p, "docker") = Get(c, "docker")
      BY <1>2, AsksTable DEF Fields
    <3> QED BY <2>4, <3>1, <3>2 DEF Asked, Source
  <2>5. CASE f \in {"server", "gl_server", "gl_path"}
    <3>1. Get(p, "source") = Get(c, "source") /\ Get(p, "location") = Get(c, "location")
      BY <1>2, <2>5, AsksTable DEF Fields
    <3>2. f # "server" => Get(p, "gl_location") = Get(c, "gl_location")
      BY <1>2, <2>5, AsksTable DEF Fields
    <3> QED BY <2>5, <3>1, <3>2 DEF Asked, Source
  <2>6. CASE f = "encryption"
    BY <2>6 DEF Asked
  <2> QED BY <2>1, <2>2, <2>3, <2>4, <2>5, <2>6 DEF Fields
<1> QED BY <1>1, <1>3 DEF p

\* The answers of a path that goes on lead to its new state.
LEMMA ReachedNew ==
    ASSUME NEW s \in Steps, NEW new \in Steps, NEW c \in Drafts, NEW a, IsAnswer(a), NEW o,
           Reached(s, c, o), Fits(a, s, c), Leads(s, new, Put(c, a), o)
    PROVE  Reached(new, Put(c, a), o)
<1> DEFINE p == Put(c, a)
<1>1. ASSUME NEW f \in Fields, Asks(f) < Rank(s)
      PROVE  /\ Get(p, f) = Get(c, f)
             /\ Asked(p, f) <=> Asked(c, f)
  BY <1>1, AskedBefore DEF Fits
<1> HIDE DEF p
<1>2. Reached(s, c, o) /\ Leads(s, new, p, o)
  BY DEF p
<1>3. \A f \in Fields : Get(p, f) # Nothing => Asks(f) < Rank(new)
  BY <1>1, <1>2, Ranks DEF Reached, Leads
<1>4. \A f \in Fields : Asked(p, f) /\ Asks(f) < Rank(new) => Get(p, f) # Nothing
  BY <1>1, <1>2, Ranks DEF Reached, Leads
<1> QED BY <1>2, <1>3, <1>4 DEF Reached, Leads, p

\* Answers that stood before s stand after an answer at s.
LEMMA StandsKept ==
    ASSUME NEW s \in Steps, NEW b \in Drafts, NEW c \in Drafts, NEW d \in Drafts,
           NEW a, IsAnswer(a), Fits(a, s, c), Stands(b, d), Stands(c, d),
           \A f \in Fields : Get(b, f) # Nothing => Asks(f) < Rank(s)
    PROVE  Stands(b, Put(d, a))
<1> DEFINE q == Put(d, a)
<1>1. \A f \in Fields : Get(q, f) = IF f \in DOMAIN a THEN a[f] ELSE Get(d, f)
  BY PutIs
<1> HIDE DEF q
<1>2. \A f \in Fields : Get(b, f) # Nothing => f \notin DOMAIN a
  BY Ranks DEF Fits
<1>3. \A f \in Fields : Get(b, f) # Nothing => Get(q, f) = Get(b, f)
  BY <1>1, <1>2 DEF Stands
<1>4. ASSUME Get(b, "gl_location") = "LOCAL"
      PROVE  Get(q, "gl_server") = Nothing /\ Get(q, "gl_path") = Nothing
  <2>1. {"gl_location", "gl_server", "gl_path"} \subseteq Fields /\ "LOCAL" # Nothing
    BY WizardAssumption DEF Fields, Replies
  <2>2. "gl_location" \notin DOMAIN a /\ Get(d, "gl_location") = "LOCAL"
    BY <1>2, <1>4, <2>1 DEF Stands
  <2>3. Get(c, "gl_location") # "REMOTE"
    <3>1. SUFFICES ASSUME Get(c, "gl_location") = "REMOTE" PROVE FALSE
      OBVIOUS
    <3>2. Get(c, "gl_location") # Nothing
      BY <3>1, WizardAssumption DEF Replies
    <3> QED BY <2>1, <2>2, <3>1, <3>2 DEF Stands
  <2>4. "gl_server" \notin DOMAIN a /\ "gl_path" \notin DOMAIN a
    BY <2>2, <2>3 DEF Fits
  <2> QED BY <1>1, <1>4, <2>1, <2>4 DEF Stands
<1> QED BY <1>3, <1>4 DEF Stands, q

\* The answer at s stands after it was given.
LEMMA StandsNew ==
    ASSUME NEW s \in Steps, NEW c \in Drafts, NEW d \in Drafts, NEW a, IsAnswer(a), NEW o,
           Fits(a, s, c), Stands(c, d), Reached(s, c, o)
    PROVE  Stands(Put(c, a), Put(d, a))
<1> DEFINE p == Put(c, a)
<1> DEFINE q == Put(d, a)
<1>1. /\ \A f \in Fields : Get(p, f) = IF f \in DOMAIN a THEN a[f] ELSE Get(c, f)
      /\ \A f \in Fields : Get(q, f) = IF f \in DOMAIN a THEN a[f] ELSE Get(d, f)
  BY PutIs
<1> HIDE DEF p, q
<1>2. \A f \in Fields : Get(p, f) # Nothing => Get(q, f) = Get(p, f)
  BY <1>1 DEF Stands
<1>3. ASSUME Get(p, "gl_location") = "LOCAL"
      PROVE  Get(q, "gl_server") = Nothing /\ Get(q, "gl_path") = Nothing
  <2>1. "gl_location" \in Fields /\ "gl_server" \in Fields /\ "gl_path" \in Fields
    BY DEF Fields
  <2>2. CASE "gl_location" \in DOMAIN a
    BY <1>1, <2>1, <2>2 DEF Fits
  <2>3. CASE "gl_location" \notin DOMAIN a
    <3>1. Get(c, "gl_location") = "LOCAL"
      BY <1>1, <1>3, <2>1, <2>3
    <3>2. "gl_server" \notin DOMAIN a /\ "gl_path" \notin DOMAIN a
      BY <2>3, <3>1 DEF Fits
    <3> QED BY <1>1, <2>1, <3>1, <3>2 DEF Stands
  <2> QED BY <2>2, <2>3
<1> QED BY <1>2, <1>3 DEF Stands, p, q

-----------------------------------------------------------------------------
(* The path.                                                               *)

\* The path ends in the state, and the answers that stand there are the last ones.
LEMMA PathIs ==
    ASSUME IInv, state # Nothing
    PROVE  /\ state \in Steps /\ history \in Seq(Steps)
           /\ Path \in Seq(Steps) /\ Len(Path) = Len(history) + 1 /\ Len(clean) = Len(Path)
           /\ Path[Len(Path)] = state
           /\ \A k \in 1 .. Len(history) : Path[k] = history[k]
           /\ \A k \in 1 .. Len(Path) : Path[k] \in Steps /\ clean[k] \in Drafts
           /\ Last(clean) \in Drafts
           /\ Reached(state, Last(clean), original) /\ Stands(Last(clean), draft)
<1>1. state \in Steps /\ history \in Seq(Steps) /\ Len(clean) = Len(history) + 1
  BY DEF IInv, WizardTypeOK
<1>2. Path \in Seq(Steps) /\ Len(Path) = Len(history) + 1
  BY <1>1 DEF Path
<1>3. Path[Len(Path)] = state /\ \A k \in 1 .. Len(history) : Path[k] = history[k]
  BY <1>1 DEF Path
<1>4. clean \in Seq(Drafts) /\ PathIsSound
  BY DEF IInv
<1>5. Len(history) \in Nat
  BY <1>1
<1>6. \A k \in 1 .. Len(Path) : Path[k] \in Steps
  BY <1>2, ElementOfSeq
<1>7. \A k \in 1 .. Len(Path) : clean[k] \in Drafts
  BY <1>1, <1>2, <1>4, ElementOfSeq
<1>8. Len(Path) \in 1 .. Len(Path) /\ Last(clean) = clean[Len(Path)]
  BY <1>1, <1>2, <1>5 DEF Last
<1>9. Reached(state, Last(clean), original) /\ Stands(Last(clean), draft)
  BY <1>3, <1>4, <1>8 DEF PathIsSound
<1> HIDE DEF Path
<1> QED BY <1>1, <1>2, <1>3, <1>6, <1>7, <1>8, <1>9

\* Every answer that stands still does after an answer at the present state.
LEMMA AllStand ==
    ASSUME IInv, state # Nothing, NEW a, IsAnswer(a), Fits(a, state, Last(clean))
    PROVE  /\ Put(draft, a) \in Drafts
           /\ \A k \in 1 .. Len(Path) : Stands(clean[k], Put(draft, a))
<1>1. draft \in Drafts /\ PathIsSound
  BY DEF IInv
<1>2. ASSUME NEW k \in 1 .. Len(Path)
      PROVE  Stands(clean[k], Put(draft, a))
  <2>1. clean[k] \in Drafts /\ Path[k] \in Steps /\ state \in Steps /\ Len(Path) \in Nat
    BY PathIs
  <2>2. Rank(Path[k]) <= Rank(state)
    <3>1. k = Len(Path) \/ k < Len(Path)
      BY <2>1
    <3>2. Rank(Path[k]) \in Nat /\ Rank(state) \in Nat
      BY <2>1, Ranks
    <3>3. CASE k = Len(Path)
      BY <3>2, <3>3, PathIs
    <3>4. CASE k < Len(Path)
      <4>1. Len(Path) \in 1 .. Len(Path)
        BY <2>1, <3>4
      <4>2. Rank(Path[k]) < Rank(Path[Len(Path)])
        BY <1>1, <3>4, <4>1 DEF PathIsSound, Ordered
      <4> QED BY <3>2, <4>2, PathIs
    <3> QED BY <3>1, <3>3, <3>4
  <2>3. \A f \in Fields : Get(clean[k], f) # Nothing => Asks(f) < Rank(state)
    <3>1. TAKE f \in Fields
    <3>2. Get(clean[k], f) # Nothing => Asks(f) < Rank(Path[k])
      BY <1>1 DEF PathIsSound, Reached
    <3>3. Rank(Path[k]) \in Nat /\ Rank(state) \in Nat /\ Asks(f) \in Nat
      BY <2>1, Ranks
    <3> QED BY <2>2, <3>2, <3>3
  <2>4. Stands(clean[k], draft)
    BY <1>1 DEF PathIsSound
  <2> QED BY <1>1, <2>1, <2>3, <2>4, PathIs, StandsKept
<1> QED BY <1>1, <1>2, PutIs

\* The fields of servers keep their type.
LEMMA ServersTyped ==
    ASSUME NEW d \in Drafts, NEW a, IsAnswer(a),
           \A f \in ServerFields \intersect DOMAIN d : d[f] \in Server
    PROVE  \A f \in ServerFields \intersect DOMAIN Put(d, a) : Put(d, a)[f] \in Server
<1> SUFFICES ASSUME NEW f \in ServerFields, f \in DOMAIN Put(d, a)
             PROVE  Put(d, a)[f] \in Server
  OBVIOUS
<1>1. f \in Fields
  BY DEF ServerFields, Fields
<1>2. Put(d, a)[f] = Get(Put(d, a), f) /\ Get(Put(d, a), f) # Nothing
  BY PutIs, GetIs
<1>3. Get(Put(d, a), f) = IF f \in DOMAIN a THEN a[f] ELSE Get(d, f)
  BY <1>1, PutIs
<1>4. CASE f \in DOMAIN a
  BY <1>2, <1>3, <1>4 DEF IsAnswer
<1>5. CASE f \notin DOMAIN a
  <2>1. f \in DOMAIN d /\ d[f] = Get(d, f)
    BY <1>2, <1>3, <1>5, GetIs
  <2> QED BY <1>2, <1>3, <1>5, <2>1
<1> QED BY <1>4, <1>5

\* A step that accepts its answer keeps the invariant, if the answer is written where it
\* is asked for and the answers lead to the new state.
LEMMA AdvanceKeeps ==
    ASSUME IInv, state \in Steps, NEW new \in Steps, NEW a, IsAnswer(a), Advance(new, a),
           Fits(a, state, Last(clean)), Leads(state, new, Put(Last(clean), a), original),
           options' \in {"none", "servers", "admins"},
           secrets' \subseteq {"database_credential", "age_unlock"}
    PROVE  IInv'
<1> DEFINE n == Len(Path)
<1> DEFINE last == Put(Last(clean), a)
<1>0. state # Nothing /\ new # Nothing
  BY WizardAssumption
<1>1. /\ state' = new /\ history' = Append(history, state)
      /\ draft' = Put(draft, a) /\ clean' = Append(clean, last)
      /\ invalid' = 0 /\ turning' = FALSE
      /\ UNCHANGED <<servers, original, returns, saved>>
  BY DEF Advance
<1>2. /\ Path \in Seq(Steps) /\ n \in Nat /\ n >= 1 /\ Len(clean) = n /\ Last(clean) \in Drafts
      /\ history \in Seq(Steps) /\ Len(history) + 1 = n
      /\ Path[n] = state
  BY <1>0, PathIs
<1>3. last \in Drafts /\ Reached(new, last, original) /\ Stands(last, draft')
  <2>1. draft \in Drafts
    BY DEF IInv
  <2> QED BY <1>0, <1>1, <2>1, PathIs, PutIs, ReachedNew, StandsNew
<1>4. history' = Path /\ Path' = Append(Path, new)
  BY <1>1 DEF Path
<1>5. clean \in Seq(Drafts)
  BY DEF IInv
<1>6. /\ clean' \in Seq(Drafts) /\ Len(clean') = n + 1 /\ clean'[n + 1] = last
      /\ \A k \in 1 .. n : clean'[k] = clean[k]
  BY <1>1, <1>2, <1>3, <1>5
<1>7. /\ Path' \in Seq(Steps) /\ Len(Path') = n + 1 /\ Path'[n + 1] = new
      /\ \A k \in 1 .. n : Path'[k] = Path[k]
  BY <1>2, <1>4
<1>8. PathIsSound
  BY <1>0 DEF IInv
<1>9. WizardTypeOK'
  <2>1. WizardTypeOK /\ draft \in Drafts
    BY DEF IInv
  <2>2. DOMAIN draft' \subseteq Fields
    BY <1>1, <2>1, PutIs, DraftIs
  <2>3. \A f \in ServerFields \intersect DOMAIN draft' : draft'[f] \in Server
    BY <1>1, <2>1, ServersTyped DEF WizardTypeOK, ServerFields
  <2>4. 0 \in 0 .. InvalidLimit - 1
    BY WizardAssumption
  <2>5. history' \in Seq(Steps) /\ Len(history') + 1 = Len(clean')
    BY <1>2, <1>4, <1>6
  <2> QED BY <1>0, <1>1, <2>1, <2>2, <2>3, <2>4, <2>5 DEF WizardTypeOK, ServerFields
<1>10. draft' \in Drafts
  BY <1>0, <1>1, AllStand
<1>11. PathIsSound'
  <2>1. ASSUME NEW k \in 1 .. n + 1
        PROVE  Reached(Path'[k], clean'[k], original') /\ Stands(clean'[k], draft')
    <3>1. k \in 1 .. n \/ k = n + 1
      BY <1>2
    <3>2. CASE k = n + 1
      BY <1>1, <1>3, <1>6, <1>7, <3>2
    <3>3. CASE k \in 1 .. n
      <4>1. Reached(Path[k], clean[k], original)
        BY <1>8, <3>3 DEF PathIsSound
      <4>2. Stands(clean[k], draft')
        BY <1>0, <1>1, <3>3, AllStand
      <4> QED BY <1>1, <1>6, <1>7, <3>3, <4>1, <4>2
    <3> QED BY <3>1, <3>2, <3>3
  <2>2. ASSUME NEW i \in 1 .. n + 1, NEW j \in 1 .. n + 1, i < j
        PROVE  Rank(Path'[i]) < Rank(Path'[j])
    <3>1. i \in 1 .. n /\ n \in 1 .. n /\ (j \in 1 .. n \/ j = n + 1)
      BY <1>2, <2>2
    <3>2. CASE j \in 1 .. n
      BY <1>7, <1>8, <2>2, <3>1, <3>2 DEF PathIsSound, Ordered
    <3>3. CASE j = n + 1
      <4>1. Rank(Path[n]) < Rank(new)
        BY <1>2 DEF Leads
      <4>2. i = n \/ Rank(Path[i]) < Rank(Path[n])
        BY <1>2, <1>8, <3>1 DEF PathIsSound, Ordered
      <4>3. Rank(Path[i]) \in Nat /\ Rank(Path[n]) \in Nat /\ Rank(new) \in Nat
        <5>1. Path[i] \in Steps /\ Path[n] \in Steps
          BY <1>0, <3>1, PathIs
        <5> QED BY <5>1, Ranks
      <4>4. Rank(Path[i]) < Rank(new)
        BY <4>1, <4>2, <4>3
      <4> QED BY <1>7, <3>1, <3>3, <4>4
    <3> QED BY <3>1, <3>2, <3>3
  <2> QED BY <1>7, <2>1, <2>2 DEF PathIsSound, Ordered
<1> QED BY <1>0, <1>1, <1>6, <1>9, <1>10, <1>11 DEF IInv

\* Nor is the path disturbed by what an answer writes that is refused.
LEMMA RewriteKeeps ==
    ASSUME IInv, state \in Steps, NEW a, IsAnswer(a), Fits(a, state, Last(clean)),
           draft' = Put(draft, a), invalid' \in 0 .. InvalidLimit - 1, turning' \in BOOLEAN,
           UNCHANGED <<servers, state, history, options, secrets, original, returns, clean, saved>>
    PROVE  IInv'
<1>0. state # Nothing
  BY WizardAssumption
<1>1. UNCHANGED <<servers, state, history, options, secrets>>
      /\ UNCHANGED <<original, returns, clean, saved>>
  OBVIOUS
<1>2. draft' \in Drafts /\ \A k \in 1 .. Len(Path) : Stands(clean[k], draft')
  BY <1>0, AllStand
<1>3. Path' = Path
  BY <1>1 DEF Path
<1>4. WizardTypeOK'
  <2>1. WizardTypeOK /\ draft \in Drafts
    BY DEF IInv
  <2>2. DOMAIN draft' \subseteq Fields
    BY <1>2, DraftIs
  <2>3. \A f \in ServerFields \intersect DOMAIN draft' : draft'[f] \in Server
    BY <2>1, ServersTyped DEF WizardTypeOK, ServerFields
  <2> QED BY <1>1, <2>1, <2>2, <2>3 DEF WizardTypeOK, ServerFields
<1>5. PathIsSound'
  <2>1. PathIsSound
    BY <1>0 DEF IInv
  <2> QED BY <1>1, <1>2, <1>3, <2>1 DEF PathIsSound, Ordered
<1> QED BY <1>0, <1>1, <1>2, <1>4, <1>5 DEF IInv

\* A conversation that is over.
LEMMA ClearedKeeps ==
    ASSUME IInv, Cleared, UNCHANGED <<servers, returns>>, DOMAIN saved' \subseteq Fields
    PROVE  IInv'
<1>1. WizardTypeOK'
  <2>1. 0 \in 0 .. InvalidLimit - 1
    BY WizardAssumption
  <2>2. servers \subseteq Server /\ returns \in 0 .. MaxReturns
    BY DEF IInv, WizardTypeOK
  <2>3. history' \in Seq(Steps) /\ Len(clean') = 0
    BY DEF Cleared
  <2>4. DOMAIN draft' = {}
    BY EmptyIs DEF Cleared
  <2>5. /\ state' = Nothing /\ options' = "none" /\ invalid' = 0 /\ secrets' = {}
        /\ original' = Nothing /\ turning' = FALSE
    BY DEF Cleared
  <2>6. servers' = servers /\ returns' = returns
    OBVIOUS
  <2> QED BY <2>1, <2>2, <2>3, <2>4, <2>5, <2>6 DEF WizardTypeOK
<1>2. draft' \in Drafts /\ clean' \in Seq(Drafts)
  BY EmptyIs DEF Cleared
<1> QED BY <1>1, <1>2 DEF IInv, Cleared

\* A step that refuses its answer.
LEMMA RejectedKeeps ==
    ASSUME IInv, state \in Steps, NEW a, IsAnswer(a), Fits(a, state, Last(clean)), Rejected(a),
           UNCHANGED <<options, secrets>> \/ Cleared
    PROVE  IInv'
<1>1. WizardTypeOK
  BY DEF IInv
<1>2. CASE invalid + 1 = InvalidLimit
  BY <1>1, <1>2, ClearedKeeps DEF Rejected, WizardTypeOK
<1>3. CASE invalid + 1 # InvalidLimit
  <2>1. invalid + 1 \in 0 .. InvalidLimit - 1
    BY <1>1, <1>3, WizardAssumption DEF WizardTypeOK
  <2>2. /\ invalid' = invalid + 1 /\ draft' = Put(draft, a) /\ turning' = FALSE
        /\ UNCHANGED <<servers, state, history, options, secrets, original, returns, clean, saved>>
    BY <1>3 DEF Rejected
  <2> QED BY <2>1, <2>2, RewriteKeeps
<1> QED BY <1>2, <1>3

\* A new conversation has no answers.
LEMMA BeginKeeps ==
    ASSUME IInv, NEW o \in Originals \union {Nothing}, Begin(o)
    PROVE  IInv'
<1>1. /\ state = Nothing /\ history = <<>> /\ draft = Empty
      /\ WizardTypeOK
  BY DEF IInv, Begin
<1>2. /\ state' = "NAME" /\ original' = o /\ secrets' = {} /\ clean' = <<Empty>>
      /\ history' = <<>> /\ draft' = Empty
      /\ UNCHANGED <<servers, options, invalid, returns, turning, saved>>
  BY <1>1 DEF Begin
<1>3. "NAME" \in Steps /\ "NAME" # Nothing
  BY WizardAssumption DEF Steps
<1>4. clean' \in Seq(Drafts) /\ Len(clean') = 1 /\ clean'[1] = Empty
  BY <1>2, EmptyIs
<1>5. Len(Path') = 1 /\ Path'[1] = "NAME"
  BY <1>2 DEF Path
<1>6. Reached("NAME", Empty, o)
  <2>1. \A f \in Fields : ~(Asks(f) < Rank("NAME"))
    BY AsksTable, RankTable DEF Fields
  <2>2. Belongs("NAME", Empty)
    BY EmptyIs, RankTable, WizardAssumption
    DEF Belongs, Source, DatabaseSteps, FilesSteps, GitlabSteps, Replies
  <2>3. Keeping(Empty, o)
    BY EmptyIs, WizardAssumption DEF Keeping
  <2> QED BY <2>1, <2>2, <2>3, EmptyIs DEF Reached
<1>7. Stands(Empty, Empty)
  BY EmptyIs DEF Stands
<1>8. PathIsSound'
  BY <1>2, <1>4, <1>5, <1>6, <1>7 DEF PathIsSound, Ordered
<1>9. WizardTypeOK'
  <2>1. Len(history') = 0 /\ history' \in Seq(Steps)
    BY <1>2
  <2> QED BY <1>1, <1>2, <1>3, <1>4, <2>1, EmptyIs DEF WizardTypeOK
<1> QED BY <1>2, <1>3, <1>4, <1>8, <1>9, EmptyIs DEF IInv

\* A sequence without its last element.
LEMMA FrontIs ==
    ASSUME NEW S, NEW s \in Seq(S), Len(s) >= 1
    PROVE  /\ Front(s) \in Seq(S) /\ Len(Front(s)) = Len(s) - 1
           /\ \A k \in 1 .. Len(s) - 1 : Front(s)[k] = s[k]
<1> DEFINE n == Len(s)
           t == SubSeq(s, 1, n - 1)
<1>1. n \in Nat /\ n >= 1 /\ \A i \in 1 .. n - 1 : s[i] \in S
  OBVIOUS
<1>2. /\ t \in Seq(S) /\ Len(t) = (IF 1 <= n - 1 THEN n - 1 - 1 + 1 ELSE 0)
      /\ \A i \in 1 .. n - 1 - 1 + 1 : t[i] = s[1 + i - 1]
  BY <1>1, SubSeqProperties
<1>3. Front(s) = t
  BY DEF Front
<1> HIDE DEF t, n
<1>4. Len(t) = n - 1
  BY <1>1, <1>2
<1>5. ASSUME NEW k \in 1 .. n - 1 PROVE t[k] = s[k]
  <2>1. k \in 1 .. n - 1 - 1 + 1 /\ 1 + k - 1 = k
    BY <1>1
  <2> QED BY <1>2, <2>1
<1>6. t \in Seq(S) /\ Len(t) = n - 1 /\ \A k \in 1 .. n - 1 : t[k] = s[k]
  BY <1>2, <1>4, <1>5
<1> QED BY <1>3, <1>6 DEF n

\* Going back shortens the path; the draft is not looked at.
LEMMA BackKeeps ==
    ASSUME IInv, Back
    PROVE  IInv'
<1> DEFINE n == Len(history)
<1>1. /\ state # Nothing /\ history # <<>>
      /\ state' = Last(history) /\ history' = Front(history) /\ clean' = Front(clean)
      /\ invalid' = 0 /\ turning' = TRUE
      /\ UNCHANGED <<servers, draft, secrets, original, saved>>
  BY DEF Back, TurnsBack
<1>2. /\ history \in Seq(Steps) /\ n \in Nat /\ n >= 1 /\ clean \in Seq(Drafts)
      /\ Len(clean) = n + 1 /\ Len(Path) = n + 1
      /\ \A k \in 1 .. n : Path[k] = history[k]
  BY <1>1, PathIs DEF IInv
<1>3. history' \in Seq(Steps) /\ Len(history') = n - 1
      /\ \A k \in 1 .. n - 1 : history'[k] = history[k]
  BY <1>1, <1>2, FrontIs
<1>4. clean' \in Seq(Drafts) /\ Len(clean') = n /\ \A k \in 1 .. n : clean'[k] = clean[k]
  BY <1>1, <1>2 DEF Front
<1>5. state' = history[n] /\ state' \in Steps
  BY <1>1, <1>2, ElementOfSeq DEF Last
<1>6. state' # Nothing
  BY <1>5, WizardAssumption
<1>7. Len(Path') = n /\ \A k \in 1 .. n : Path'[k] = Path[k]
  <2>1. Path' = Append(history', state')
    BY DEF Path
  <2>2. Len(Path') = n /\ Path'[n] = history[n] /\ \A k \in 1 .. n - 1 : Path'[k] = history[k]
    BY <1>2, <1>3, <1>5, <2>1
  <2> QED BY <1>2, <2>2
<1>8. PathIsSound'
  <2>1. PathIsSound
    BY <1>1 DEF IInv
  <2>2. \A k \in 1 .. n : k \in 1 .. Len(Path)
    BY <1>2
  <2> HIDE DEF n
  <2>3. \A i, j \in 1 .. n : i < j => Rank(Path'[i]) < Rank(Path'[j])
    BY <1>7, <2>1, <2>2 DEF PathIsSound, Ordered
  <2>4. \A k \in 1 .. n : Reached(Path'[k], clean'[k], original') /\ Stands(clean'[k], draft')
    BY <1>1, <1>4, <1>7, <2>1, <2>2 DEF PathIsSound
  <2> QED BY <1>7, <2>3, <2>4 DEF PathIsSound, Ordered
<1>9. WizardTypeOK'
  <2>1. WizardTypeOK
    BY DEF IInv
  <2>2. 0 \in 0 .. InvalidLimit - 1
    BY WizardAssumption
  <2>3. returns' \in 0 .. MaxReturns
    BY <2>1, WizardAssumption DEF WizardTypeOK, Back
  <2>4. options' \in {"none", "servers", "admins"}
    BY <2>1 DEF WizardTypeOK, Back, OptionsAt
  <2>5. Len(clean') = Len(history') + 1
    BY <1>2, <1>3, <1>4
  <2> QED BY <1>1, <1>3, <1>5, <1>6, <2>1, <2>2, <2>3, <2>4, <2>5 DEF WizardTypeOK
<1> QED BY <1>1, <1>4, <1>6, <1>8, <1>9 DEF IInv

-----------------------------------------------------------------------------
(* The steps.                                                              *)

\* What later questions depend on besides the present one.
Decisive == {"source", "engine", "preservable", "keep_password", "gl_location"}

\* A step from s to new that decides nothing, with the answers c, writes a.
Onward(s, new, c, a) ==
    /\ s \notin {"NAME", "SOURCE", "GITLAB_LOCATION"}
    /\ Rank(s) < Rank(new)
    /\ new \in DatabaseSteps => s \in DatabaseSteps
    /\ new \in FilesSteps => s \in FilesSteps
    /\ new \in GitlabSteps => s \in GitlabSteps
    /\ new \in {"GITLAB_SERVER", "GITLAB_REMOTE_PATH"} => Get(c, "gl_location") = "REMOTE"
    /\ \A f \in DOMAIN a :
          /\ f \notin Decisive /\ Rank(s) <= Asks(f) /\ Asks(f) < Rank(new)
          /\ f \in {"gl_server", "gl_path"} => Get(c, "gl_location") = "REMOTE"
    /\ \A f \in Fields :
          Rank(s) <= Asks(f) /\ Asks(f) < Rank(new) /\ Asked(Put(c, a), f) =>
             f \in DOMAIN a /\ a[f] # Nothing

\* Nothing asked for later has been answered.
LEMMA LaterIsOpen ==
    ASSUME NEW s \in Steps, NEW c, NEW o, Reached(s, c, o), NEW f \in Fields, Rank(s) <= Asks(f)
    PROVE  Get(c, f) = Nothing
  BY Ranks DEF Reached

\* A step that decides nothing leads on and fits.
LEMMA OnwardLeads ==
    ASSUME NEW s \in Steps, NEW new \in Steps, NEW c \in Drafts, NEW a, IsAnswer(a), NEW o,
           Reached(s, c, o), Onward(s, new, c, a)
    PROVE  Fits(a, s, c) /\ Leads(s, new, Put(c, a), o)
<1> DEFINE p == Put(c, a)
<1>1. \A f \in Fields : Get(p, f) = IF f \in DOMAIN a THEN a[f] ELSE Get(c, f)
  BY PutIs
<1> HIDE DEF p
<1>2. \A f \in Decisive : Get(p, f) = Get(c, f)
  BY <1>1 DEF Onward, Decisive, Fields
<1>3. \A f \in Fields : Rank(s) <= Asks(f) /\ Get(p, f) # Nothing => Asks(f) < Rank(new)
  BY <1>1, LaterIsOpen DEF Onward
<1>4. \A f \in Fields : Rank(s) <= Asks(f) /\ Asks(f) < Rank(new) /\ Asked(p, f) =>
         Get(p, f) # Nothing
  BY <1>1 DEF Onward, p
<1>5. Belongs(new, p)
  <2>1. Source(p) = Source(c) /\ Get(p, "gl_location") = Get(c, "gl_location")
    BY <1>2 DEF Decisive, Source
  <2>2. Belongs(s, c) /\ s \notin {"NAME", "SOURCE", "GITLAB_LOCATION"}
    BY DEF Reached, Onward
  <2>3. ASSUME Source(c) = "GITLAB"
        PROVE  Get(c, "gl_location") \in {"LOCAL", "REMOTE"}
    <3>1. s \notin DatabaseSteps /\ s \notin FilesSteps
      BY <2>2, <2>3 DEF Belongs
    <3>2. Rank(s) > 15
      BY <2>2, <3>1, RankTable DEF Steps, DatabaseSteps, FilesSteps
    <3> QED BY <2>2, <2>3, <3>2 DEF Belongs
  <2> QED BY <2>1, <2>2, <2>3 DEF Belongs, Onward
<1>6. Keeping(p, o)
  <2>1. Keeping(c, o)
    BY DEF Reached
  <2> QED BY <1>2, <2>1 DEF Keeping, Decisive
<1>7. Fits(a, s, c)
  BY DEF Fits, Onward, Decisive
<1> QED BY <1>3, <1>4, <1>5, <1>6, <1>7 DEF Leads, Onward, p

\* Steps that decide nothing keep the invariant.
LEMMA OnwardKeeps ==
    ASSUME IInv, state \in Steps, NEW new \in Steps, NEW a, IsAnswer(a), Advance(new, a),
           Onward(state, new, Last(clean), a),
           options' \in {"none", "servers", "admins"},
           secrets' \subseteq {"database_credential", "age_unlock"}
    PROVE  IInv'
<1>1. state # Nothing
  BY WizardAssumption
<1>2. Last(clean) \in Drafts /\ Reached(state, Last(clean), original)
  BY <1>1, PathIs
<1>3. Fits(a, state, Last(clean)) /\ Leads(state, new, Put(Last(clean), a), original)
  BY <1>2, OnwardLeads
<1> QED BY <1>3, AdvanceKeeps

\* The draft has what the answers must have answered.
LEMMA DraftAgrees ==
    ASSUME IInv, state \in Steps, NEW f \in Fields, Asked(Last(clean), f), Asks(f) < Rank(state)
    PROVE  Get(Last(clean), f) # Nothing /\ Get(draft, f) = Get(Last(clean), f)
<1>1. state # Nothing
  BY WizardAssumption
<1>2. Reached(state, Last(clean), original) /\ Stands(Last(clean), draft)
  BY <1>1, PathIs
<1> QED BY <1>2 DEF Reached, Stands

\* What the steps write are answers.
LEMMA AnswersAre ==
    /\ \A v \in BOOLEAN : IsAnswer([tls |-> v]) /\ IsAnswer([docker |-> v])
    /\ \A v \in BOOLEAN : IsAnswer([keep_password |-> v]) /\ IsAnswer([keep_age |-> v])
    /\ IsAnswer([ca |-> "set"]) /\ IsAnswer([path |-> "set"]) /\ IsAnswer([host_path |-> "set"])
    /\ \A v \in Server : IsAnswer([artifact_server |-> v]) /\ IsAnswer([server |-> v])
    /\ \A v \in Server : IsAnswer([gl_server |-> v])
    /\ \A v \in {"LOCAL", "REMOTE"} : IsAnswer([location |-> v]) /\ IsAnswer(GitlabAt(v))
    /\ IsAnswer([paths |-> "set"]) /\ IsAnswer([gl_path |-> "set"])
    /\ IsAnswer(Scheduled) /\ IsAnswer(Compressed)
    /\ \A v \in {"NONE", "PUBLIC_KEY", "PASSPHRASE"} : IsAnswer([encryption |-> v])
    /\ \A v \in {"DATABASE", "FILES", "GITLAB"} : IsAnswer([source |-> v])
    /\ \A v \in {"MSSQL", "OTHER"}, w \in BOOLEAN : IsAnswer([engine |-> v, preservable |-> w])
  BY DEF IsAnswer, Answers, Replies, Fields, ServerFields, GitlabAt, Scheduled, Compressed

\* The other variables that a step writes.
LEMMA Typed ==
    ASSUME IInv
    PROVE  /\ options \in {"none", "servers", "admins"}
           /\ secrets \subseteq {"database_credential", "age_unlock"}
           /\ servers \subseteq Server
  BY DEF IInv, WizardTypeOK

LEMMA NameKeeps ==
    ASSUME IInv, AddName
    PROVE  IInv'
<1>1. /\ state = "NAME" /\ Advance("SOURCE", Empty) /\ UNCHANGED <<options, secrets>>
      /\ "NAME" \in Steps /\ "SOURCE" \in Steps
  BY DEF AddName, At, Keeps, Steps
<1>2. Last(clean) \in Drafts /\ Reached("NAME", Last(clean), original)
  BY <1>1, PathIs, WizardAssumption
<1> DEFINE p == Put(Last(clean), Empty)
<1>3. \A f \in Fields : Get(p, f) = Nothing
  <2>1. \A f \in Fields : Rank("NAME") <= Asks(f)
    BY AsksTable, RankTable DEF Fields
  <2> QED BY <1>1, <1>2, <2>1, LaterIsOpen, PutIs, EmptyIs
<1> HIDE DEF p
<1>4. Leads("NAME", "SOURCE", p, original)
  <2>1. \A f \in Fields : ~(Asks(f) < Rank("SOURCE"))
    BY AsksTable, RankTable DEF Fields
  <2>2. Belongs("SOURCE", p)
    BY <1>3, RankTable, WizardAssumption
    DEF Belongs, Source, DatabaseSteps, FilesSteps, GitlabSteps, Fields, Replies
  <2>3. Keeping(p, original)
    BY <1>3, WizardAssumption DEF Keeping, Fields
  <2> QED BY <1>3, <2>1, <2>2, <2>3, RankTable DEF Leads
<1>5. Fits(Empty, "NAME", Last(clean))
  BY EmptyIs DEF Fits
<1> QED BY <1>1, <1>4, <1>5, EmptyIs, Typed, AdvanceKeeps DEF p

LEMMA SourceKeeps ==
    ASSUME IInv, AddSource
    PROVE  IInv'
<1> DEFINE next == [DATABASE |-> "ENGINE", FILES |-> "FILES_LOCATION", GITLAB |-> "GITLAB_LOCATION"]
<1>1. /\ state = "SOURCE" /\ UNCHANGED <<options, secrets>> /\ "SOURCE" \in Steps
      /\ \E s \in {"DATABASE", "FILES", "GITLAB"} : Advance(next[s], [source |-> s])
  BY DEF AddSource, At, Keeps, Steps
<1>2. PICK s \in {"DATABASE", "FILES", "GITLAB"} : Advance(next[s], [source |-> s])
  BY <1>1
<1> DEFINE a == [source |-> s]
           p == Put(Last(clean), a)
<1>3. next[s] \in Steps /\ IsAnswer(a) /\ DOMAIN a = {"source"} /\ a["source"] = s
  BY AnswersAre DEF Steps
<1>4. Last(clean) \in Drafts /\ Reached("SOURCE", Last(clean), original)
  BY <1>1, PathIs, WizardAssumption
<1>5. Get(p, "source") = s /\ \A f \in Fields \ {"source"} : Get(p, f) = Nothing
  <2>1. \A f \in Fields : Rank("SOURCE") <= Asks(f)
    BY AsksTable, RankTable DEF Fields
  <2>2. "source" \in Fields
    BY DEF Fields
  <2> QED BY <1>1, <1>3, <1>4, <2>1, <2>2, LaterIsOpen, PutIs
<1> HIDE DEF p
<1>6. Leads("SOURCE", next[s], p, original)
  <2>1. Rank("SOURCE") < Rank(next[s])
    BY RankTable
  <2>2. \A f \in Fields : Get(p, f) # Nothing => Asks(f) < Rank(next[s])
    <3>1. Asks("source") < Rank(next[s])
      BY RankTable, AsksTable
    <3> QED BY <1>5, <3>1
  <2>3. \A f \in Fields : Asks(f) < Rank(next[s]) /\ Asked(p, f) => Get(p, f) # Nothing
    <3>1. Get(p, "source") # Nothing
      BY <1>5, WizardAssumption DEF Replies
    <3>2. \A f \in Fields \ {"source"} : Asks(f) < Rank(next[s]) => ~Asked(p, f)
      <4>1. CASE s = "DATABASE"
        BY <4>1, AsksTable, RankTable DEF Fields
      <4>2. CASE s = "FILES"
        <5>1. \A f \in Fields \ {"source"} : Asks(f) < 12 =>
                 f \in {"engine", "preservable", "keep_password", "tls", "ca", "docker", "path",
                       "host_path", "artifact_server"}
          BY AsksTable DEF Fields
        <5>2. Source(p) # "DATABASE" /\ Rank(next[s]) = 12
          BY <1>5, <4>2, RankTable DEF Source
        <5> QED BY <5>1, <5>2 DEF Asked
      <4>3. CASE s = "GITLAB"
        <5>1. \A f \in Fields \ {"source"} : Asks(f) < 15 =>
                 f \in {"engine", "preservable", "keep_password", "tls", "ca", "docker", "path",
                       "host_path", "artifact_server", "location", "server", "paths"}
          BY AsksTable DEF Fields
        <5>2. Source(p) \notin {"DATABASE", "FILES"} /\ Rank(next[s]) = 15
          BY <1>5, <4>3, RankTable DEF Source
        <5> QED BY <5>1, <5>2 DEF Asked
      <4> QED BY <4>1, <4>2, <4>3
    <3> QED BY <3>1, <3>2
  <2>4. Belongs(next[s], p)
    BY <1>5, RankTable DEF Belongs, Source, DatabaseSteps, FilesSteps, GitlabSteps
  <2>5. Keeping(p, original)
    BY <1>5, WizardAssumption DEF Keeping, Fields
  <2> QED BY <2>1, <2>2, <2>3, <2>4, <2>5 DEF Leads
<1>7. Fits(a, "SOURCE", Last(clean))
  BY <1>3, AsksTable, RankTable DEF Fits
<1> HIDE DEF next, a
<1> QED BY <1>1, <1>2, <1>3, <1>6, <1>7, Typed, AdvanceKeeps DEF a, p

LEMMA EngineKeeps ==
    ASSUME IInv, AddEngine
    PROVE  IInv'
<1>1. /\ state = "ENGINE" /\ UNCHANGED <<options, secrets>>
      /\ "ENGINE" \in Steps /\ "TARGET" \in Steps
      /\ \E e \in {"MSSQL", "OTHER"} :
            Advance("TARGET", [engine |-> e, preservable |-> IsPreservable(e)])
  BY DEF AddEngine, At, Keeps, Steps
<1>2. PICK e \in {"MSSQL", "OTHER"} :
         Advance("TARGET", [engine |-> e, preservable |-> IsPreservable(e)])
  BY <1>1
<1> DEFINE a == [engine |-> e, preservable |-> IsPreservable(e)]
           p == Put(Last(clean), a)
<1>3. /\ IsAnswer(a) /\ DOMAIN a = {"engine", "preservable"}
      /\ a["engine"] = e /\ a["preservable"] = IsPreservable(e)
  <2>1. IsPreservable(e) \in BOOLEAN
    BY DEF IsPreservable
  <2> QED BY <2>1, AnswersAre
<1>4. Last(clean) \in Drafts /\ Reached("ENGINE", Last(clean), original)
  BY <1>1, PathIs, WizardAssumption
<1>5. /\ Get(p, "engine") = e /\ Get(p, "preservable") = IsPreservable(e)
      /\ Get(p, "keep_password") = Nothing
      /\ \A f \in Fields \ {"engine", "preservable"} : Get(p, f) = Get(Last(clean), f)
  <2>1. {"engine", "preservable", "keep_password"} \subseteq Fields
    BY DEF Fields
  <2>2. Rank("ENGINE") <= Asks("keep_password")
    BY AsksTable, RankTable
  <2> QED BY <1>1, <1>3, <1>4, <2>1, <2>2, LaterIsOpen, PutIs
<1> HIDE DEF p
<1>6. Leads("ENGINE", "TARGET", p, original)
  <2>1. Rank("ENGINE") < Rank("TARGET")
    BY RankTable
  <2>2. \A f \in Fields : Rank("ENGINE") <= Asks(f) /\ Get(p, f) # Nothing =>
           Asks(f) < Rank("TARGET")
    <3>1. Asks("engine") < Rank("TARGET") /\ Asks("preservable") < Rank("TARGET")
      BY RankTable, AsksTable
    <3> QED BY <1>1, <1>4, <1>5, <3>1, LaterIsOpen
  <2>3. \A f \in Fields : Rank("ENGINE") <= Asks(f) /\ Asks(f) < Rank("TARGET") =>
           f \in {"engine", "preservable"}
    BY AsksTable, RankTable DEF Fields
  <2>4. Get(p, "engine") # Nothing /\ Get(p, "preservable") # Nothing
    BY <1>5, WizardAssumption DEF Replies, IsPreservable
  <2>5. Belongs("TARGET", p)
    <3>1. Source(p) = "DATABASE"
      BY <1>4, <1>5 DEF Reached, Belongs, DatabaseSteps, Source, Fields
    <3> QED BY <3>1 DEF Belongs, DatabaseSteps, FilesSteps, GitlabSteps
  <2>6. Keeping(p, original)
    BY <1>5, WizardAssumption DEF Keeping, IsPreservable
  <2> QED BY <2>1, <2>2, <2>3, <2>4, <2>5, <2>6 DEF Leads
<1>7. Fits(a, "ENGINE", Last(clean))
  BY <1>3, AsksTable, RankTable DEF Fits
<1> HIDE DEF a
<1> QED BY <1>1, <1>2, <1>3, <1>6, <1>7, Typed, AdvanceKeeps DEF a, p

LEMMA TargetKeeps ==
    ASSUME IInv, AddTarget
    PROVE  IInv'
<1>1. /\ state = "TARGET" /\ Advance("PASSWORD", Empty) /\ UNCHANGED <<options, secrets>>
      /\ "TARGET" \in Steps /\ "PASSWORD" \in Steps
  BY DEF AddTarget, At, Keeps, Steps
<1>2. Onward("TARGET", "PASSWORD", Last(clean), Empty)
  <2>1. \A f \in Fields : ~(Rank("TARGET") <= Asks(f) /\ Asks(f) < Rank("PASSWORD"))
    BY AsksTable, RankTable DEF Fields
  <2> QED BY <2>1, RankTable, EmptyIs DEF Onward, DatabaseSteps, FilesSteps, GitlabSteps
<1> QED BY <1>1, <1>2, EmptyIs, Typed, OnwardKeeps

LEMMA PasswordKeeps ==
    ASSUME IInv, AddPassword
    PROVE  IInv'
<1>1. /\ state = "PASSWORD" /\ options' = options /\ "PASSWORD" \in Steps /\ "TLS" \in Steps
      /\ \E keep \in BOOLEAN :
            /\ Advance("TLS", [keep_password |-> keep])
            /\ keep = TRUE => Get(draft, "preservable") = TRUE
            /\ secrets' \subseteq {"database_credential", "age_unlock"}
  <2>1. secrets \subseteq {"database_credential", "age_unlock"}
    BY Typed
  <2>2. CASE Advance("TLS", NewPassword) /\ Puts("database_credential")
    BY <2>1, <2>2 DEF NewPassword, Puts, AddPassword, At, Steps
  <2>3. CASE /\ Get(draft, "preservable") = TRUE
             /\ Advance("TLS", [keep_password |-> TRUE])
             /\ UNCHANGED secrets
    BY <2>1, <2>3 DEF AddPassword, At, Steps
  <2> QED BY <2>2, <2>3 DEF AddPassword
<1>2. PICK keep \in BOOLEAN :
            /\ Advance("TLS", [keep_password |-> keep])
            /\ keep = TRUE => Get(draft, "preservable") = TRUE
            /\ secrets' \subseteq {"database_credential", "age_unlock"}
  BY <1>1
<1> DEFINE a == [keep_password |-> keep]
           c == Last(clean)
           p == Put(c, a)
<1>3. IsAnswer(a) /\ DOMAIN a = {"keep_password"} /\ a["keep_password"] = keep
  BY AnswersAre
<1>4. c \in Drafts /\ Reached("PASSWORD", c, original)
  BY <1>1, PathIs, WizardAssumption
<1> HIDE DEF a, c
<1>5. Source(c) = "DATABASE"
  BY <1>4 DEF Reached, Belongs, DatabaseSteps
<1>6. Get(p, "keep_password") = keep /\ \A f \in Fields \ {"keep_password"} : Get(p, f) = Get(c, f)
  BY <1>3, <1>4, PutIs DEF Fields
<1> HIDE DEF p
<1>7. Leads("PASSWORD", "TLS", p, original)
  <2>1. Rank("PASSWORD") < Rank("TLS")
    BY RankTable
  <2>2. \A f \in Fields : Rank("PASSWORD") <= Asks(f) /\ Get(p, f) # Nothing =>
           Asks(f) < Rank("TLS")
    <3>1. Asks("keep_password") < Rank("TLS")
      BY RankTable, AsksTable
    <3> QED BY <1>1, <1>4, <1>6, <3>1, LaterIsOpen
  <2>3. \A f \in Fields : Rank("PASSWORD") <= Asks(f) /\ Asks(f) < Rank("TLS") =>
           f = "keep_password"
    BY AsksTable, RankTable DEF Fields
  <2>4. Get(p, "keep_password") # Nothing
    BY <1>6, WizardAssumption
  <2>5. Belongs("TLS", p)
    <3>1. Source(p) = "DATABASE"
      BY <1>5, <1>6 DEF Source, Fields
    <3> QED BY <3>1 DEF Belongs, DatabaseSteps, FilesSteps, GitlabSteps
  <2>6. Keeping(p, original)
    <3>1. Asked(c, "preservable") /\ Asks("preservable") < Rank("PASSWORD")
             /\ "preservable" \in Fields
      BY <1>5, AsksTable, RankTable DEF Asked, Fields
    <3>2. Get(draft, "preservable") = Get(c, "preservable")
      BY <1>1, <3>1, DraftAgrees DEF c
    <3>3. Keeping(c, original)
      BY <1>4 DEF Reached
    <3> QED BY <1>2, <1>6, <3>2, <3>3 DEF Keeping, Fields
  <2> QED BY <2>1, <2>2, <2>3, <2>4, <2>5, <2>6 DEF Leads
<1>8. Fits(a, "PASSWORD", c)
  BY <1>3, AsksTable, RankTable DEF Fits
<1>9. options' \in {"none", "servers", "admins"}
  BY <1>1, Typed
<1> QED BY <1>1, <1>2, <1>3, <1>7, <1>8, <1>9, AdvanceKeeps DEF a, p, c

\* What is skipped on the way to the schedule was not asked for.
LEMMA Skipped ==
    ASSUME NEW c, NEW f \in Fields, Asks(f) < 19, Asked(c, f)
    PROVE  /\ Source(c) = "DATABASE" => Asks(f) < 11
           /\ Source(c) = "DATABASE" /\ Get(c, "engine") # "MSSQL" => Asks(f) < 8
           /\ Source(c) = "DATABASE" /\ Get(c, "docker") # TRUE => Asks(f) < 10
           /\ Source(c) = "DATABASE" /\ Get(c, "tls") # TRUE => f # "ca"
           /\ Source(c) = "FILES" => Asks(f) < 15
           /\ Source(c) = "FILES" /\ Get(c, "location") # "REMOTE" => f # "server"
           /\ Get(c, "gl_location") # "REMOTE" => Asks(f) < 16
<1>1. /\ f # "artifact_server"
      /\ f = "ca" => Source(c) = "DATABASE" /\ Get(c, "tls") = TRUE
      /\ f \in {"docker", "path"} => Source(c) = "DATABASE" /\ Get(c, "engine") = "MSSQL"
      /\ f = "host_path" => /\ Source(c) = "DATABASE" /\ Get(c, "engine") = "MSSQL"
                            /\ Get(c, "docker") = TRUE
      /\ f \in {"location", "paths"} => Source(c) = "FILES"
      /\ f = "server" => Source(c) = "FILES" /\ Get(c, "location") = "REMOTE"
      /\ f = "gl_location" => Source(c) = "GITLAB"
      /\ f \in {"gl_server", "gl_path"} => Source(c) = "GITLAB" /\ Get(c, "gl_location") = "REMOTE"
  BY DEF Asked
<1>2. \/ f \in {"source", "engine", "preservable", "keep_password", "tls"} /\ Asks(f) < 8
      \/ f = "ca" /\ Asks(f) = 7
      \/ f \in {"docker", "path"} /\ Asks(f) < 10 /\ Asks(f) > 7
      \/ f = "host_path" /\ Asks(f) = 10
      \/ f = "artifact_server"
      \/ f \in {"location", "paths", "server"} /\ Asks(f) < 15
      \/ f = "gl_location" /\ Asks(f) = 15
      \/ f \in {"gl_server", "gl_path"}
  BY AsksTable DEF Fields
<1>3. Asks(f) \in Nat
  BY Ranks
<1>4. Source(c) = "DATABASE" => Asks(f) < 11
  BY <1>1, <1>2, <1>3
<1>5. Source(c) = "DATABASE" /\ Get(c, "engine") # "MSSQL" => Asks(f) < 8
  BY <1>1, <1>2, <1>3
<1>6. ASSUME Source(c) = "DATABASE", Get(c, "docker") # TRUE
      PROVE  Asks(f) < 10
  <2>1. f # "host_path"
    BY <1>1, <1>6, Zenon
  <2>2. f \notin {"location", "paths", "server", "gl_location", "gl_server", "gl_path",
                  "artifact_server"}
    BY <1>1, <1>6
  <2> QED BY <1>2, <1>3, <2>1, <2>2
<1>7. Source(c) = "DATABASE" /\ Get(c, "tls") # TRUE => f # "ca"
  BY <1>1
<1>8. Source(c) = "FILES" => Asks(f) < 15
  BY <1>1, <1>2, <1>3
<1>9. Source(c) = "FILES" /\ Get(c, "location") # "REMOTE" => f # "server"
  BY <1>1
<1>10. Get(c, "gl_location") # "REMOTE" => Asks(f) < 16
  BY <1>1, <1>2, <1>3
<1> QED BY <1>4, <1>5, <1>6, <1>7, <1>8, <1>9, <1>10

\* Where a step of the dialogue is, and what it finds there.
LEMMA AtStep ==
    ASSUME IInv, state \in Steps
    PROVE  /\ Last(clean) \in Drafts /\ Reached(state, Last(clean), original)
           /\ state \in DatabaseSteps => Source(Last(clean)) = "DATABASE"
           /\ state \in FilesSteps => Source(Last(clean)) = "FILES"
           /\ state \in GitlabSteps => Source(Last(clean)) = "GITLAB"
           /\ state \in {"GITLAB_SERVER", "GITLAB_REMOTE_PATH"} =>
                 Get(Last(clean), "gl_location") = "REMOTE"
<1>1. state # Nothing
  BY WizardAssumption
<1> QED BY <1>1, PathIs DEF Reached, Belongs

LEMMA TlsKeeps ==
    ASSUME IInv, AddTls
    PROVE  IInv'
<1>1. /\ state = "TLS" /\ UNCHANGED <<options, secrets>>
      /\ \E verify \in BOOLEAN : Advance(IF verify THEN "TLS_CA" ELSE AfterTls, [tls |-> verify])
  BY DEF AddTls, At, Keeps
<1>2. PICK verify \in BOOLEAN : Advance(IF verify THEN "TLS_CA" ELSE AfterTls, [tls |-> verify])
  BY <1>1
<1> DEFINE new == IF verify THEN "TLS_CA" ELSE AfterTls
           a == [tls |-> verify]
           c == Last(clean)
           p == Put(c, a)
<1>3. state \in Steps /\ new \in Steps /\ new \in {"TLS_CA", "MSSQL_DOCKER", "SCHEDULE"}
  BY <1>1 DEF Steps, AfterTls
<1>4. IsAnswer(a) /\ DOMAIN a = {"tls"} /\ a["tls"] = verify
  BY AnswersAre
<1>5. c \in Drafts /\ Source(c) = "DATABASE"
  BY <1>1, <1>3, AtStep DEF DatabaseSteps
<1>6. Get(draft, "engine") = Get(c, "engine")
  <2>1. Asked(c, "engine") /\ Asks("engine") < Rank("TLS") /\ "engine" \in Fields
    BY <1>5, AsksTable, RankTable DEF Asked, Fields
  <2> QED BY <1>1, <1>3, <2>1, DraftAgrees
<1> HIDE DEF c, a
<1>7. Source(p) = "DATABASE" /\ Get(p, "engine") = Get(draft, "engine") /\ Get(p, "tls") = verify
  BY <1>4, <1>5, <1>6, PutIs DEF Fields, Source
<1>8. Onward("TLS", new, c, a)
  <2>1. ASSUME NEW f \in Fields, Rank("TLS") <= Asks(f), Asks(f) < Rank(new), Asked(p, f)
        PROVE  f = "tls"
    <3>1. Asks(f) < 19 /\ Asks(f) >= 6
      BY <1>3, <2>1, RankTable, AsksTable DEF Fields
    <3>2. CASE verify = TRUE
      <4>1. Asks(f) < 7
        BY <2>1, <3>2, RankTable
      <4> QED BY <3>1, <4>1, AsksTable DEF Fields
    <3>3. CASE verify = FALSE
      <4>1. Asks(f) < 8 /\ f # "ca"
        <5>1. f # "ca" /\ (Get(draft, "engine") # "MSSQL" => Asks(f) < 8)
          BY <1>7, <2>1, <3>1, <3>3, Skipped
        <5>2. Get(draft, "engine") = "MSSQL" => Asks(f) < 8
          BY <2>1, <3>3, RankTable DEF AfterTls
        <5> QED BY <5>1, <5>2
      <4> QED BY <3>1, <4>1, AsksTable DEF Fields
    <3> QED BY <3>2, <3>3
  <2>2. Rank("TLS") < Rank(new) /\ Asks("tls") = Rank("TLS") /\ Rank("TLS") = 6
    BY <1>3, RankTable, AsksTable
  <2>3. a["tls"] # Nothing
    BY <1>4, WizardAssumption
  <2>4. "TLS" \in DatabaseSteps /\ new \notin FilesSteps /\ new \notin GitlabSteps
    BY <1>3 DEF DatabaseSteps, FilesSteps, GitlabSteps
  <2> HIDE DEF new
  <2> QED BY <1>4, <2>1, <2>2, <2>3, <2>4 DEF Onward, Decisive, GitlabSteps, p
<1> QED BY <1>1, <1>2, <1>3, <1>4, <1>8, Typed, OnwardKeeps DEF a, c

LEMMA TlsCaKeeps ==
    ASSUME IInv, AddTlsCa
    PROVE  IInv'
<1> DEFINE a == [ca |-> "set"]
           c == Last(clean)
           p == Put(c, a)
<1>1. /\ state = "TLS_CA" /\ Advance(AfterTls, a) /\ UNCHANGED <<options, secrets>>
      /\ state \in Steps /\ AfterTls \in Steps /\ AfterTls \in {"MSSQL_DOCKER", "SCHEDULE"}
  BY DEF AddTlsCa, At, Keeps, Steps, AfterTls
<1>2. IsAnswer(a) /\ DOMAIN a = {"ca"} /\ a["ca"] = "set"
  BY AnswersAre
<1>3. c \in Drafts /\ Source(c) = "DATABASE"
  BY <1>1, AtStep DEF DatabaseSteps
<1>4. Get(draft, "engine") = Get(c, "engine")
  <2>1. Asked(c, "engine") /\ Asks("engine") < Rank("TLS_CA") /\ "engine" \in Fields
    BY <1>3, AsksTable, RankTable DEF Asked, Fields
  <2> QED BY <1>1, <2>1, DraftAgrees
<1> HIDE DEF c, a
<1>5. Source(p) = "DATABASE" /\ Get(p, "engine") = Get(draft, "engine")
  BY <1>2, <1>3, <1>4, PutIs DEF Fields, Source
<1>6. Onward("TLS_CA", AfterTls, c, a)
  <2>1. ASSUME NEW f \in Fields, Rank("TLS_CA") <= Asks(f), Asks(f) < Rank(AfterTls), Asked(p, f)
        PROVE  f = "ca"
    <3>1. Asks(f) < 19 /\ Asks(f) >= 7
      BY <1>1, <2>1, RankTable, AsksTable DEF Fields
    <3>2. Get(draft, "engine") # "MSSQL" => Asks(f) < 8
      BY <1>5, <2>1, <3>1, Skipped
    <3>3. Get(draft, "engine") = "MSSQL" => Asks(f) < 8
      BY <2>1, RankTable DEF AfterTls
    <3> QED BY <3>1, <3>2, <3>3, AsksTable DEF Fields
  <2>2. Rank("TLS_CA") < Rank(AfterTls) /\ Asks("ca") = Rank("TLS_CA") /\ Rank("TLS_CA") = 7
    BY <1>1, RankTable, AsksTable
  <2>3. a["ca"] # Nothing
    BY <1>2, WizardAssumption DEF Replies
  <2>4. "TLS_CA" \in DatabaseSteps /\ AfterTls \notin FilesSteps /\ AfterTls \notin GitlabSteps
    BY <1>1 DEF DatabaseSteps, FilesSteps, GitlabSteps
  <2> QED BY <1>2, <2>1, <2>2, <2>3, <2>4 DEF Onward, Decisive, GitlabSteps, p
<1> QED BY <1>1, <1>2, <1>6, Typed, OnwardKeeps DEF c

LEMMA DockerKeeps ==
    ASSUME IInv, AddMssqlDocker
    PROVE  IInv'
<1>1. /\ state = "MSSQL_DOCKER" /\ UNCHANGED <<options, secrets>>
      /\ "MSSQL_DOCKER" \in Steps /\ "MSSQL_PATH" \in Steps
      /\ \E docker \in BOOLEAN : Advance("MSSQL_PATH", [docker |-> docker])
  BY DEF AddMssqlDocker, At, Keeps, Steps
<1>2. PICK docker \in BOOLEAN : Advance("MSSQL_PATH", [docker |-> docker])
  BY <1>1
<1> DEFINE a == [docker |-> docker]
<1>3. IsAnswer(a) /\ DOMAIN a = {"docker"} /\ a["docker"] # Nothing
  BY AnswersAre, WizardAssumption
<1> HIDE DEF a
<1>4. Onward("MSSQL_DOCKER", "MSSQL_PATH", Last(clean), a)
  <2>1. \A f \in Fields : Rank("MSSQL_DOCKER") <= Asks(f) /\ Asks(f) < Rank("MSSQL_PATH") =>
           f = "docker"
    BY AsksTable, RankTable DEF Fields
  <2> QED BY <1>3, <2>1, AsksTable, RankTable
          DEF Onward, Decisive, DatabaseSteps, FilesSteps, GitlabSteps
<1> QED BY <1>1, <1>2, <1>3, <1>4, Typed, OnwardKeeps DEF a

\* What comes after the paths of SQL Server.
LEMMA AfterPathsIs ==
    /\ AfterMssqlPaths \in Steps /\ AfterMssqlPaths \in {"MSSQL_SERVER", "SCHEDULE"}
    /\ MssqlOptions => options' \in {options, "servers"}
  BY DEF AfterMssqlPaths, MssqlOptions, Steps

LEMMA MssqlPathKeeps ==
    ASSUME IInv, AddMssqlPath
    PROVE  IInv'
<1> DEFINE a == [path |-> "set"]
           c == Last(clean)
           p == Put(c, a)
           new == IF Get(draft, "docker") = TRUE THEN "MSSQL_HOST_PATH" ELSE AfterMssqlPaths
<1>1. /\ state = "MSSQL_PATH" /\ Advance(new, a)
      /\ options' \in {options, "servers"} /\ UNCHANGED secrets
  BY AfterPathsIs DEF AddMssqlPath, At
<1>2. state \in Steps /\ new \in Steps /\ new \in {"MSSQL_HOST_PATH", "MSSQL_SERVER", "SCHEDULE"}
  BY <1>1, AfterPathsIs DEF Steps
<1>3. IsAnswer(a) /\ DOMAIN a = {"path"} /\ a["path"] = "set"
  BY AnswersAre
<1>4. c \in Drafts /\ Source(c) = "DATABASE" /\ Reached("MSSQL_PATH", c, original)
  BY <1>1, <1>2, AtStep DEF DatabaseSteps
<1> HIDE DEF c, a
<1>5. Source(p) = "DATABASE" /\ Get(p, "engine") = Get(c, "engine")
         /\ Get(p, "docker") = Get(c, "docker")
  BY <1>3, <1>4, PutIs DEF Fields, Source
<1>6. Onward("MSSQL_PATH", new, c, a)
  <2>1. ASSUME NEW f \in Fields, Rank("MSSQL_PATH") <= Asks(f), Asks(f) < Rank(new), Asked(p, f)
        PROVE  f = "path"
    <3>1. Asks(f) < 19 /\ Asks(f) >= 9
      BY <1>2, <2>1, RankTable, AsksTable DEF Fields
    <3>2. CASE Get(draft, "docker") = TRUE
      <4>1. Asks(f) < 10
        BY <2>1, <3>2, RankTable
      <4> QED BY <3>1, <4>1, AsksTable DEF Fields
    <3>3. CASE Get(draft, "docker") # TRUE
      <4>1. Get(c, "docker") # TRUE
        <5>1. Stands(c, draft)
          BY <1>1, <1>2, WizardAssumption, PathIs DEF c
        <5>2. SUFFICES ASSUME Get(c, "docker") = TRUE PROVE FALSE
          OBVIOUS
        <5>3. "docker" \in Fields /\ TRUE # Nothing
          BY WizardAssumption DEF Fields
        <5> QED BY <3>3, <5>1, <5>2, <5>3, Zenon DEF Stands
      <4>2. Asks(f) < 10
        BY <1>5, <2>1, <3>1, <4>1, Skipped
      <4> QED BY <3>1, <4>2, AsksTable DEF Fields
    <3> QED BY <3>2, <3>3
  <2>2. Rank("MSSQL_PATH") < Rank(new) /\ Asks("path") = Rank("MSSQL_PATH")
           /\ Rank("MSSQL_PATH") = 9
    BY <1>2, RankTable, AsksTable
  <2>3. a["path"] # Nothing
    BY <1>3, WizardAssumption DEF Replies
  <2>4. "MSSQL_PATH" \in DatabaseSteps /\ new \notin FilesSteps /\ new \notin GitlabSteps
    BY <1>2 DEF DatabaseSteps, FilesSteps, GitlabSteps
  <2> HIDE DEF new
  <2> QED BY <1>3, <2>1, <2>2, <2>3, <2>4 DEF Onward, Decisive, GitlabSteps, p
<1>7. options' \in {"none", "servers", "admins"}
         /\ secrets' \subseteq {"database_credential", "age_unlock"}
  BY <1>1, Typed
<1> QED BY <1>1, <1>2, <1>3, <1>6, <1>7, OnwardKeeps DEF c

LEMMA HostPathKeeps ==
    ASSUME IInv, AddMssqlHostPath
    PROVE  IInv'
<1> DEFINE a == [host_path |-> "set"]
           c == Last(clean)
           p == Put(c, a)
<1>1. /\ state = "MSSQL_HOST_PATH" /\ Advance(AfterMssqlPaths, a) /\ state \in Steps
      /\ options' \in {options, "servers"} /\ UNCHANGED secrets
  BY AfterPathsIs DEF AddMssqlHostPath, At, Steps
<1>2. IsAnswer(a) /\ DOMAIN a = {"host_path"} /\ a["host_path"] # Nothing
  BY AnswersAre, WizardAssumption DEF Replies
<1>3. c \in Drafts /\ Source(c) = "DATABASE"
  BY <1>1, AtStep DEF DatabaseSteps
<1> HIDE DEF c, a
<1>4. Source(p) = "DATABASE"
  BY <1>2, <1>3, PutIs DEF Fields, Source
<1>5. Onward("MSSQL_HOST_PATH", AfterMssqlPaths, c, a)
  <2>1. ASSUME NEW f \in Fields, Rank("MSSQL_HOST_PATH") <= Asks(f),
               Asks(f) < Rank(AfterMssqlPaths), Asked(p, f)
        PROVE  f = "host_path"
    <3>1. Asks(f) < 19 /\ Asks(f) >= 10
      BY <2>1, AfterPathsIs, RankTable, AsksTable DEF Fields
    <3>2. Asks(f) < 11
      BY <1>4, <2>1, <3>1, Skipped
    <3> QED BY <3>1, <3>2, AsksTable DEF Fields
  <2>2. /\ Rank("MSSQL_HOST_PATH") < Rank(AfterMssqlPaths) /\ Rank("MSSQL_HOST_PATH") = 10
        /\ Asks("host_path") = Rank("MSSQL_HOST_PATH")
    BY AfterPathsIs, RankTable, AsksTable
  <2>3. /\ "MSSQL_HOST_PATH" \in DatabaseSteps
        /\ AfterMssqlPaths \notin FilesSteps /\ AfterMssqlPaths \notin GitlabSteps
    BY AfterPathsIs DEF DatabaseSteps, FilesSteps, GitlabSteps
  <2> QED BY <1>2, <2>1, <2>2, <2>3 DEF Onward, Decisive, GitlabSteps, p
<1>6. options' \in {"none", "servers", "admins"}
         /\ secrets' \subseteq {"database_credential", "age_unlock"}
  BY <1>1, Typed
<1> QED BY <1>1, <1>2, <1>5, <1>6, AfterPathsIs, OnwardKeeps DEF c

LEMMA MssqlServerKeeps ==
    ASSUME IInv, AddMssqlServer
    PROVE  IInv'
<1> DEFINE c == Last(clean)
<1>1. /\ state = "MSSQL_SERVER" /\ state \in Steps /\ "SCHEDULE" \in Steps
      /\ options' = "none" /\ UNCHANGED secrets
      /\ \/ Advance("SCHEDULE", Empty)
         \/ \E id \in servers : Advance("SCHEDULE", [artifact_server |-> id])
  BY DEF AddMssqlServer, At, Steps, Found
<1>2. c \in Drafts /\ Source(c) = "DATABASE"
  BY <1>1, AtStep DEF DatabaseSteps
<1> HIDE DEF c
<1>3. ASSUME NEW a, IsAnswer(a), DOMAIN a \subseteq {"artifact_server"}
      PROVE  Onward("MSSQL_SERVER", "SCHEDULE", c, a)
  <2>1. Source(Put(c, a)) = "DATABASE"
    BY <1>2, <1>3, PutIs DEF Fields, Source
  <2>2. ASSUME NEW f \in Fields, Rank("MSSQL_SERVER") <= Asks(f), Asks(f) < Rank("SCHEDULE"),
               Asked(Put(c, a), f)
        PROVE  FALSE
    <3>1. Asks(f) < 19 /\ Asks(f) >= 11
      BY <2>2, RankTable, AsksTable DEF Fields
    <3>2. Asks(f) < 11
      BY <2>1, <2>2, <3>1, Skipped
    <3> QED BY <3>1, <3>2, AsksTable DEF Fields
  <2>3. /\ Rank("MSSQL_SERVER") < Rank("SCHEDULE") /\ Rank("MSSQL_SERVER") = 11
        /\ Asks("artifact_server") = Rank("MSSQL_SERVER")
    BY RankTable, AsksTable
  <2> QED BY <1>3, <2>2, <2>3 DEF Onward, Decisive, DatabaseSteps, GitlabSteps, FilesSteps
<1>4. secrets' \subseteq {"database_credential", "age_unlock"}
  BY <1>1, Typed
<1>5. CASE Advance("SCHEDULE", Empty)
  BY <1>1, <1>3, <1>4, <1>5, EmptyIs, OnwardKeeps DEF c
<1>6. CASE \E id \in servers : Advance("SCHEDULE", [artifact_server |-> id])
  <2>1. PICK id \in servers : Advance("SCHEDULE", [artifact_server |-> id])
    BY <1>6
  <2>2. IsAnswer([artifact_server |-> id])
    BY AnswersAre, Typed
  <2> QED BY <1>1, <1>3, <1>4, <2>1, <2>2, OnwardKeeps DEF c
<1> QED BY <1>1, <1>5, <1>6

LEMMA FilesLocationKeeps ==
    ASSUME IInv, AddFilesLocation
    PROVE  IInv'
<1> DEFINE c == Last(clean)
<1>1. state = "FILES_LOCATION" /\ state \in Steps /\ {"FILES_PATHS", "FILES_SERVER"} \subseteq Steps
  BY DEF AddFilesLocation, At, Steps
<1>2. c \in Drafts /\ Source(c) = "FILES" /\ Reached("FILES_LOCATION", c, original)
  BY <1>1, AtStep DEF FilesSteps
<1> HIDE DEF c
<1>3. ASSUME NEW v \in {"LOCAL", "REMOTE"}, NEW new \in {"FILES_PATHS", "FILES_SERVER"},
             v = "REMOTE" <=> new = "FILES_SERVER"
      PROVE  Onward("FILES_LOCATION", new, c, [location |-> v])
  <2> DEFINE a == [location |-> v]
             p == Put(c, a)
  <2>1. IsAnswer(a) /\ DOMAIN a = {"location"} /\ a["location"] = v /\ a["location"] # Nothing
    BY AnswersAre, WizardAssumption DEF Replies
  <2> HIDE DEF a
  <2>2. Source(p) = "FILES" /\ Get(p, "location") = v
    BY <1>2, <2>1, PutIs DEF Fields, Source
  <2>3. ASSUME NEW f \in Fields, Rank("FILES_LOCATION") <= Asks(f), Asks(f) < Rank(new), Asked(p, f)
        PROVE  f = "location"
    <3>1. f \in {"location", "server"} /\ Asks(f) < 19
      BY <2>3, RankTable, AsksTable DEF Fields
    <3>2. CASE v = "REMOTE"
      BY <1>3, <2>3, <3>1, <3>2, RankTable, AsksTable
    <3>3. CASE v # "REMOTE"
      BY <2>2, <2>3, <3>1, <3>3, Skipped
    <3> QED BY <3>2, <3>3
  <2>4. /\ Rank("FILES_LOCATION") < Rank(new) /\ Asks("location") = Rank("FILES_LOCATION")
        /\ Rank("FILES_LOCATION") = 12
    BY RankTable, AsksTable
  <2>5. "FILES_LOCATION" \in FilesSteps /\ new \notin DatabaseSteps /\ new \notin GitlabSteps
    BY DEF DatabaseSteps, FilesSteps, GitlabSteps
  <2> QED BY <2>1, <2>3, <2>4, <2>5 DEF Onward, Decisive, GitlabSteps, p, a
<1>4. \A v \in {"LOCAL", "REMOTE"} : IsAnswer([location |-> v])
  BY AnswersAre
<1>5. CASE Advance("FILES_PATHS", [location |-> "LOCAL"]) /\ Keeps
  BY <1>1, <1>3, <1>4, <1>5, Typed, OnwardKeeps DEF c, Keeps
<1>6. CASE servers = {} /\ Rejected([location |-> "REMOTE"])
  <2>1. Fits([location |-> "REMOTE"], "FILES_LOCATION", c)
    BY RankTable, AsksTable DEF Fits
  <2>2. UNCHANGED <<options, secrets>> \/ Cleared
    BY <1>6 DEF Rejected
  <2> QED BY <1>1, <1>4, <1>6, <2>1, <2>2, RejectedKeeps DEF c
<1>7. CASE /\ Advance("FILES_SERVER", [location |-> "REMOTE"])
           /\ options' = "servers" /\ UNCHANGED secrets
  BY <1>1, <1>3, <1>4, <1>7, Typed, OnwardKeeps DEF c
<1> QED BY <1>5, <1>6, <1>7 DEF AddFilesLocation

LEMMA FilesServerKeeps ==
    ASSUME IInv, AddFilesServer
    PROVE  IInv'
<1>1. /\ state = "FILES_SERVER" /\ state \in Steps /\ "FILES_PATHS" \in Steps
      /\ options' = "none" /\ UNCHANGED secrets
      /\ \E id \in servers : Advance("FILES_PATHS", [server |-> id])
  BY DEF AddFilesServer, At, Steps, Found
<1>2. PICK id \in servers : Advance("FILES_PATHS", [server |-> id])
  BY <1>1
<1> DEFINE a == [server |-> id]
<1>3. IsAnswer(a) /\ DOMAIN a = {"server"} /\ a["server"] # Nothing
  BY AnswersAre, Typed, WizardAssumption
<1> HIDE DEF a
<1>4. Onward("FILES_SERVER", "FILES_PATHS", Last(clean), a)
  <2>1. \A f \in Fields : Rank("FILES_SERVER") <= Asks(f) /\ Asks(f) < Rank("FILES_PATHS") =>
           f = "server"
    BY AsksTable, RankTable DEF Fields
  <2> QED BY <1>3, <2>1, AsksTable, RankTable
          DEF Onward, Decisive, DatabaseSteps, FilesSteps, GitlabSteps
<1>5. secrets' \subseteq {"database_credential", "age_unlock"}
  BY <1>1, Typed
<1> QED BY <1>1, <1>2, <1>3, <1>4, <1>5, OnwardKeeps DEF a

LEMMA FilesPathsKeeps ==
    ASSUME IInv, AddFilesPaths
    PROVE  IInv'
<1> DEFINE c == Last(clean)
           a == [paths |-> "set"]
           p == Put(c, a)
<1>1. /\ state = "FILES_PATHS" /\ state \in Steps /\ "SCHEDULE" \in Steps
      /\ (Advance("SCHEDULE", a) /\ UNCHANGED <<options, secrets>>) \/ Rejected(a)
  BY DEF AddFilesPaths, At, Steps, Keeps
<1>2. c \in Drafts /\ Source(c) = "FILES"
  BY <1>1, AtStep DEF FilesSteps
<1>3. IsAnswer(a) /\ DOMAIN a = {"paths"} /\ a["paths"] # Nothing
  BY AnswersAre, WizardAssumption DEF Replies
<1> HIDE DEF c, a
<1>4. Source(p) = "FILES"
  BY <1>2, <1>3, PutIs DEF Fields, Source
<1>5. CASE Advance("SCHEDULE", a) /\ UNCHANGED <<options, secrets>>
  <2>1. ASSUME NEW f \in Fields, Rank("FILES_PATHS") <= Asks(f), Asks(f) < Rank("SCHEDULE"),
               Asked(p, f)
        PROVE  f = "paths"
    <3>1. Asks(f) < 19 /\ Asks(f) >= 14
      BY <2>1, RankTable, AsksTable DEF Fields
    <3>2. Asks(f) < 15
      BY <1>4, <2>1, <3>1, Skipped
    <3> QED BY <3>1, <3>2, AsksTable DEF Fields
  <2>2. /\ Rank("FILES_PATHS") < Rank("SCHEDULE") /\ Asks("paths") = Rank("FILES_PATHS")
        /\ Rank("FILES_PATHS") = 14
    BY RankTable, AsksTable
  <2>3. Onward("FILES_PATHS", "SCHEDULE", c, a)
    BY <1>3, <2>1, <2>2 DEF Onward, Decisive, DatabaseSteps, FilesSteps, GitlabSteps, p
  <2> QED BY <1>1, <1>3, <1>5, <2>3, Typed, OnwardKeeps DEF c
<1>6. CASE Rejected(a)
  <2>1. Fits(a, "FILES_PATHS", c)
    BY <1>3, RankTable, AsksTable DEF Fits
  <2>2. UNCHANGED <<options, secrets>> \/ Cleared
    BY <1>6 DEF Rejected
  <2> QED BY <1>1, <1>3, <1>6, <2>1, <2>2, RejectedKeeps DEF c
<1> QED BY <1>1, <1>5, <1>6

LEMMA GitlabLocationKeeps ==
    ASSUME IInv, AddGitlabLocation
    PROVE  IInv'
<1> DEFINE c == Last(clean)
<1>1. /\ state = "GITLAB_LOCATION" /\ state \in Steps
      /\ {"GITLAB_CONTAINER", "GITLAB_SERVER"} \subseteq Steps
      /\ UNCHANGED secrets
  BY DEF AddGitlabLocation, At, Steps
<1>2. c \in Drafts /\ Source(c) = "GITLAB" /\ Reached("GITLAB_LOCATION", c, original)
  BY <1>1, AtStep DEF GitlabSteps
<1> HIDE DEF c
<1>3. ASSUME NEW v \in {"LOCAL", "REMOTE"}
      PROVE  /\ IsAnswer(GitlabAt(v))
                   /\ DOMAIN GitlabAt(v) = {"gl_location", "gl_server", "gl_path"}
             /\ GitlabAt(v)["gl_location"] = v
             /\ GitlabAt(v)["gl_server"] = Nothing /\ GitlabAt(v)["gl_path"] = Nothing
             /\ Fits(GitlabAt(v), "GITLAB_LOCATION", c)
  <2>1. IsAnswer(GitlabAt(v)) /\ DOMAIN GitlabAt(v) = {"gl_location", "gl_server", "gl_path"}
    BY AnswersAre DEF GitlabAt
  <2>2. /\ GitlabAt(v)["gl_location"] = v
        /\ GitlabAt(v)["gl_server"] = Nothing /\ GitlabAt(v)["gl_path"] = Nothing
    BY DEF GitlabAt
  <2> QED BY <2>1, <2>2, RankTable, AsksTable DEF Fits
<1>4. ASSUME NEW v \in {"LOCAL", "REMOTE"}, NEW new \in {"GITLAB_CONTAINER", "GITLAB_SERVER"},
             v = "REMOTE" <=> new = "GITLAB_SERVER"
      PROVE  Leads("GITLAB_LOCATION", new, Put(c, GitlabAt(v)), original)
  <2> DEFINE p == Put(c, GitlabAt(v))
  <2>1. /\ Get(p, "gl_location") = v /\ v # Nothing
        /\ Get(p, "gl_server") = Nothing /\ Get(p, "gl_path") = Nothing
        /\ \A f \in Fields \ {"gl_location", "gl_server", "gl_path"} : Get(p, f) = Get(c, f)
    BY <1>2, <1>3, PutIs, WizardAssumption DEF Fields, Replies
  <2> HIDE DEF p
  <2>2. Source(p) = "GITLAB"
    BY <1>2, <2>1 DEF Source, Fields
  <2>3. \A f \in Fields : Rank("GITLAB_LOCATION") <= Asks(f) /\ Get(p, f) # Nothing =>
           Asks(f) < Rank(new)
    <3>1. Asks("gl_location") < Rank(new)
      BY RankTable, AsksTable
    <3> QED BY <1>1, <1>2, <2>1, <3>1, LaterIsOpen
  <2>4. ASSUME NEW f \in Fields, Rank("GITLAB_LOCATION") <= Asks(f), Asks(f) < Rank(new),
               Asked(p, f)
        PROVE  f = "gl_location"
    <3>1. f \in {"gl_location", "gl_server"} /\ Asks(f) < 19
      BY <2>4, RankTable, AsksTable DEF Fields
    <3>2. CASE v = "REMOTE"
      BY <1>4, <2>4, <3>1, <3>2, RankTable, AsksTable
    <3>3. CASE v # "REMOTE"
      <4>1. Get(p, "gl_location") # "REMOTE"
        BY <2>1, <3>3
      <4>2. Asks(f) < 16
        BY <2>4, <3>1, <4>1, Skipped
      <4> QED BY <3>1, <4>2, AsksTable
    <3> QED BY <3>2, <3>3
  <2>5. Rank("GITLAB_LOCATION") < Rank(new)
    BY RankTable
  <2>6. Belongs(new, p)
    BY <1>4, <2>1, <2>2 DEF Belongs, DatabaseSteps, FilesSteps, GitlabSteps
  <2>7. Keeping(p, original)
    BY <1>2, <2>1 DEF Reached, Keeping, Fields
  <2> QED BY <2>1, <2>3, <2>4, <2>5, <2>6, <2>7 DEF Leads, p
<1>5. CASE Advance("GITLAB_CONTAINER", GitlabAt("LOCAL")) /\ UNCHANGED options
  BY <1>1, <1>3, <1>4, <1>5, Typed, AdvanceKeeps DEF c
<1>6. CASE /\ draft' = Put(draft, GitlabAt("REMOTE"))
           /\ UNCHANGED <<servers, state, history, options, invalid, original, returns,
                          turning, clean, saved>>
  <2>1. invalid' \in 0 .. InvalidLimit - 1 /\ turning' \in BOOLEAN
    BY <1>6 DEF IInv, WizardTypeOK
  <2> QED BY <1>1, <1>3, <1>6, <2>1, RewriteKeeps DEF c
<1>7. CASE Advance("GITLAB_SERVER", GitlabAt("REMOTE")) /\ options' = "servers"
  BY <1>1, <1>3, <1>4, <1>7, Typed, AdvanceKeeps DEF c
<1> QED BY <1>5, <1>6, <1>7 DEF AddGitlabLocation

LEMMA GitlabServerKeeps ==
    ASSUME IInv, AddGitlabServer
    PROVE  IInv'
<1>1. /\ state = "GITLAB_SERVER" /\ state \in Steps /\ "GITLAB_CONTAINER" \in Steps
      /\ options' = "none" /\ UNCHANGED secrets
      /\ \E id \in servers : Advance("GITLAB_CONTAINER", [gl_server |-> id])
  BY DEF AddGitlabServer, At, Steps, Found
<1>2. PICK id \in servers : Advance("GITLAB_CONTAINER", [gl_server |-> id])
  BY <1>1
<1> DEFINE a == [gl_server |-> id]
<1>3. IsAnswer(a) /\ DOMAIN a = {"gl_server"} /\ a["gl_server"] # Nothing
  BY AnswersAre, Typed, WizardAssumption
<1> HIDE DEF a
<1>4. Onward("GITLAB_SERVER", "GITLAB_CONTAINER", Last(clean), a)
  <2>1. \A f \in Fields : Rank("GITLAB_SERVER") <= Asks(f) /\ Asks(f) < Rank("GITLAB_CONTAINER") =>
           f = "gl_server"
    BY AsksTable, RankTable DEF Fields
  <2>2. Get(Last(clean), "gl_location") = "REMOTE"
    BY <1>1, AtStep
  <2> QED BY <1>3, <2>1, <2>2, AsksTable, RankTable
          DEF Onward, Decisive, DatabaseSteps, FilesSteps, GitlabSteps
<1>5. secrets' \subseteq {"database_credential", "age_unlock"}
  BY <1>1, Typed
<1> QED BY <1>1, <1>2, <1>3, <1>4, <1>5, OnwardKeeps DEF a

LEMMA GitlabContainerKeeps ==
    ASSUME IInv, AddGitlabContainer
    PROVE  IInv'
<1> DEFINE c == Last(clean)
           p == Put(c, Empty)
           new == IF Get(draft, "gl_location") = "LOCAL" THEN "SCHEDULE" ELSE "GITLAB_REMOTE_PATH"
<1>1. /\ state = "GITLAB_CONTAINER" /\ state \in Steps /\ UNCHANGED <<options, secrets>>
      /\ Advance(new, Empty) /\ new \in Steps
  BY DEF AddGitlabContainer, At, Keeps, Steps
<1>2. c \in Drafts /\ Source(c) = "GITLAB" /\ Reached("GITLAB_CONTAINER", c, original)
  BY <1>1, AtStep DEF GitlabSteps
<1>3. Get(draft, "gl_location") = Get(c, "gl_location")
  <2>1. Asked(c, "gl_location") /\ Asks("gl_location") < Rank("GITLAB_CONTAINER")
    BY <1>2, AsksTable, RankTable DEF Asked
  <2> QED BY <1>1, <2>1, DraftAgrees DEF Fields
<1> HIDE DEF c
<1>4. Get(c, "gl_location") \in {"LOCAL", "REMOTE"}
  BY <1>2, RankTable DEF Reached, Belongs
<1>5. Get(p, "gl_location") = Get(c, "gl_location")
  BY <1>2, EmptyIs, PutIs DEF Fields
<1>6. Onward("GITLAB_CONTAINER", new, c, Empty)
  <2>1. ASSUME NEW f \in Fields, Rank("GITLAB_CONTAINER") <= Asks(f), Asks(f) < Rank(new),
               Asked(p, f)
        PROVE  FALSE
    <3>1. Asks(f) < 19 /\ Asks(f) >= 17
      BY <2>1, RankTable, AsksTable DEF Fields
    <3>2. CASE Get(draft, "gl_location") = "LOCAL"
      <4>1. Asks(f) < 16
        BY <1>3, <1>5, <2>1, <3>1, <3>2, Skipped
      <4> QED BY <3>1, <4>1, AsksTable DEF Fields
    <3>3. CASE Get(draft, "gl_location") # "LOCAL"
      BY <2>1, <3>1, <3>3, RankTable, AsksTable DEF Fields
    <3> QED BY <3>2, <3>3
  <2>2. Rank("GITLAB_CONTAINER") < Rank(new)
    BY RankTable
  <2>3. new = "GITLAB_REMOTE_PATH" => Get(c, "gl_location") = "REMOTE"
    BY <1>3, <1>4
  <2>4. /\ "GITLAB_CONTAINER" \in GitlabSteps /\ new \notin DatabaseSteps /\ new \notin FilesSteps
        /\ new # "GITLAB_SERVER"
    BY DEF DatabaseSteps, FilesSteps, GitlabSteps
  <2> HIDE DEF new
  <2> QED BY <2>1, <2>2, <2>3, <2>4, EmptyIs DEF Onward, p
<1> QED BY <1>1, <1>6, EmptyIs, Typed, OnwardKeeps DEF c

LEMMA GitlabPathKeeps ==
    ASSUME IInv, AddGitlabRemotePath
    PROVE  IInv'
<1> DEFINE c == Last(clean)
           a == [gl_path |-> "set"]
<1>1. /\ state = "GITLAB_REMOTE_PATH" /\ state \in Steps /\ "SCHEDULE" \in Steps
      /\ (Advance("SCHEDULE", a) /\ UNCHANGED <<options, secrets>>) \/ Rejected(a)
  BY DEF AddGitlabRemotePath, At, Steps, Keeps
<1>2. Get(c, "gl_location") = "REMOTE"
  BY <1>1, AtStep
<1>3. IsAnswer(a) /\ DOMAIN a = {"gl_path"} /\ a["gl_path"] # Nothing
  BY AnswersAre, WizardAssumption DEF Replies
<1> HIDE DEF c, a
<1>4. CASE Advance("SCHEDULE", a) /\ UNCHANGED <<options, secrets>>
  <2>1. \A f \in Fields : Rank("GITLAB_REMOTE_PATH") <= Asks(f) /\ Asks(f) < Rank("SCHEDULE") =>
           f = "gl_path"
    BY AsksTable, RankTable DEF Fields
  <2>2. Onward("GITLAB_REMOTE_PATH", "SCHEDULE", c, a)
    BY <1>2, <1>3, <2>1, RankTable, AsksTable
    DEF Onward, Decisive, DatabaseSteps, FilesSteps, GitlabSteps
  <2> QED BY <1>1, <1>3, <1>4, <2>2, Typed, OnwardKeeps DEF c
<1>5. CASE Rejected(a)
  <2>1. Fits(a, "GITLAB_REMOTE_PATH", c)
    BY <1>2, <1>3, RankTable, AsksTable DEF Fits
  <2>2. UNCHANGED <<options, secrets>> \/ Cleared
    BY <1>5 DEF Rejected
  <2> QED BY <1>1, <1>3, <1>5, <2>1, <2>2, RejectedKeeps DEF c
<1> QED BY <1>1, <1>4, <1>5

\* A step without an answer, between whose states nothing is asked for.
LEMMA PassKeeps ==
    ASSUME IInv, NEW s \in Steps, NEW new \in Steps, state = s, Advance(new, Empty), Keeps,
           Rank(s) < Rank(new), s \notin {"NAME", "SOURCE", "GITLAB_LOCATION"},
           new \notin DatabaseSteps, new \notin FilesSteps, new \notin GitlabSteps,
           \A f \in Fields : ~(Rank(s) <= Asks(f) /\ Asks(f) < Rank(new))
    PROVE  IInv'
<1>1. Onward(s, new, Last(clean), Empty)
  BY EmptyIs DEF Onward, GitlabSteps
<1> QED BY <1>1, EmptyIs, Typed, OnwardKeeps DEF Keeps

\* A step whose answer is one field, the only one asked for before the new state.
LEMMA FieldKeeps ==
    ASSUME IInv, NEW s \in Steps, NEW new \in Steps, state = s, NEW a, IsAnswer(a),
           NEW f0 \in Fields,
           DOMAIN a = {f0}, a[f0] # Nothing, Advance(new, a), f0 \notin Decisive,
           f0 \notin {"gl_server", "gl_path"},
           options' \in {"none", "servers", "admins"},
           secrets' \subseteq {"database_credential", "age_unlock"},
           Rank(s) <= Asks(f0), Asks(f0) < Rank(new),
           s \notin {"NAME", "SOURCE", "GITLAB_LOCATION"},
           new \notin DatabaseSteps, new \notin FilesSteps, new \notin GitlabSteps,
           \A f \in Fields : Rank(s) <= Asks(f) /\ Asks(f) < Rank(new) =>
              f = f0 \/ ~Asked(Put(Last(clean), a), f)
    PROVE  IInv'
<1>1. Rank(s) < Rank(new)
  BY Ranks
<1>2. Onward(s, new, Last(clean), a)
  BY <1>1 DEF Onward, GitlabSteps
<1> QED BY <1>2, OnwardKeeps

LEMMA ScheduleKeeps ==
    ASSUME IInv, AddSchedule
    PROVE  IInv'
<1>1. PICK mode \in {"INTERVAL", "SCHEDULE_VALUE"} : Advance(mode, Empty) /\ Keeps
  BY DEF AddSchedule
<1>2. state = "SCHEDULE" /\ "SCHEDULE" \in Steps /\ mode \in Steps
  BY DEF AddSchedule, At, Steps
<1>3. \A f \in Fields : ~(Rank("SCHEDULE") <= Asks(f) /\ Asks(f) < Rank(mode))
  BY AsksTable, RankTable DEF Fields
<1> QED BY <1>1, <1>2, <1>3, RankTable, PassKeeps DEF DatabaseSteps, FilesSteps, GitlabSteps

\* The steps that complete the schedule.
LEMMA ScheduledKeeps ==
    ASSUME IInv, NEW s \in {"INTERVAL", "SCHEDULE_VALUE"}, state = s,
           Advance("ARCHIVE", Scheduled), Keeps
    PROVE  IInv'
<1>1. s \in Steps /\ "ARCHIVE" \in Steps
  BY DEF Steps
<1>2. IsAnswer(Scheduled) /\ DOMAIN Scheduled = {"schedule"} /\ Scheduled["schedule"] # Nothing
  BY AnswersAre, WizardAssumption DEF Scheduled, Replies
<1>3. /\ Rank(s) <= Asks("schedule") /\ Asks("schedule") < Rank("ARCHIVE")
      /\ \A f \in Fields : Rank(s) <= Asks(f) /\ Asks(f) < Rank("ARCHIVE") => f = "schedule"
  BY AsksTable, RankTable DEF Fields
<1>4. "schedule" \in Fields /\ "schedule" \notin Decisive
  BY DEF Fields, Decisive
<1> QED BY <1>1, <1>2, <1>3, <1>4, Typed, FieldKeeps DEF Keeps, DatabaseSteps, FilesSteps,
    GitlabSteps

LEMMA IntervalKeeps ==
    ASSUME IInv, AddInterval \/ AddScheduleValue
    PROVE  IInv'
<1>1. CASE state \in {"INTERVAL", "SCHEDULE_VALUE"} /\ Advance("ARCHIVE", Scheduled) /\ Keeps
  BY <1>1, ScheduledKeeps
<1>2. CASE state = "INTERVAL" /\ Advance("SCHEDULE_VALUE", Empty) /\ Keeps
  <2>1. \A f \in Fields : ~(Rank("INTERVAL") <= Asks(f) /\ Asks(f) < Rank("SCHEDULE_VALUE"))
    BY AsksTable, RankTable DEF Fields
  <2>2. "INTERVAL" \in Steps /\ "SCHEDULE_VALUE" \in Steps
    BY DEF Steps
  <2> QED BY <1>2, <2>1, <2>2, RankTable, PassKeeps DEF DatabaseSteps, FilesSteps, GitlabSteps
<1> QED BY <1>1, <1>2 DEF AddInterval, AddScheduleValue, At

LEMMA ArchiveKeeps ==
    ASSUME IInv, AddArchive
    PROVE  IInv'
<1>1. state = "ARCHIVE" /\ Advance("COMPRESSION", Empty) /\ Keeps
      /\ "ARCHIVE" \in Steps /\ "COMPRESSION" \in Steps
  BY DEF AddArchive, At, Steps
<1>2. \A f \in Fields : ~(Rank("ARCHIVE") <= Asks(f) /\ Asks(f) < Rank("COMPRESSION"))
  BY AsksTable, RankTable DEF Fields
<1> QED BY <1>1, <1>2, RankTable, PassKeeps DEF DatabaseSteps, FilesSteps, GitlabSteps

\* The steps that complete the compression.
LEMMA CompressedKeeps ==
    ASSUME IInv, NEW s \in {"COMPRESSION", "PRESET"}, state = s,
           Advance("ENCRYPTION", Compressed), Keeps
    PROVE  IInv'
<1>1. s \in Steps /\ "ENCRYPTION" \in Steps
  BY DEF Steps
<1>2. IsAnswer(Compressed) /\ DOMAIN Compressed = {"compression"}
         /\ Compressed["compression"] # Nothing
  BY AnswersAre, WizardAssumption DEF Compressed, Replies
<1>3. /\ Rank(s) <= Asks("compression") /\ Asks("compression") < Rank("ENCRYPTION")
      /\ \A f \in Fields : Rank(s) <= Asks(f) /\ Asks(f) < Rank("ENCRYPTION") => f = "compression"
  BY AsksTable, RankTable DEF Fields
<1>4. "compression" \in Fields /\ "compression" \notin Decisive
  BY DEF Fields, Decisive
<1> QED BY <1>1, <1>2, <1>3, <1>4, Typed, FieldKeeps DEF Keeps, DatabaseSteps, FilesSteps,
    GitlabSteps

LEMMA CompressionKeeps ==
    ASSUME IInv, AddCompression \/ AddPreset
    PROVE  IInv'
<1>1. CASE state \in {"COMPRESSION", "PRESET"} /\ Advance("ENCRYPTION", Compressed) /\ Keeps
  BY <1>1, CompressedKeeps
<1>2. CASE state = "COMPRESSION" /\ Advance("PRESET", Empty) /\ Keeps
  <2>1. \A f \in Fields : ~(Rank("COMPRESSION") <= Asks(f) /\ Asks(f) < Rank("PRESET"))
    BY AsksTable, RankTable DEF Fields
  <2>2. "COMPRESSION" \in Steps /\ "PRESET" \in Steps
    BY DEF Steps
  <2> QED BY <1>2, <2>1, <2>2, RankTable, PassKeeps DEF DatabaseSteps, FilesSteps, GitlabSteps
<1> QED BY <1>1, <1>2 DEF AddCompression, AddPreset, At

LEMMA EncryptionKeeps ==
    ASSUME IInv, AddEncryption
    PROVE  IInv'
<1>1. PICK mode \in {"NONE", "PUBLIC_KEY", "PASSPHRASE"} :
         IF mode = "NONE" THEN ToAdmins([encryption |-> mode])
         ELSE Advance("ENCRYPTION_SECRET", [encryption |-> mode]) /\ UNCHANGED options
  BY DEF AddEncryption
<1> DEFINE a == [encryption |-> mode]
           new == IF mode = "NONE" THEN "ADMINS" ELSE "ENCRYPTION_SECRET"
           p == Put(Last(clean), a)
<1>2. /\ state = "ENCRYPTION" /\ state \in Steps /\ new \in Steps /\ Advance(new, a)
      /\ options' \in {options, "admins"} /\ UNCHANGED secrets
  BY <1>1 DEF AddEncryption, At, Steps, ToAdmins
<1>3. IsAnswer(a) /\ DOMAIN a = {"encryption"} /\ a["encryption"] = mode /\ mode # Nothing
  BY AnswersAre, WizardAssumption DEF Replies
<1>4. Last(clean) \in Drafts
  BY <1>2, AtStep
<1> HIDE DEF a
<1>5. Get(p, "encryption") = mode
  BY <1>3, <1>4, PutIs DEF Fields
<1>6. /\ Rank("ENCRYPTION") <= Asks("encryption") /\ Asks("encryption") < Rank(new)
      /\ \A f \in Fields : Rank("ENCRYPTION") <= Asks(f) /\ Asks(f) < Rank(new) =>
            f = "encryption" \/ (f = "keep_age" /\ mode = "NONE")
  <2>1. CASE mode = "NONE"
    BY <2>1, AsksTable, RankTable DEF Fields
  <2>2. CASE mode # "NONE"
    <3>1. Rank(new) = 26 /\ Rank("ENCRYPTION") = 25
      BY <2>2, RankTable
    <3> HIDE DEF new
    <3> QED BY <3>1, AsksTable DEF Fields
  <2> QED BY <2>1, <2>2
<1>7. mode = "NONE" => ~Asked(p, "keep_age")
  BY <1>5 DEF Asked
<1>8. "encryption" \in Fields /\ "encryption" \notin Decisive
  BY DEF Fields, Decisive
<1>9. new \notin DatabaseSteps /\ new \notin FilesSteps /\ new \notin GitlabSteps
  BY DEF DatabaseSteps, FilesSteps, GitlabSteps
<1>10. /\ options' \in {"none", "servers", "admins"}
       /\ secrets' \subseteq {"database_credential", "age_unlock"}
  BY <1>2, Typed
<1> HIDE DEF new
<1> QED BY <1>2, <1>3, <1>6, <1>7, <1>8, <1>9, <1>10, FieldKeeps

LEMMA SecretKeeps ==
    ASSUME IInv, AddEncryptionSecret
    PROVE  IInv'
<1> DEFINE c == Last(clean)
<1>1. /\ state = "ENCRYPTION_SECRET" /\ state \in Steps /\ "ADMINS" \in Steps
      /\ "ADMINS" \notin DatabaseSteps \union FilesSteps \union GitlabSteps
      /\ options' = "admins" /\ secrets' \subseteq {"database_credential", "age_unlock"}
  <2>1. secrets' \in {secrets, secrets \union {"age_unlock"}}
    BY DEF AddEncryptionSecret, Puts
  <2> QED BY <2>1, Typed
          DEF AddEncryptionSecret, At, Steps, ToAdmins, DatabaseSteps, FilesSteps, GitlabSteps
<1>2. c \in Drafts
  BY <1>1, AtStep
<1>3. \A f \in Fields : Rank("ENCRYPTION_SECRET") <= Asks(f) /\ Asks(f) < Rank("ADMINS") =>
         f = "keep_age"
  BY AsksTable, RankTable DEF Fields
<1>4. /\ Rank("ENCRYPTION_SECRET") <= Asks("keep_age") /\ Asks("keep_age") < Rank("ADMINS")
      /\ Rank("ENCRYPTION_SECRET") < Rank("ADMINS")
  BY AsksTable, RankTable
<1>5. CASE Get(draft, "encryption") = "PUBLIC_KEY" /\ Advance("ADMINS", Empty)
  <2>1. Get(c, "encryption") # "PASSPHRASE"
    <3>1. Asked(c, "encryption") /\ Asks("encryption") < Rank("ENCRYPTION_SECRET")
      BY AsksTable, RankTable DEF Asked
    <3> QED BY <1>1, <1>5, <3>1, DraftAgrees DEF Fields
  <2>2. Get(Put(c, Empty), "encryption") # "PASSPHRASE"
    BY <1>2, <2>1, EmptyIs, PutIs DEF Fields
  <2>3. ~Asked(Put(c, Empty), "keep_age")
    BY <2>2 DEF Asked
  <2>4. Onward("ENCRYPTION_SECRET", "ADMINS", c, Empty)
    BY <1>1, <1>3, <1>4, <2>3, EmptyIs DEF Onward, GitlabSteps
  <2> HIDE DEF c
  <2> QED BY <1>1, <1>5, <2>4, EmptyIs, OnwardKeeps DEF c
<1>6. CASE \E keep \in BOOLEAN : Advance("ADMINS", [keep_age |-> keep])
  <2>1. PICK keep \in BOOLEAN : Advance("ADMINS", [keep_age |-> keep])
    BY <1>6
  <2> DEFINE a == [keep_age |-> keep]
  <2>2. IsAnswer(a) /\ DOMAIN a = {"keep_age"} /\ a["keep_age"] # Nothing
    BY AnswersAre, WizardAssumption
  <2>3. "keep_age" \in Fields /\ "keep_age" \notin Decisive
    BY DEF Fields, Decisive
  <2> HIDE DEF a
  <2> QED BY <1>1, <1>3, <1>4, <2>1, <2>2, <2>3, FieldKeeps DEF a
<1>7. \/ Get(draft, "encryption") = "PUBLIC_KEY" /\ Advance("ADMINS", Empty)
      \/ Advance("ADMINS", [keep_age |-> FALSE])
      \/ Advance("ADMINS", [keep_age |-> TRUE])
  BY DEF AddEncryptionSecret, ToAdmins
<1> QED BY <1>5, <1>6, <1>7

LEMMA AdminsKeeps ==
    ASSUME IInv, AddAdmins
    PROVE  IInv'
<1>1. state = "ADMINS" /\ Advance("CONFIRM", Empty) /\ Keeps /\ "ADMINS" \in Steps
         /\ "CONFIRM" \in Steps
  BY DEF AddAdmins, At, Steps
<1>2. \A f \in Fields : ~(Rank("ADMINS") <= Asks(f) /\ Asks(f) < Rank("CONFIRM"))
  BY AsksTable, RankTable DEF Fields
<1> QED BY <1>1, <1>2, RankTable, PassKeeps DEF DatabaseSteps, FilesSteps, GitlabSteps

LEMMA InvalidKeeps ==
    ASSUME IInv, InvalidInput
    PROVE  IInv'
<1>1. state \in Steps /\ Rejected(Empty)
  BY DEF IInv, WizardTypeOK, InvalidInput
<1>2. Fits(Empty, state, Last(clean))
  BY EmptyIs DEF Fits
<1>3. UNCHANGED <<options, secrets>> \/ Cleared
  BY <1>1 DEF Rejected
<1> QED BY <1>1, <1>2, <1>3, EmptyIs, RejectedKeeps

\* The end of a conversation, by a confirmation or otherwise.
LEMMA EndKeeps ==
    ASSUME IInv, Confirm \/ ConfirmWithoutSecret \/ Leave \/ Expires
    PROVE  IInv'
<1>1. DOMAIN saved \subseteq Fields
  BY DEF IInv, WizardTypeOK
<1>2. DOMAIN saved' \subseteq Fields
  BY <1>1 DEF Confirm, Configuration, ConfirmWithoutSecret, Leave, Expires
<1> QED BY <1>2, ClearedKeeps DEF Confirm, ConfirmWithoutSecret, Leave, Expires

\* Every step keeps the invariant.
LEMMA NextKeeps ==
    ASSUME IInv, [Next]_vars
    PROVE  IInv'
<1>1. CASE UNCHANGED vars
  <2>1. /\ UNCHANGED <<servers, state, history, draft, options, invalid>>
        /\ UNCHANGED <<secrets, original, returns, turning, clean, saved>>
    BY <1>1 DEF vars
  <2>2. Path' = Path
    BY <2>1 DEF Path
  <2>3. WizardTypeOK'
    BY <2>1 DEF IInv, WizardTypeOK
  <2>4. PathIsSound => PathIsSound'
    BY <2>1, <2>2 DEF PathIsSound, Ordered
  <2> QED BY <2>1, <2>3, <2>4 DEF IInv
<1>2. CASE \E o \in Originals \union {Nothing} : Begin(o)
  BY <1>2, BeginKeeps
<1>3. CASE AddName \/ AddSource
  BY <1>3, NameKeeps, SourceKeeps
<1>4. CASE Database
  BY <1>4, EngineKeeps, TargetKeeps, PasswordKeeps, TlsKeeps, TlsCaKeeps, DockerKeeps,
     MssqlPathKeeps, HostPathKeeps, MssqlServerKeeps DEF Database
<1>5. CASE Files
  BY <1>5, FilesLocationKeeps, FilesServerKeeps, FilesPathsKeeps DEF Files
<1>6. CASE Gitlab
  BY <1>6, GitlabLocationKeeps, GitlabServerKeeps, GitlabContainerKeeps, GitlabPathKeeps DEF Gitlab
<1>7. CASE Common
  BY <1>7, ScheduleKeeps, IntervalKeeps, ArchiveKeeps, CompressionKeeps, EncryptionKeeps,
     SecretKeeps, AdminsKeeps DEF Common
<1>8. CASE Confirm \/ ConfirmWithoutSecret \/ Leave \/ Expires
  BY <1>8, EndKeeps
<1>9. CASE Back
  BY <1>9, BackKeeps
<1>10. CASE InvalidInput
  BY <1>10, InvalidKeeps
<1> QED BY <1>1, <1>2, <1>3, <1>4, <1>5, <1>6, <1>7, <1>8, <1>9, <1>10 DEF Next

LEMMA InitHolds == Init => IInv
<1> SUFFICES ASSUME Init PROVE IInv
  OBVIOUS
<1>1. draft \in Drafts /\ DOMAIN draft = {} /\ DOMAIN saved = {} /\ clean \in Seq(Drafts)
  BY EmptyIs DEF Init
<1>2. WizardTypeOK
  <2>1. 0 \in 0 .. InvalidLimit - 1 /\ 0 \in 0 .. MaxReturns
    BY WizardAssumption
  <2>2. history \in Seq(Steps) /\ Len(clean) = 0 /\ servers \subseteq Server
    BY DEF Init
  <2>3. /\ state = Nothing /\ options = "none" /\ invalid = 0 /\ secrets = {}
        /\ original = Nothing /\ returns = 0 /\ turning = FALSE
    BY DEF Init
  <2> QED BY <1>1, <2>1, <2>2, <2>3 DEF WizardTypeOK
<1> QED BY <1>1, <1>2 DEF Init, IInv

\* The answers that stand are in the draft as they were given, and every field they ask for
\* has been answered when its place is passed, however often the user turns back.
THEOREM Invariant == Spec => []IInv
<1>1. IInv /\ [Next]_vars => IInv'
  BY NextKeeps
<1> QED BY <1>1, InitHolds, PTL DEF Spec

-----------------------------------------------------------------------------
(* What is confirmed.                                                      *)

\* At the end everything that the answers ask for has been answered.
LEMMA AllAnswered ==
    ASSUME IInv, state = "CONFIRM"
    PROVE  /\ Last(clean) \in Drafts /\ Stands(Last(clean), draft) /\ Keeping(Last(clean), original)
           /\ Source(Last(clean)) \in {"DATABASE", "FILES", "GITLAB"}
           /\ Source(Last(clean)) = "GITLAB" =>
                 Get(Last(clean), "gl_location") \in {"LOCAL", "REMOTE"}
           /\ \A f \in Fields : Asked(Last(clean), f) =>
                 Get(Last(clean), f) # Nothing /\ Get(draft, f) = Get(Last(clean), f)
<1>1. state # Nothing /\ "CONFIRM" \in Steps
  BY WizardAssumption DEF Steps
<1>2. Last(clean) \in Drafts /\ Reached("CONFIRM", Last(clean), original)
         /\ Stands(Last(clean), draft)
  BY <1>1, PathIs
<1>3. Keeping(Last(clean), original) /\ Belongs("CONFIRM", Last(clean))
  BY <1>2 DEF Reached
<1>4. \A f \in Fields : Asks(f) < Rank("CONFIRM")
  BY AsksTable, RankTable DEF Fields
<1>5. /\ Source(Last(clean)) \in {"DATABASE", "FILES", "GITLAB"}
      /\ Source(Last(clean)) = "GITLAB" => Get(Last(clean), "gl_location") \in {"LOCAL", "REMOTE"}
  BY <1>3, RankTable DEF Belongs
<1>6. \A f \in Fields : Asked(Last(clean), f) =>
                 Get(Last(clean), f) # Nothing /\ Get(draft, f) = Get(Last(clean), f)
  BY <1>2, <1>4 DEF Reached, Stands
<1> QED BY <1>2, <1>3, <1>5, <1>6

\* A GitLab profile is never refused at the end for what was answered and taken back: the
\* server and the path are there for a remote GitLab and are gone for a local one.
THEOREM WizardIsSound == Spec => []WizardInv
<1>1. IInv => GitlabIsAccepted
  <2> SUFFICES ASSUME IInv, state = "CONFIRM", Source(draft) = "GITLAB"
               PROVE  GitlabValid(draft)
    BY DEF GitlabIsAccepted, At
  <2> DEFINE c == Last(clean)
  <2>1. Source(c) = "GITLAB" /\ Get(c, "gl_location") \in {"LOCAL", "REMOTE"}
    <3>1. Asked(c, "source") /\ "source" \in Fields
      BY DEF Asked, Fields
    <3> QED BY <3>1, AllAnswered DEF Source
  <2>2. /\ Get(draft, "gl_location") = Get(c, "gl_location")
        /\ Get(c, "gl_location") = "REMOTE" =>
              Get(draft, "gl_server") # Nothing /\ Get(draft, "gl_path") # Nothing
    <3>1. /\ Asked(c, "gl_location")
          /\ Get(c, "gl_location") = "REMOTE" => Asked(c, "gl_server") /\ Asked(c, "gl_path")
      BY <2>1 DEF Asked
    <3>2. "gl_location" \in Fields /\ "gl_server" \in Fields /\ "gl_path" \in Fields
      BY DEF Fields
    <3> HIDE DEF c
    <3> QED BY <3>1, <3>2, AllAnswered DEF c
  <2>3. Get(c, "gl_location") = "LOCAL" =>
           Get(draft, "gl_server") = Nothing /\ Get(draft, "gl_path") = Nothing
    BY AllAnswered DEF Stands
  <2> QED BY <2>1, <2>2, <2>3 DEF GitlabValid
<1>2. IInv => WizardInv
  BY <1>1 DEF IInv, WizardInv
<1> QED BY <1>2, Invariant, PTL

\* Saving is confirming.
LEMMA SavedByConfirm ==
    ASSUME IInv, Next, saved' # saved
    PROVE  Confirm /\ state = "CONFIRM" /\ saved' = Configuration(draft)
<1>1. \A o : Begin(o) => saved' = saved
  BY DEF Begin
<1>2. \A new, a : Advance(new, a) => saved' = saved
  BY DEF Advance
<1>3. \A a : Rejected(a) => saved' = saved
  BY DEF Rejected
<1>4. AddName \/ AddSource => saved' = saved
  BY <1>2 DEF AddName, AddSource
<1>5. Database => saved' = saved
  BY <1>2 DEF Database, AddEngine, AddTarget, AddPassword, AddTls, AddTlsCa, AddMssqlDocker,
              AddMssqlPath, AddMssqlHostPath, AddMssqlServer
<1>6. Files \/ Gitlab => saved' = saved
  BY <1>2, <1>3 DEF Files, Gitlab, AddFilesLocation, AddFilesServer, AddFilesPaths,
                    AddGitlabLocation, AddGitlabServer, AddGitlabContainer, AddGitlabRemotePath
<1>7. Common => saved' = saved
  BY <1>2 DEF Common, AddSchedule, AddInterval, AddScheduleValue, AddArchive, AddCompression,
              AddPreset, AddEncryption, AddEncryptionSecret, AddAdmins, ToAdmins
<1>8. ConfirmWithoutSecret \/ Back \/ Leave \/ Expires \/ InvalidInput => saved' = saved
  BY <1>3 DEF ConfirmWithoutSecret, Back, Leave, Expires, InvalidInput
<1>9. Confirm
  BY <1>1, <1>4, <1>5, <1>6, <1>7, <1>8 DEF Next
<1> QED BY <1>9 DEF Confirm, At

\* What a configuration has of a draft.
LEMMA ConfigurationIs ==
    ASSUME NEW d, NEW f \in Fields \ {"preservable"}
    PROVE  Configuration(d)[f] = IF f \in {"docker", "keep_password", "keep_age"}
                                 THEN Get(d, f) = TRUE ELSE Get(d, f)
  BY DEF Configuration

\* A draft that agrees with the answers on what they ask for, and is accepted, agrees with
\* them on every field that is used: the validators refuse the remnants that are left.
LEMMA AcceptedIsAnswered ==
    ASSUME NEW c, NEW d, Stands(c, d), Accepted(d),
           Source(c) \in {"DATABASE", "FILES", "GITLAB"},
           Source(c) = "GITLAB" => Get(c, "gl_location") \in {"LOCAL", "REMOTE"},
           \A f \in Fields : Asked(c, f) => Get(c, f) # Nothing /\ Get(d, f) = Get(c, f),
           NEW f \in Relevant(Configuration(d))
    PROVE  Configuration(d)[f] = Configuration(c)[f]
<1> DEFINE s == Configuration(d)
<1>1. \A g \in Fields : Get(c, g) # Nothing => Get(d, g) = Get(c, g)
  BY DEF Stands
<1>2. Source(d) = Source(c) /\ Get(d, "encryption") = Get(c, "encryption")
  BY DEF Asked, Fields, Source
<1>3. /\ DOMAIN s = Fields \ {"preservable"} /\ Source(s) = Source(d)
      /\ Get(s, "tls") = Get(d, "tls")
  <2>1. DOMAIN s = Fields \ {"preservable"}
    BY DEF Configuration
  <2>2. "source" \in Fields \ {"preservable"} /\ "tls" \in Fields \ {"preservable"}
    BY DEF Fields
  <2>3. s["source"] = Get(d, "source") /\ s["tls"] = Get(d, "tls")
    BY <2>2, ConfigurationIs
  <2> HIDE DEF s
  <2> QED BY <2>1, <2>2, <2>3 DEF Source, Get
<1> HIDE DEF s
\* The same value, or none in the answers and one that counts as none in the draft.
<1>4. ASSUME f \in Fields \ {"preservable"}, Get(d, f) = Get(c, f)
      PROVE  Configuration(d)[f] = Configuration(c)[f]
  <2>1. CASE f \in {"docker", "keep_password", "keep_age"}
    <3>1. Configuration(d)[f] = (Get(d, f) = TRUE) /\ Configuration(c)[f] = (Get(c, f) = TRUE)
      BY <1>4, <2>1, ConfigurationIs
    <3>2. (Get(d, f) = TRUE) = (Get(c, f) = TRUE)
      BY <1>4, Zenon
    <3> QED BY <3>1, <3>2
  <2>2. CASE f \notin {"docker", "keep_password", "keep_age"}
    <3>1. Configuration(d)[f] = Get(d, f) /\ Configuration(c)[f] = Get(c, f)
      BY <1>4, <2>2, ConfigurationIs
    <3> QED BY <1>4, <3>1
  <2> QED BY <2>1, <2>2
<1>5. ASSUME f \in {"docker", "keep_password", "keep_age"}, Get(d, f) # TRUE
      PROVE  Configuration(d)[f] = Configuration(c)[f]
  <2>1. f \in Fields \ {"preservable"} /\ f \in Fields
    BY <1>5 DEF Fields
  <2>2. Get(c, f) # TRUE
    <3>1. SUFFICES ASSUME Get(c, f) = TRUE PROVE FALSE
      OBVIOUS
    <3>2. Get(c, f) # Nothing
      BY <3>1, WizardAssumption, Zenon
    <3>3. Get(d, f) = Get(c, f)
      BY <1>1, <2>1, <3>2
    <3> QED BY <1>5, <3>1, <3>3, Zenon
  <2>3. Configuration(d)[f] = (Get(d, f) = TRUE) /\ Configuration(c)[f] = (Get(c, f) = TRUE)
    BY <1>5, <2>1, ConfigurationIs
  <2>4. (Get(d, f) = TRUE) = (Get(c, f) = TRUE)
    BY <1>5, <2>2, Zenon
  <2> QED BY <2>3, <2>4
<1>6. ASSUME f \in Fields \ {"preservable"}, Asked(c, f) \/ Get(d, f) = Nothing
      PROVE  Configuration(d)[f] = Configuration(c)[f]
  BY <1>1, <1>4, <1>6
<1>7. CASE f \in {"source", "schedule", "compression", "encryption"}
  BY <1>6, <1>7 DEF Asked, Fields
<1>8. CASE f = "keep_age"
  <2>1. CASE Get(c, "encryption") = "PASSPHRASE"
    BY <1>6, <1>8, <2>1 DEF Asked, Fields
  <2>2. CASE Get(c, "encryption") # "PASSPHRASE"
    <3>1. Get(d, "keep_age") # TRUE
      BY <1>2, <2>2, Zenon DEF Accepted
    <3> QED BY <1>5, <1>8, <3>1
  <2> QED BY <2>1, <2>2
<1>9. ASSUME Source(c) = "DATABASE",
             f \in {"engine", "keep_password", "tls", "ca", "docker", "path", "host_path"},
             f = "ca" => Get(d, "tls") = TRUE
      PROVE  Configuration(d)[f] = Configuration(c)[f]
  <2>1. DatabaseValid(d)
    BY <1>2, <1>9 DEF Accepted
  <2>2. \A g \in {"engine", "keep_password", "tls"} : Asked(c, g) /\ g \in Fields \ {"preservable"}
    BY <1>9 DEF Asked, Fields
  <2>3. Get(d, "engine") = Get(c, "engine") /\ Get(d, "tls") = Get(c, "tls")
    BY <2>2
  <2>4. CASE f \in {"engine", "keep_password", "tls"}
    BY <1>6, <2>2, <2>4
  <2>5. CASE f = "ca"
    <3>1. Get(c, "tls") = TRUE
      BY <1>9, <2>3, <2>5, Zenon
    <3>2. Asked(c, "ca") /\ "ca" \in Fields \ {"preservable"}
      BY <1>9, <3>1 DEF Asked, Fields
    <3> QED BY <1>6, <2>5, <3>2
  <2>6. CASE f \in {"docker", "path"}
    <3>1. f \in Fields \ {"preservable"}
      BY <2>6 DEF Fields
    <3>2. CASE Get(c, "engine") = "MSSQL"
      <4>1. Asked(c, f)
        BY <1>9, <2>6, <3>2 DEF Asked
      <4> QED BY <1>6, <3>1, <4>1
    <3>3. CASE Get(c, "engine") # "MSSQL"
      <4>1. Get(d, "docker") # TRUE /\ Get(d, "path") = Nothing
        BY <2>1, <2>3, <3>3 DEF DatabaseValid
      <4> QED BY <1>5, <1>6, <2>6, <3>1, <4>1
    <3> QED BY <3>2, <3>3
  <2>7. CASE f = "host_path"
    <3>1. f \in Fields \ {"preservable"} /\ "docker" \in Fields
      BY <2>7 DEF Fields
    <3>2. CASE Get(c, "engine") = "MSSQL" /\ Get(d, "docker") = TRUE
      <4>1. Get(d, "docker") = Get(c, "docker")
        BY <1>9, <3>1, <3>2 DEF Asked
      <4>2. Get(c, "docker") = TRUE
        BY <3>2, <4>1, Zenon
      <4>3. Asked(c, f)
        BY <1>9, <2>7, <3>2, <4>2 DEF Asked
      <4> QED BY <1>6, <3>1, <4>3
    <3>3. CASE Get(c, "engine") # "MSSQL" \/ Get(d, "docker") # TRUE
      <4>1. Get(d, "host_path") = Nothing
        BY <2>1, <2>3, <3>3 DEF DatabaseValid
      <4> QED BY <1>6, <2>7, <3>1, <4>1
    <3> QED BY <3>2, <3>3
  <2> QED BY <1>9, <2>4, <2>5, <2>6, <2>7
<1>10. ASSUME Source(c) = "FILES", f \in {"location", "server", "paths"}
       PROVE  Configuration(d)[f] = Configuration(c)[f]
  <2>1. FilesValid(d)
    BY <1>2, <1>10 DEF Accepted
  <2>2. f \in Fields \ {"preservable"} /\ Get(d, "location") = Get(c, "location")
    BY <1>10 DEF Asked, Fields
  <2>3. Asked(c, f) \/ Get(d, f) = Nothing
    BY <1>10, <2>1, <2>2 DEF Asked, FilesValid
  <2> QED BY <1>6, <2>2, <2>3
<1>11. ASSUME Source(c) = "GITLAB", f \in {"gl_location", "gl_server", "gl_path"}
       PROVE  Configuration(d)[f] = Configuration(c)[f]
  <2>1. GitlabValid(d)
    BY <1>2, <1>11 DEF Accepted
  <2>2. f \in Fields \ {"preservable"} /\ Get(d, "gl_location") = Get(c, "gl_location")
    BY <1>11 DEF Asked, Fields
  <2>3. Asked(c, f) \/ Get(d, f) = Nothing
    BY <1>11, <2>1, <2>2 DEF Asked, GitlabValid
  <2> QED BY <1>6, <2>2, <2>3
<1>12. \/ f \in {"source", "schedule", "compression", "encryption", "keep_age"}
       \/ /\ Source(c) = "DATABASE"
          /\ f \in {"engine", "keep_password", "tls", "docker", "path", "host_path"} \union
                   (IF Get(d, "tls") = TRUE THEN {"ca"} ELSE {})
       \/ Source(c) = "FILES" /\ f \in {"location", "server", "paths"}
       \/ Source(c) = "GITLAB" /\ f \in {"gl_location", "gl_server", "gl_path"}
  <2>1. f \in Relevant(s)
    BY DEF s
  <2> QED BY <1>2, <1>3, <2>1 DEF Relevant
<1>13. ASSUME Source(c) = "DATABASE",
              f \in {"engine", "keep_password", "tls", "docker", "path", "host_path"} \union
                   (IF Get(d, "tls") = TRUE THEN {"ca"} ELSE {})
       PROVE  Configuration(d)[f] = Configuration(c)[f]
  <2>1. CASE Get(d, "tls") = TRUE
    BY <1>9, <1>13, <2>1
  <2>2. CASE Get(d, "tls") # TRUE
    <3>1. f \in {"engine", "keep_password", "tls", "docker", "path", "host_path"}
      BY <1>13, <2>2
    <3> QED BY <1>9, <1>13, <3>1
  <2> QED BY <2>1, <2>2
<1> QED BY <1>7, <1>8, <1>10, <1>11, <1>12, <1>13

\* What is saved is what the answers that stand say, however often others were given and
\* taken back.
THEOREM SavedAsAnswered == Spec => SavedIsAnswered
<1> DEFINE A == saved' # saved =>
                  LET answers == Configuration(Last(clean))
                  IN \A f \in Relevant(saved') : saved'[f] = answers[f]
<1>1. ASSUME IInv, [Next]_vars PROVE [A]_vars
  <2>1. SUFFICES ASSUME Next, saved' # saved
                 PROVE  \A f \in Relevant(saved') : saved'[f] = Configuration(Last(clean))[f]
    BY <1>1
  <2>2. Confirm /\ state = "CONFIRM" /\ saved' = Configuration(draft)
    BY <1>1, <2>1, SavedByConfirm
  <2>3. Accepted(draft)
    BY <2>2 DEF Confirm
  <2> QED BY <1>1, <2>2, <2>3, AllAnswered, AcceptedIsAnswered
<1> QED BY <1>1, Invariant, PTL DEF Spec, SavedIsAnswered

\* A password or a passphrase that is saved was typed in this conversation or belongs to what
\* is reconfigured; a password is kept only for a database of the same engine.
THEOREM OwnSecretsOnly == Spec => NoSecretOfAnother
<1> DEFINE A == saved' # saved =>
          /\ saved'["source"] = "DATABASE" =>
                IF saved'["keep_password"]
                THEN original.source = "DATABASE" /\ original.engine = saved'["engine"]
                ELSE "database_credential" \in secrets
          /\ saved'["encryption"] = "PASSPHRASE" =>
                IF saved'["keep_age"] THEN original.encryption = "PASSPHRASE"
                ELSE "age_unlock" \in secrets
<1>1. ASSUME IInv, [Next]_vars PROVE [A]_vars
  <2>1. SUFFICES ASSUME Next, saved' # saved PROVE A
    BY <1>1
  <2>2. Confirm /\ state = "CONFIRM" /\ saved' = Configuration(draft)
    BY <1>1, <2>1, SavedByConfirm
  <2>3. Accepted(draft) /\ Needed(draft) \subseteq secrets
    BY <2>2 DEF Confirm, Available
  <2>4. /\ saved'["source"] = Get(draft, "source") /\ saved'["engine"] = Get(draft, "engine")
        /\ saved'["encryption"] = Get(draft, "encryption")
        /\ saved'["keep_password"] = (Get(draft, "keep_password") = TRUE)
        /\ saved'["keep_age"] = (Get(draft, "keep_age") = TRUE)
    BY <2>2, ConfigurationIs DEF Fields
  <2>5. ASSUME saved'["source"] = "DATABASE", Get(draft, "keep_password") = TRUE
        PROVE  original.source = "DATABASE" /\ original.engine = saved'["engine"]
    <3> DEFINE c == Last(clean)
    <3>1. Source(c) = "DATABASE"
      BY <1>1, <2>2, <2>4, <2>5, AllAnswered DEF Asked, Fields, Source
    <3>2. /\ Get(draft, "keep_password") = Get(c, "keep_password")
          /\ Get(draft, "engine") = Get(c, "engine")
      BY <1>1, <2>2, <3>1, AllAnswered DEF Asked, Fields
    <3>3. Keeping(c, original)
      BY <1>1, <2>2, AllAnswered
    <3> HIDE DEF c
    <3>4. Get(c, "keep_password") = TRUE
      BY <2>5, <3>2, Zenon
    <3> QED BY <2>4, <3>2, <3>3, <3>4 DEF Keeping
  <2>6. ASSUME saved'["source"] = "DATABASE", Get(draft, "keep_password") # TRUE
        PROVE  "database_credential" \in secrets
    BY <2>3, <2>4, <2>6 DEF Needed, Source
  <2>7. ASSUME saved'["encryption"] = "PASSPHRASE", Get(draft, "keep_age") = TRUE
        PROVE  original.encryption = "PASSPHRASE"
    BY <2>3, <2>7 DEF Accepted
  <2>8. ASSUME saved'["encryption"] = "PASSPHRASE", Get(draft, "keep_age") # TRUE
        PROVE  "age_unlock" \in secrets
    BY <2>3, <2>4, <2>8 DEF Needed
  <2> QED BY <2>4, <2>5, <2>6, <2>7, <2>8
<1> QED BY <1>1, Invariant, PTL DEF Spec, NoSecretOfAnother
=============================================================================
