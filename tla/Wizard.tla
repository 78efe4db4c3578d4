------------------------------- MODULE Wizard -------------------------------
(***************************************************************************)
(* The dialogue that creates or reconfigures a backup profile (_flow,      *)
(* _back and _confirm_backup_profile of presentation/telegram/wizards.py,  *)
(* with FSMStore and the validators of profile_config.py).                 *)
(*                                                                         *)
(* A step writes its answer into one draft and pushes the state it leaves; *)
(* Back pops the state and keeps the draft.  What an answer that was taken *)
(* back leaves in the draft meets the steps of another branch later: that  *)
(* is what this module is about.  Free texts are data: name and            *)
(* description are one step, so are host, port, database and user name,    *)
(* and a text is there or is not.  One user is modelled, with one message  *)
(* handled after the other; concurrent handlers are not modelled.          *)
(***************************************************************************)
EXTENDS Naturals, Sequences, FiniteSets, SequencesExt

CONSTANTS
    Server,       \* identifiers of the remote servers
    Admin,        \* identifiers of the enabled administrators
    Originals,    \* the profiles there are to reconfigure
    Nothing,      \* no value, no conversation
    InvalidLimit, \* invalid inputs that end a conversation
    MaxReturns    \* bound: how often the user turns back, by any number of steps

Steps == {"NAME", "SOURCE", "ENGINE", "TARGET", "PASSWORD", "TLS", "TLS_CA", "MSSQL_DOCKER",
          "MSSQL_PATH", "MSSQL_HOST_PATH", "MSSQL_SERVER", "FILES_LOCATION", "FILES_SERVER",
          "FILES_PATHS", "GITLAB_LOCATION", "GITLAB_SERVER", "GITLAB_CONTAINER",
          "GITLAB_REMOTE_PATH", "SCHEDULE", "INTERVAL", "SCHEDULE_VALUE", "ARCHIVE",
          "COMPRESSION", "PRESET", "ENCRYPTION", "ENCRYPTION_SECRET", "ADMINS", "CONFIRM"}

\* The choices of the keyboards, and a text that was entered.
Replies == {"DATABASE", "FILES", "GITLAB", "MSSQL", "OTHER", "LOCAL", "REMOTE",
            "NONE", "PUBLIC_KEY", "PASSPHRASE", "set"}

ASSUME WizardAssumption ==
    /\ Nothing \notin Server \union Admin
    /\ Nothing \notin BOOLEAN /\ Nothing \notin Steps \union Replies
    /\ \A o \in Originals : o.source \in {"DATABASE", "FILES", "GITLAB"}
    /\ InvalidLimit \in Nat \ {0} /\ MaxReturns \in Nat

VARIABLES
    servers,  \* enabled remote servers
    state,    \* Conversation.state
    history,  \* Conversation.history
    draft,    \* Conversation.data: a function from fields to values
    options,  \* Conversation.option_ids: whose identifiers it holds
    invalid,  \* Conversation.invalid_inputs
    secrets,  \* names of the user's secrets in EphemeralSecretStore
    original, \* the profile that is reconfigured, or Nothing
    returns,  \* how often the user has turned back
    turning,  \* the last step was Back
    clean,    \* history: for every state of the path, the draft as the answers that stand give it
    saved     \* history: the configuration that was saved

vars == <<servers, state, history, draft, options, invalid, secrets, original,
          returns, turning, clean, saved>>

ServerSteps == {"MSSQL_SERVER", "FILES_SERVER", "GITLAB_SERVER"}

Fields == {"source", "engine", "preservable", "keep_password", "tls", "ca", "docker", "path",
           "host_path", "artifact_server", "location", "server", "paths", "gl_location",
           "gl_server", "gl_path", "schedule", "compression", "encryption", "keep_age"}

Get(d, f)     == IF f \in DOMAIN d THEN d[f] ELSE Nothing
Empty         == [f \in {} |-> Nothing]

\* The draft d after the answers a, a record of fields; Nothing takes a field back.
Put(d, a) == LET value(f) == IF f \in DOMAIN a THEN a[f] ELSE d[f]
             IN [f \in {g \in DOMAIN a \union DOMAIN d : value(g) # Nothing} |-> value(f)]

WizardTypeOK ==
    /\ servers \subseteq Server
    /\ state \in Steps \union {Nothing}
    /\ history \in Seq(Steps)
    /\ DOMAIN draft \subseteq Fields
    /\ \A f \in {"artifact_server", "server", "gl_server"} \intersect DOMAIN draft :
          draft[f] \in Server
    /\ options \in {"none", "servers", "admins"}
    /\ invalid \in 0 .. InvalidLimit - 1
    /\ secrets \subseteq {"database_credential", "age_unlock"}
    /\ original \in Originals \union {Nothing}
    /\ returns \in 0 .. MaxReturns
    /\ turning \in BOOLEAN
    /\ Len(clean) = IF state = Nothing THEN 0 ELSE Len(history) + 1
    /\ DOMAIN saved \subseteq Fields

Init ==
    /\ servers \in {{}, Server}
    /\ state = Nothing
    /\ history = <<>>
    /\ draft = Empty
    /\ options = "none"
    /\ invalid = 0
    /\ secrets = {}
    /\ original = Nothing
    /\ returns = 0
    /\ turning = FALSE
    /\ clean = <<>>
    /\ saved = Empty

-----------------------------------------------------------------------------
(* FSMStore.                                                               *)

\* set: a new conversation, and no secret of an earlier one.
Begin(o) ==
    /\ state = Nothing
    /\ saved = Empty
    /\ state' = "NAME"
    /\ original' = o
    /\ secrets' = {}
    /\ clean' = <<Empty>>
    /\ UNCHANGED <<servers, history, draft, options, invalid, returns, turning, saved>>

\* clear, and what remains of a conversation that has expired.
Cleared ==
    /\ state' = Nothing
    /\ history' = <<>>
    /\ draft' = Empty
    /\ options' = "none"
    /\ invalid' = 0
    /\ secrets' = {}
    /\ original' = Nothing
    /\ turning' = FALSE
    /\ clean' = <<>>

\* A step accepts its answer: the draft is updated and transition pushes the state.
Advance(new, answers) ==
    /\ state' = new
    /\ history' = Append(history, state)
    /\ draft' = Put(draft, answers)
    /\ clean' = Append(clean, Put(Last(clean), answers))
    /\ invalid' = 0
    /\ turning' = FALSE
    /\ UNCHANGED <<servers, original, returns, saved>>

\* The answer raises ValueError or KeyError: what the handler wrote before
\* stays in the draft, and too many of these end the conversation.
Rejected(answers) ==
    IF invalid + 1 = InvalidLimit
    THEN Cleared /\ UNCHANGED <<servers, returns, saved>>
    ELSE /\ invalid' = invalid + 1
         /\ draft' = Put(draft, answers)
         /\ turning' = FALSE
         /\ UNCHANGED <<servers, state, history, options, secrets, original, returns, clean, saved>>

\* back: the state before, with the draft as it is.
TurnsBack ==
    /\ history # <<>>
    /\ state' = Last(history)
    /\ history' = Front(history)
    /\ clean' = Front(clean)
    /\ invalid' = 0

\* EphemeralSecretStore.put and get: a secret is read without being consumed.
Puts(name)       == secrets' = secrets \union {name}
Available(names) == names \subseteq secrets

At(s)     == state = s
Keeps     == UNCHANGED <<options, secrets>>
Source(d) == Get(d, "source")

-----------------------------------------------------------------------------
(* Name, description and source.                                           *)

AddName ==
    At("NAME") /\ Advance("SOURCE", Empty) /\ Keeps

AddSource ==
    /\ At("SOURCE")
    /\ \E s \in {"DATABASE", "FILES", "GITLAB"} :
          LET next == [DATABASE |-> "ENGINE", FILES |-> "FILES_LOCATION",
                       GITLAB |-> "GITLAB_LOCATION"]
          IN Advance(next[s], [source |-> s])
    /\ Keeps

-----------------------------------------------------------------------------
(* A database.                                                             *)

\* Seeded bug: the engine is not compared.
IsPreservableAnyEngine(e) == original # Nothing /\ original.source = "DATABASE"

\* Values of the profile may be kept if its engine is chosen again.
IsPreservable(e) == original # Nothing /\ original.source = "DATABASE" /\ original.engine = e

AddEngine ==
    /\ At("ENGINE")
    /\ \E e \in {"MSSQL", "OTHER"} :
          Advance("TARGET", [engine |-> e, preservable |-> IsPreservable(e)])
    /\ Keeps

AddTarget ==
    At("TARGET") /\ Advance("PASSWORD", Empty) /\ Keeps

NewPassword == [keep_password |-> FALSE]

AddPassword ==
    /\ At("PASSWORD")
    /\ \/ /\ Advance("TLS", NewPassword)
          /\ Puts("database_credential")
       \/ /\ Get(draft, "preservable") = TRUE
          /\ Advance("TLS", [keep_password |-> TRUE])
          /\ UNCHANGED secrets
    /\ UNCHANGED options

\* _after_database_tls
AfterTls == IF Get(draft, "engine") = "MSSQL" THEN "MSSQL_DOCKER" ELSE "SCHEDULE"

AddTls ==
    /\ At("TLS")
    /\ \E verify \in BOOLEAN :
          Advance(IF verify THEN "TLS_CA" ELSE AfterTls, [tls |-> verify])
    /\ Keeps

AddTlsCa ==
    /\ At("TLS_CA")
    /\ Advance(AfterTls, [ca |-> "set"])
    /\ Keeps

AddMssqlDocker ==
    /\ At("MSSQL_DOCKER")
    /\ \E docker \in BOOLEAN : Advance("MSSQL_PATH", [docker |-> docker])
    /\ Keeps

\* _advance_mssql_server: the server is asked for only if there is one.
AfterMssqlPaths == IF servers = {} THEN "SCHEDULE" ELSE "MSSQL_SERVER"
MssqlOptions    == options' = IF servers = {} THEN options ELSE "servers"

AddMssqlPath ==
    /\ At("MSSQL_PATH")
    /\ IF Get(draft, "docker") = TRUE
       THEN Advance("MSSQL_HOST_PATH", [path |-> "set"]) /\ UNCHANGED options
       ELSE Advance(AfterMssqlPaths, [path |-> "set"]) /\ MssqlOptions
    /\ UNCHANGED secrets

AddMssqlHostPath ==
    /\ At("MSSQL_HOST_PATH")
    /\ Advance(AfterMssqlPaths, [host_path |-> "set"])
    /\ MssqlOptions
    /\ UNCHANGED secrets

\* The identifiers that the keyboard of a server step stands for.
Offered == CASE options = "servers" -> servers
             [] options = "admins"  -> Admin
             [] OTHER               -> {}

\* active_by_id raises an error unless there is such a server.
Found(id) == id \in servers

\* "none" leaves the server of an earlier answer in the draft.
AddMssqlServer ==
    /\ At("MSSQL_SERVER")
    /\ \/ Advance("SCHEDULE", Empty)
       \/ \E id \in Offered : Found(id) /\ Advance("SCHEDULE", [artifact_server |-> id])
    /\ options' = "none"
    /\ UNCHANGED secrets

-----------------------------------------------------------------------------
(* Files and directories.                                                  *)

\* FilesConfig.validate
FilesValid(d) ==
    /\ "paths" \in DOMAIN d
    /\ (Get(d, "location") = "REMOTE") = (Get(d, "server") # Nothing)

AddFilesLocation ==
    /\ At("FILES_LOCATION")
    /\ \/ Advance("FILES_PATHS", [location |-> "LOCAL"]) /\ Keeps
       \/ IF servers = {} THEN Rejected([location |-> "REMOTE"])
          ELSE /\ Advance("FILES_SERVER", [location |-> "REMOTE"])
               /\ options' = "servers"
               /\ UNCHANGED secrets

AddFilesServer ==
    /\ At("FILES_SERVER")
    /\ \E id \in Offered : Found(id) /\ Advance("FILES_PATHS", [server |-> id])
    /\ options' = "none"
    /\ UNCHANGED secrets

\* The draft is written first and validated then.
AddFilesPaths ==
    /\ At("FILES_PATHS")
    /\ LET entered == [paths |-> "set"]
       IN IF FilesValid(Put(draft, entered)) THEN Advance("SCHEDULE", entered) /\ Keeps
          ELSE Rejected(entered)

-----------------------------------------------------------------------------
(* GitLab.                                                                 *)

\* Seeded bug: the fields of an earlier location stay.
GitlabAtKeeping(where) == [gl_location |-> where]

\* The only branch that forgets what an earlier pass has answered.
GitlabAt(where) == [gl_location |-> where, gl_server |-> Nothing, gl_path |-> Nothing]

AddGitlabLocation ==
    /\ At("GITLAB_LOCATION")
    /\ \/ Advance("GITLAB_CONTAINER", GitlabAt("LOCAL")) /\ UNCHANGED options
       \/ IF servers = {}
          THEN /\ draft' = Put(draft, GitlabAt("REMOTE"))
               /\ UNCHANGED <<servers, state, history, options, invalid, original, returns,
                              turning, clean, saved>>
          ELSE Advance("GITLAB_SERVER", GitlabAt("REMOTE")) /\ options' = "servers"
    /\ UNCHANGED secrets

AddGitlabServer ==
    /\ At("GITLAB_SERVER")
    /\ \E id \in Offered : Found(id) /\ Advance("GITLAB_CONTAINER", [gl_server |-> id])
    /\ options' = "none"
    /\ UNCHANGED secrets

\* GitLabConfig.validate
GitlabValid(d) ==
    IF Get(d, "gl_location") = "REMOTE"
    THEN Get(d, "gl_server") # Nothing /\ Get(d, "gl_path") # Nothing
    ELSE Get(d, "gl_server") = Nothing /\ Get(d, "gl_path") = Nothing

\* A local container is validated without the fields of a remote one.
AddGitlabContainer ==
    /\ At("GITLAB_CONTAINER")
    /\ Advance(IF Get(draft, "gl_location") = "LOCAL" THEN "SCHEDULE" ELSE "GITLAB_REMOTE_PATH",
               Empty)
    /\ Keeps

AddGitlabRemotePath ==
    /\ At("GITLAB_REMOTE_PATH")
    /\ LET entered == [gl_path |-> "set"]
       IN IF GitlabValid(Put(draft, entered)) THEN Advance("SCHEDULE", entered) /\ Keeps
          ELSE Rejected(entered)

-----------------------------------------------------------------------------
(* Schedule, archive and compression.                                      *)

Scheduled  == [schedule |-> "set"]
Compressed == [compression |-> "set"]

AddSchedule ==
    /\ At("SCHEDULE")
    /\ \E mode \in {"INTERVAL", "SCHEDULE_VALUE"} : Advance(mode, Empty)
    /\ Keeps

\* MANUAL and ONCE are complete; the other kinds need a value.
AddInterval ==
    /\ At("INTERVAL")
    /\ Advance("ARCHIVE", Scheduled) \/ Advance("SCHEDULE_VALUE", Empty)
    /\ Keeps

AddScheduleValue ==
    /\ At("SCHEDULE_VALUE")
    /\ Advance("ARCHIVE", Scheduled)
    /\ Keeps

AddArchive ==
    At("ARCHIVE") /\ Advance("COMPRESSION", Empty) /\ Keeps

\* Without compression there is no preset to ask for.
AddCompression ==
    /\ At("COMPRESSION")
    /\ Advance("ENCRYPTION", Compressed) \/ Advance("PRESET", Empty)
    /\ Keeps

AddPreset ==
    At("PRESET") /\ Advance("ENCRYPTION", Compressed) /\ Keeps

-----------------------------------------------------------------------------
(* Encryption, administrators and confirmation.                            *)

\* _prepare_new_backup_admins: the options are the administrators from here on.
ToAdmins(answers) == Advance("ADMINS", answers) /\ options' = "admins"

AddEncryption ==
    /\ At("ENCRYPTION")
    /\ \E mode \in {"NONE", "PUBLIC_KEY", "PASSPHRASE"} :
          IF mode = "NONE" THEN ToAdmins([encryption |-> mode])
          ELSE Advance("ENCRYPTION_SECRET", [encryption |-> mode]) /\ UNCHANGED options
    /\ UNCHANGED secrets

AddEncryptionSecret ==
    /\ At("ENCRYPTION_SECRET")
    /\ IF Get(draft, "encryption") = "PUBLIC_KEY"
       THEN ToAdmins(Empty) /\ UNCHANGED secrets
       ELSE \/ /\ ToAdmins([keep_age |-> FALSE])
               /\ Puts("age_unlock")
            \/ /\ original # Nothing /\ original.encryption = "PASSPHRASE"
               /\ ToAdmins([keep_age |-> TRUE])
               /\ UNCHANGED secrets

\* Which administrators are selected is left out.
AddAdmins ==
    At("ADMINS") /\ Advance("CONFIRM", Empty) /\ Keeps

\* _missing_profile_field
SourceFields(d) ==
    CASE Source(d) = "DATABASE" -> {"engine", "tls"}
      [] Source(d) = "FILES"    -> {"location", "paths"}
      [] Source(d) = "GITLAB"   -> IF Get(d, "gl_location") = "REMOTE"
                                   THEN {"gl_location", "gl_server", "gl_path"} ELSE {"gl_location"}

Complete(d) ==
    /\ {"source", "schedule", "compression", "encryption"} \subseteq DOMAIN d
    /\ SourceFields(d) \subseteq DOMAIN d

\* Seeded bug: a mounted path is not refused without a container.
DatabaseValidHostPath(d) ==
    /\ Get(d, "tls") = TRUE => Get(d, "ca") # Nothing
    /\ IF Get(d, "engine") = "MSSQL"
       THEN Get(d, "path") # Nothing /\ (Get(d, "docker") = TRUE => Get(d, "host_path") # Nothing)
       ELSE /\ Get(d, "docker") # TRUE
            /\ \A f \in {"path", "host_path", "artifact_server"} : Get(d, f) = Nothing

\* DatabaseConfig.validate
DatabaseValid(d) ==
    /\ Get(d, "tls") = TRUE => Get(d, "ca") # Nothing
    /\ IF Get(d, "engine") = "MSSQL"
       THEN /\ Get(d, "path") # Nothing
            /\ (Get(d, "docker") = TRUE) = (Get(d, "host_path") # Nothing)
       ELSE /\ Get(d, "docker") # TRUE
            /\ \A f \in {"path", "host_path", "artifact_server"} : Get(d, f) = Nothing

\* What BackupService accepts: a secret is kept only if there is one.
Accepted(d) ==
    /\ CASE Source(d) = "DATABASE" -> DatabaseValid(d)
         [] Source(d) = "FILES"    -> FilesValid(d)
         [] Source(d) = "GITLAB"   -> GitlabValid(d)
    /\ Source(d) = "DATABASE" /\ Get(d, "keep_password") = TRUE =>
          original # Nothing /\ original.source = "DATABASE"
    /\ Get(d, "keep_age") = TRUE =>
          /\ Get(d, "encryption") = "PASSPHRASE"
          /\ original # Nothing /\ original.encryption = "PASSPHRASE"

\* The secrets that the conversation itself must still hold.
Needed(d) ==
    {s \in {"database_credential", "age_unlock"} :
        IF s = "age_unlock"
        THEN Get(d, "encryption") = "PASSPHRASE" /\ Get(d, "keep_age") # TRUE
        ELSE Source(d) = "DATABASE" /\ Get(d, "keep_password") # TRUE}

\* _persist_profile: the arguments that BackupService gets.
Configuration(d) ==
    [f \in Fields \ {"preservable"} |-> IF f \in {"docker", "keep_password", "keep_age"}
                                        THEN Get(d, f) = TRUE ELSE Get(d, f)]

\* _confirm_backup_profile: a refused configuration leaves everything as it is.
Confirm ==
    /\ At("CONFIRM")
    /\ Complete(draft)
    /\ Available(Needed(draft))
    /\ Accepted(draft)
    /\ saved' = Configuration(draft)
    /\ Cleared
    /\ UNCHANGED <<servers, returns>>

\* The same, a secret missing: also if it expires after the conversation was read.
ConfirmWithoutSecret ==
    /\ At("CONFIRM")
    /\ Complete(draft)
    /\ Needed(draft) # {}
    /\ Cleared
    /\ UNCHANGED <<servers, returns, saved>>

-----------------------------------------------------------------------------
(* Back and the ways out.                                                  *)

\* Rendering a server step fills in options that are missing, and believes
\* those that are there.
OptionsAt(s) == IF s \in ServerSteps /\ options = "none" THEN "servers" ELSE options

Back ==
    /\ state # Nothing
    /\ TurnsBack
    /\ IF turning THEN UNCHANGED returns
       ELSE returns < MaxReturns /\ returns' = returns + 1
    /\ options' = OptionsAt(Last(history))
    /\ turning' = TRUE
    /\ UNCHANGED <<servers, draft, secrets, original, saved>>

\* /cancel, home, or Back at the first step.
Leave ==
    /\ state # Nothing
    /\ Cleared
    /\ UNCHANGED <<servers, returns, saved>>

\* The next message finds a conversation whose time is over.
Expires ==
    /\ state # Nothing
    /\ Cleared
    /\ UNCHANGED <<servers, returns, saved>>

\* An answer that the step does not know.
InvalidInput == state \notin {Nothing, "CONFIRM"} /\ Rejected(Empty)

Database == AddEngine \/ AddTarget \/ AddPassword \/ AddTls \/ AddTlsCa \/ AddMssqlDocker
            \/ AddMssqlPath \/ AddMssqlHostPath \/ AddMssqlServer
Files    == AddFilesLocation \/ AddFilesServer \/ AddFilesPaths
Gitlab   == AddGitlabLocation \/ AddGitlabServer \/ AddGitlabContainer \/ AddGitlabRemotePath
Common   == AddSchedule \/ AddInterval \/ AddScheduleValue \/ AddArchive \/ AddCompression
            \/ AddPreset \/ AddEncryption \/ AddEncryptionSecret \/ AddAdmins

Next ==
    \/ \E o \in Originals \union {Nothing} : Begin(o)
    \/ AddName \/ AddSource \/ Database \/ Files \/ Gitlab \/ Common
    \/ Confirm \/ ConfirmWithoutSecret
    \/ Back \/ Leave \/ Expires \/ InvalidInput

Spec == Init /\ [][Next]_vars

-----------------------------------------------------------------------------
(* Properties.                                                             *)

\* The fields that a source uses; a CA certificate is used if TLS verifies.
Relevant(d) ==
    {"source", "schedule", "compression", "encryption", "keep_age"} \union
    CASE Source(d) = "DATABASE" -> {"engine", "keep_password", "tls", "docker", "path", "host_path"}
                                   \union (IF Get(d, "tls") = TRUE THEN {"ca"} ELSE {})
      [] Source(d) = "FILES"    -> {"location", "server", "paths"}
      [] Source(d) = "GITLAB"   -> {"gl_location", "gl_server", "gl_path"}

\* What is saved is what the answers that stand say, however often others were
\* given and taken back: each remnant that could be saved is overwritten on
\* every path or refused by a validator.  The server of an MSSQL backup is the
\* exception: "none" does not take back an earlier choice.
SavedIsAnswered ==
    [][saved' # saved =>
          LET answers == Configuration(Last(clean))
          IN \A f \in Relevant(saved') : saved'[f] = answers[f]]_vars

\* A database profile is saved with a password that was typed in this
\* conversation, or keeps that of a database of the same engine; the same for
\* the passphrase: going back and changing engine or mode does not carry the
\* secret of one thing over to another.
NoSecretOfAnother ==
    [][saved' # saved =>
          /\ saved'["source"] = "DATABASE" =>
                IF saved'["keep_password"]
                THEN original.source = "DATABASE" /\ original.engine = saved'["engine"]
                ELSE "database_credential" \in secrets
          /\ saved'["encryption"] = "PASSPHRASE" =>
                IF saved'["keep_age"] THEN original.encryption = "PASSPHRASE"
                ELSE "age_unlock" \in secrets]_vars

\* A GitLab profile can be confirmed whatever was answered before: the location
\* step takes the fields of the other location back.  (For files and databases
\* remnants may make the validator refuse answers that are right.)
GitlabIsAccepted ==
    At("CONFIRM") /\ Source(draft) = "GITLAB" => GitlabValid(draft)

\* The dialogue is in one of its states, and a GitLab profile is never refused there
\* for what was answered and taken back.
WizardInv == WizardTypeOK /\ GitlabIsAccepted
=============================================================================
