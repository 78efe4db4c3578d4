-------------------------- MODULE FilesAcquisition --------------------------
(***************************************************************************)
(* Acquisition of files and directories into one tar archive               *)
(* (pipeline/acquisition/local_files.py, remote_files.py, sqlite.py and    *)
(* SourceBudget in common.py), as acquire in acquisition/__init__.py       *)
(* dispatches it.                                                          *)
(*                                                                         *)
(* A local source is walked while other processes change it: between any   *)
(* two system calls an entry may be written, renamed, replaced or          *)
(* protected.  The code compares inodes, and before and after stamps       *)
(* (mtime and ctime, which every change here advances), and gives up when  *)
(* they differ.  A remote source is downloaded by rsync; a SQLite file     *)
(* there is first copied by a script to a file in /tmp of the server,      *)
(* which has to be removed again.                                          *)
(*                                                                         *)
(* The lexical confinement of paths is left out, and the parents of a      *)
(* selected path do not change.                                            *)
(***************************************************************************)
EXTENDS Integers, FiniteSets, SequencesExt

CONSTANTS
    Base,           \* the directory the selected sources are in
    Dir, File, Other,  \* further directories, regular files, links and special files
    Names,          \* names of entries, naturals: listings are sorted
    Nothing,        \* no inode
    Tree,           \* the entries at first: Place -> inode or Nothing
    Selections,     \* sequences of [name, sqlite]: paths of a source and their SQLite flag
    Sizes,          \* sizes of files
    MaxFileBytes, MaxBytes, MaxFiles, MaxDepth,   \* limits of the settings
    MaxChanges      \* bound: changes made by other processes

Inode == Dir \union File \union Other
Directory == Dir \union {Base}
Place == Directory \X Names

ASSUME FilesAssumption ==
    /\ Names \subseteq Nat /\ Sizes \subseteq Nat /\ Sizes # {} /\ MaxChanges \in Nat
    /\ {MaxFileBytes, MaxBytes, MaxFiles, MaxDepth} \subseteq Nat
    /\ Dir \intersect File = {} /\ Base \notin Inode /\ Nothing \notin Inode
    /\ Tree \in [Place -> Inode \union {Nothing}]
    /\ \A p, q \in Place : Tree[p] = Tree[q] /\ p # q => Tree[p] = Nothing
    /\ Selections \subseteq Seq([name : Names, sqlite : BOOLEAN])

VARIABLES
    location,   \* "LOCAL" or "REMOTE_SERVER"
    paths,      \* the selected paths
    at,         \* the step the acquisition is at
    item,       \* index of the path it is at
    used,       \* bytes_used and files_used of SourceBudget
    entry,      \* what each place holds
    info,       \* stamp, size and readability of each inode
    changes,    \* changes so far, at most MaxChanges
    seen,       \* inodes of this path: validated, opened; and the one examined last
    stack,      \* the directories being walked, innermost last
    copy,       \* the file being copied
    archive,    \* entries written to the archive
    skipped,    \* entries recorded by LocalAcquisitionWarnings
    server,     \* the connection, the script, and the paths whose snapshot is on the server
    got,        \* bytes downloaded for this path
    dirs,       \* remote-download and ssh-material exist
    failing,    \* an exception is on its way
    expired,    \* the deadline of the run is over
    excused     \* history: paths whose snapshot may stay, and why

tree == <<entry, info, changes>>
walk == <<seen, stack, copy, archive, skipped>>
remote == <<server, got, dirs, failing, expired, excused>>
vars == <<location, paths, at, item, used, tree, walk, remote>>

Ended == at \in {"succeeded", "failed", "killed"}
Unseen == [validated |-> Nothing, opened |-> Nothing, now |-> Nothing]
NoCopy == [before |-> 0, size |-> 0, stamps |-> {}, reads |-> 0]

\* Why a snapshot stays: the script was given up before it wrote, rm failed or was given
\* up, or it was too late for rm.
Reasons == {"script", "rm", "deadline"}

FilesTypeOK ==
    /\ location \in {"LOCAL", "REMOTE_SERVER"} /\ paths \in Selections
    /\ at \in {"item", "validated", "stated", "file", "copying", "snapshot", "enter", "list",
               "walk", "opening", "verify", "prepare", "connecting", "checking", "asking",
               "snapshotting", "rsync", "removing", "closing", "packing", "cleaning",
               "succeeded", "failed", "killed"}
    /\ item \in 1 .. Len(paths) + 1 /\ used \in [bytes : Nat, files : Nat]
    /\ entry \in [Place -> Inode \union {Nothing}] /\ changes \in 0 .. MaxChanges
    /\ info \in [Inode \union {Base} -> [stamp : Nat, size : Sizes, readable : BOOLEAN]]
    /\ \A p, q \in Place : entry[p] = entry[q] /\ p # q => entry[p] = Nothing
    /\ \A f \in {"validated", "opened", "now"} : seen[f] \in Inode \union {Nothing}
    /\ \A k \in DOMAIN stack :
          /\ stack[k].dir \in Dir /\ stack[k].todo \subseteq Names
          /\ stack[k].name \in Names \union {0} /\ stack[k].before \in Nat
    /\ at \in {"enter", "list", "walk", "opening"} => stack # <<>>
    /\ at \in {"item", "validated", "stated", "snapshot", "verify"} => stack = <<>>
    /\ copy.reads \in 0 .. 2 /\ copy.stamps \subseteq Nat
    /\ \A a \in archive : a.inode \in Inode /\ a.size \in Nat
    /\ server \in [open : BOOLEAN, lost : BOOLEAN, files : SUBSET Nat,
                   script : {"none", "asked", "wrote", "done"}]
    /\ got \in Nat /\ {dirs, failing, expired} \subseteq BOOLEAN
    /\ excused \subseteq Nat \X Reasons

Init ==
    /\ location \in {"LOCAL", "REMOTE_SERVER"} /\ paths \in Selections
    /\ at = IF location = "LOCAL" THEN "item" ELSE "prepare"
    /\ item = 1 /\ used = [bytes |-> 0, files |-> 0]
    /\ entry = Tree /\ changes = 0
    /\ info = [i \in Inode \union {Base} |-> [stamp |-> 0, size |-> Min(Sizes), readable |-> TRUE]]
    /\ seen = Unseen /\ stack = <<>> /\ copy = NoCopy
    /\ archive = {} /\ skipped = {}
    /\ server = [open |-> FALSE, lost |-> FALSE, files |-> {}, script |-> "none"]
    /\ got = 0 /\ dirs = FALSE /\ failing = FALSE /\ expired = FALSE /\ excused = {}

To(step) == at' = step

-----------------------------------------------------------------------------
(* The budget. *)

\* validate_file_size and validate_addition.
Fits(bytes, files) ==
    /\ bytes <= MaxFileBytes
    /\ used.bytes + bytes <= MaxBytes /\ used.files + files <= MaxFiles

Spend(bytes, files) == used' = [bytes |-> used.bytes + bytes, files |-> used.files + files]

-----------------------------------------------------------------------------
(* Other processes. *)

Bump(f, D) == [i \in DOMAIN f |-> IF i \in D THEN [f[i] EXCEPT !.stamp = @ + 1] ELSE f[i]]

Change ==
    /\ location = "LOCAL" /\ ~Ended /\ changes < MaxChanges /\ changes' = changes + 1
    /\ UNCHANGED <<location, paths, at, item, used, walk, remote>>

\* A file is written to: it may grow or shrink.
Rewrite ==
    /\ Change /\ UNCHANGED entry
    /\ \E f \in File, s \in Sizes : info' = Bump([info EXCEPT ![f].size = s], {f})

\* The permissions of an inode change.
Protect ==
    /\ Change /\ UNCHANGED entry
    /\ \E i \in Dir \union File : info' = Bump([info EXCEPT ![i].readable = ~@], {i})

\* The directories at or above d.
Above(d) ==
    LET up[n \in 0 .. Cardinality(Dir)] ==
          IF n = 0 THEN {d} ELSE
          up[n - 1] \union {p[1] : p \in {q \in Place : entry[q] \in up[n - 1]}}
    IN up[Cardinality(Dir)]

\* An inode is created, renamed or removed; a rename replaces what was there.
Relocate ==
    /\ Change
    /\ \E i \in Inode :
          LET from == {p \in Place : entry[p] = i} IN
          \/ /\ from # {}
             /\ entry' = [p \in Place |-> IF p \in from THEN Nothing ELSE entry[p]]
             /\ info' = Bump(info, {p[1] : p \in from})
          \/ \E to \in Place \ from :
                /\ i \notin Above(to[1]) /\ entry[to] \notin Dir
                /\ entry' = [p \in Place |-> IF p = to THEN i ELSE
                                             IF p \in from THEN Nothing ELSE entry[p]]
                /\ info' = Bump(info, {p[1] : p \in from \union {to}})

-----------------------------------------------------------------------------
(* Local acquisition: a selected path. *)

Root == entry[<<Base, paths[item].name>>]
Here == stack[Len(stack)]
WithHere(f) == [stack EXCEPT ![Len(stack)] = f]
\* The name in the archive of entry n of the innermost directory.
Member(n) == Append(Here.path, n)

Local(step) == location = "LOCAL" /\ at = step /\ UNCHANGED <<location, paths, tree, remote>>

Fail == To("failed") /\ UNCHANGED <<item, used, walk>>

\* RUN deadline, cooperative stop, disk capacity: any step may raise.
Stops ==
    /\ ~Ended /\ location = "LOCAL" /\ Fail
    /\ UNCHANGED <<location, paths, tree, remote>>

\* _validated_local_source
Validate ==
    /\ Local("item") /\ item <= Len(paths)
    /\ IF Root \in Dir \union File
       THEN /\ To("validated") /\ seen' = [Unseen EXCEPT !.validated = Root]
            /\ UNCHANGED <<item, used, stack, copy, archive, skipped>>
       ELSE Fail

\* _open_local_root: the last component is examined, then opened.
StatRoot ==
    /\ Local("validated")
    /\ IF Root \in Dir \union File
       THEN /\ To("stated") /\ seen' = [seen EXCEPT !.now = Root]
            /\ UNCHANGED <<item, used, stack, copy, archive, skipped>>
       ELSE Fail

Push(d, path) ==
    stack' = Append(stack, [dir |-> d, path |-> path, before |-> 0, todo |-> {}, name |-> 0])

\* Seeded bug: the inode that is opened is not compared with the one validated.
OpensStated(i) == i = seen.now
\* What is opened is what was examined, and what was validated.
Opens(i) == i = seen.now /\ i = seen.validated

OpenRoot ==
    /\ Local("stated")
    /\ IF Root # Nothing /\ Opens(Root) /\ info[Root].readable
       THEN /\ IF Root \in Dir
               THEN To("enter") /\ Push(Root, <<item>>)
               ELSE /\ To(IF paths[item].sqlite THEN "snapshot" ELSE "file")
                    /\ UNCHANGED stack
            /\ seen' = [seen EXCEPT !.opened = Root]
            /\ UNCHANGED <<item, used, copy, archive, skipped>>
       ELSE Fail

\* _verify_path_identity
VerifyPath ==
    /\ Local("verify")
    /\ IF Root = seen.opened
       THEN To("item") /\ item' = item + 1 /\ UNCHANGED <<used, walk>>
       ELSE Fail

\* _verify_tar has found only files and directories.
Complete ==
    /\ Local("item") /\ item > Len(paths)
    /\ To("succeeded") /\ UNCHANGED <<item, used, walk>>

-----------------------------------------------------------------------------
(* Local acquisition: files and directories. *)

Archived(size, stamps) ==
    archive' = archive \union
        {[path |-> IF stack = <<>> THEN <<item>> ELSE Member(Here.name),
          inode |-> seen.now, size |-> size, stamps |-> stamps]}

\* Where the walk goes on after a file or a directory.
Onward(s) == IF s = <<>> THEN "verify" ELSE "walk"

\* _snapshot_sqlite_fd: the Online Backup API copies one committed state.
Snapshot ==
    /\ Local("snapshot")
    /\ LET i == info[seen.now] IN
       IF Fits(i.size, 1)
       THEN /\ Spend(i.size, 1) /\ Archived(i.size, {i.stamp}) /\ To("verify")
            /\ UNCHANGED <<item, seen, stack, copy, skipped>>
       ELSE Fail

\* _archive_open_file: fstat, budget, copy, fstat.
CopyBegins ==
    /\ Local("file")
    /\ LET i == info[seen.now] IN
       IF Fits(i.size, 1)
       THEN /\ Spend(i.size, 1) /\ To("copying")
            /\ copy' = [before |-> i.stamp, size |-> i.size, stamps |-> {}, reads |-> 0]
            /\ UNCHANGED <<item, seen, stack, archive, skipped>>
       ELSE Fail

\* Two reads stand for all; a file that has become shorter cannot be read to its end.
Reads ==
    /\ Local("copying") /\ copy.reads < 2
    /\ IF info[seen.now].size >= copy.size
       THEN /\ copy' = [copy EXCEPT !.reads = @ + 1, !.stamps = @ \union {info[seen.now].stamp}]
            /\ UNCHANGED <<at, item, used, seen, stack, archive, skipped>>
       ELSE Fail

\* Seeded bug: only the size is compared.
UnchangedSize(i) == info[i].size = copy.size
\* _unchanged_file
UnchangedFile(i) == info[i].size = copy.size /\ info[i].stamp = copy.before

CopyEnds ==
    /\ Local("copying") /\ copy.reads = 2
    /\ IF UnchangedFile(seen.now)
       THEN /\ Archived(copy.size, copy.stamps) /\ To(Onward(stack)) /\ copy' = NoCopy
            /\ UNCHANGED <<item, used, seen, stack, skipped>>
       ELSE Fail

\* _archive_directory_fd
EnterDirectory ==
    /\ Local("enter")
    /\ IF Len(stack) - 1 <= MaxDepth
       THEN /\ To("list") /\ stack' = WithHere([Here EXCEPT !.before = info[Here.dir].stamp])
            /\ UNCHANGED <<item, used, seen, copy, archive, skipped>>
       ELSE Fail

Skip(path) == skipped' = skipped \union {path}

Pops == stack' = Front(stack) /\ To(Onward(Front(stack)))

\* scandir; a directory that cannot be read is recorded and left.
List ==
    /\ Local("list")
    /\ IF info[Here.dir].readable
       THEN /\ To("walk")
            /\ stack' = WithHere([Here EXCEPT !.todo =
                                     {n \in Names : entry[<<Here.dir, n>>] # Nothing}])
            /\ UNCHANGED skipped
       ELSE Pops /\ Skip(Here.path)
    /\ UNCHANGED <<item, used, seen, copy, archive>>

\* The next name is examined without following links; links and special files are
\* recorded, and so is what cannot be examined.
StatEntry ==
    /\ Local("walk") /\ Here.todo # {}
    /\ LET n == Min(Here.todo)
           i == entry[<<Here.dir, n>>] IN
       IF info[Here.dir].readable /\ i = Nothing THEN Fail ELSE
       /\ stack' = WithHere([Here EXCEPT !.todo = @ \ {n}, !.name = n])
       /\ IF info[Here.dir].readable /\ i \in Dir \union File
          THEN To("opening") /\ seen' = [seen EXCEPT !.now = i] /\ UNCHANGED skipped
          ELSE Skip(Member(n)) /\ UNCHANGED <<at, seen>>
       /\ UNCHANGED <<item, used, copy, archive>>

\* _open_verified_at; the order of its tests is the order of the system call's.
OpenEntry ==
    /\ Local("opening")
    /\ LET i == entry[<<Here.dir, Here.name>>]
           wanted == IF seen.now \in Dir THEN Dir ELSE File IN
       IF info[Here.dir].readable /\ i \notin wanted THEN Fail ELSE
       IF ~info[Here.dir].readable \/ ~info[i].readable
       THEN /\ To("walk") /\ Skip(Member(Here.name))
            /\ UNCHANGED <<item, used, seen, stack, copy, archive>>
       ELSE IF i # seen.now THEN Fail ELSE
       /\ IF i \in Dir THEN To("enter") /\ Push(i, Member(Here.name))
                       ELSE To("file") /\ UNCHANGED stack
       /\ UNCHANGED <<item, used, seen, copy, archive, skipped>>

\* Seeded bug: the directory is not examined again at the end of its walk.
UnchangedAlways(f) == TRUE
\* mtime and ctime of the directory are those of its beginning.
UnchangedDirectory(f) == info[f.dir].stamp = f.before

LeaveDirectory ==
    /\ Local("walk") /\ Here.todo = {}
    /\ IF UnchangedDirectory(Here)
       THEN Pops /\ UNCHANGED <<item, used, seen, copy, archive, skipped>>
       ELSE Fail

-----------------------------------------------------------------------------
(* Remote acquisition. *)

Remote(step) ==
    /\ location = "REMOTE_SERVER" /\ at = step /\ UNCHANGED <<location, paths, tree, walk>>

\* Seeded bug: the snapshot is removed only after a transfer that succeeded.
FinallyUnlessFailed(step) == "closing"
\* The finally clause an exception at a step leads to.
Finally(step) ==
    CASE step \in {"asking", "snapshotting"} -> "removing"
      [] step = "rsync" -> IF paths[item].sqlite THEN "removing" ELSE "closing"
      [] step \in {"checking", "item"} -> "closing"
      [] step \in {"connecting", "packing"} -> "cleaning"

Raise(step) == To(Finally(step)) /\ failing' = TRUE

\* The directories are made before the try block, and so is the first test of the disk.
Prepare ==
    /\ Remote("prepare")
    /\ \/ To("connecting") \/ To("failed")
    /\ dirs' = TRUE /\ UNCHANGED <<item, used, server, got, failing, expired, excused>>

\* pinned_connection
Connect ==
    /\ Remote("connecting") /\ ~expired /\ To("checking")
    /\ server' = [server EXCEPT !.open = TRUE]
    /\ UNCHANGED <<item, used, got, dirs, failing, expired, excused>>

\* _validate_remote_rsync
CheckRsync ==
    /\ Remote("checking") /\ ~expired /\ ~server.lost /\ To("item")
    /\ UNCHANGED <<item, used, remote>>

\* Each path in turn; then the connection is closed.
BeginPath ==
    /\ Remote("item")
    /\ To(IF item > Len(paths) THEN "closing" ELSE
          IF paths[item].sqlite THEN "asking" ELSE "rsync")
    /\ got' = 0 /\ UNCHANGED <<item, used, server, dirs, failing, expired, excused>>

\* _remote_sqlite_snapshot starts the script and waits for it.
AskSnapshot ==
    /\ Remote("asking") /\ ~expired /\ ~server.lost /\ To("snapshotting")
    /\ server' = [server EXCEPT !.script = "asked"]
    /\ UNCHANGED <<item, used, got, dirs, failing, expired, excused>>

\* The script on the server, whether or not somebody waits for it.
ScriptWrites ==
    /\ server.script = "asked" /\ server' = [server EXCEPT !.script = "wrote",
                                                                   !.files = @ \union {item}]
    /\ UNCHANGED <<location, paths, at, item, used, tree, walk, got, dirs, failing, expired,
                   excused>>

ScriptEnds ==
    /\ server.script = "wrote" /\ server' = [server EXCEPT !.script = "done"]
    /\ UNCHANGED <<location, paths, at, item, used, tree, walk, got, dirs, failing, expired,
                   excused>>

SnapshotTaken ==
    /\ Remote("snapshotting") /\ server.script = "done" /\ ~server.lost /\ To("rsync")
    /\ UNCHANGED <<item, used, remote>>

\* rsync writes; monitor_download looks at what is there from time to time.
Grows ==
    /\ Remote("rsync") /\ got <= MaxBytes /\ got' = got + 1
    /\ UNCHANGED <<at, item, used, server, dirs, failing, expired, excused>>

\* Whether that many files may have got bytes: none, where rsync has left out a link or a
\* special file, one, or those of a directory; each within its limit.  A snapshot is one.
MayHold(files, bytes) ==
    /\ bytes <= files * MaxFileBytes
    /\ paths[item].sqlite => files = 1

\* rsync ends and _validate_download commits what it finds; the disk is checked, and with
\* it the deadline.
Downloaded ==
    /\ Remote("rsync") /\ ~expired
    /\ \E files \in 0 .. MaxFiles :
          /\ MayHold(files, got)
          /\ used.bytes + got <= MaxBytes /\ used.files + files <= MaxFiles
          /\ Spend(got, files)
    /\ IF paths[item].sqlite THEN To("removing") /\ UNCHANGED item
                             ELSE To("item") /\ item' = item + 1
    /\ UNCHANGED remote

\* A step fails, is cancelled, times out, or meets a limit.
StepRaises ==
    /\ \E step \in {"connecting", "checking", "item", "asking", "snapshotting", "rsync",
                   "packing"} :
          Remote(step) /\ Raise(step)
    /\ excused' = IF at = "snapshotting" /\ server.script = "asked"
                  THEN excused \union {<<item, "script">>} ELSE excused
    /\ UNCHANGED <<item, used, server, got, dirs, expired>>

\* Where the finally clause of a snapshot leads to.
PathEnds ==
    IF failing THEN To("closing") /\ UNCHANGED <<item, failing>>
               ELSE To("item") /\ item' = item + 1 /\ UNCHANGED failing

Excuse(why) == excused' = excused \union {<<item, why>>}

\* rm -f on the server.
RemoveSnapshot ==
    /\ Remote("removing") /\ ~expired /\ ~server.lost
    /\ server' = [server EXCEPT !.files = @ \ {item}]
    /\ PathEnds /\ UNCHANGED <<used, got, dirs, expired, excused>>

\* The rm cannot be started, fails, loses its connection or takes longer than a minute,
\* which suppress and check=False ignore; or it is cancelled, which they do not.  It may
\* have reached the server.
RemovalFails ==
    /\ Remote("removing") /\ ~expired
    /\ \/ UNCHANGED server
       \/ ~server.lost /\ server' = [server EXCEPT !.files = @ \ {item}]
    /\ Excuse("rm")
    /\ PathEnds \/ (To("closing") /\ failing' = TRUE /\ UNCHANGED item)
    /\ UNCHANGED <<used, got, dirs, expired>>

\* The timeout of the rm is asked of the deadline first, which raises when it has passed.
RemovalTooLate ==
    /\ Remote("removing") /\ expired /\ Excuse("deadline")
    /\ To("closing") /\ failing' = TRUE
    /\ UNCHANGED <<item, used, server, got, dirs, expired>>

CloseConnection ==
    /\ Remote("closing") /\ server' = [server EXCEPT !.open = FALSE]
    /\ To(IF failing THEN "cleaning" ELSE "packing")
    /\ UNCHANGED <<item, used, got, dirs, failing, expired, excused>>

\* _tar_download
Pack ==
    /\ Remote("packing") /\ ~expired /\ To("cleaning") /\ UNCHANGED <<item, used, remote>>

\* The last finally clause; then _verify_tar, which asks the deadline and may fail.
Clean ==
    /\ Remote("cleaning") /\ dirs' = FALSE
    /\ To("failed") \/ (~failing /\ ~expired /\ To("succeeded"))
    /\ UNCHANGED <<item, used, server, got, failing, expired, excused>>

ConnectionLost ==
    /\ server.open /\ ~server.lost /\ server' = [server EXCEPT !.lost = TRUE]
    /\ UNCHANGED <<location, paths, at, item, used, tree, walk, got, dirs, failing, expired,
                   excused>>

DeadlinePasses ==
    /\ location = "REMOTE_SERVER" /\ ~Ended /\ ~expired /\ expired' = TRUE
    /\ UNCHANGED <<location, paths, at, item, used, tree, walk, server, got, dirs, failing,
                   excused>>

\* The worker process is killed.
Killed ==
    /\ location = "REMOTE_SERVER" /\ ~Ended /\ To("killed")
    /\ UNCHANGED <<location, paths, item, used, tree, walk, remote>>

Next ==
    \/ Rewrite \/ Protect \/ Relocate
    \/ Validate \/ StatRoot \/ OpenRoot \/ VerifyPath \/ Complete \/ Stops
    \/ Snapshot \/ CopyBegins \/ Reads \/ CopyEnds
    \/ EnterDirectory \/ List \/ StatEntry \/ OpenEntry \/ LeaveDirectory
    \/ Prepare \/ Connect \/ CheckRsync \/ BeginPath \/ AskSnapshot \/ ScriptWrites
    \/ ScriptEnds \/ SnapshotTaken \/ Grows \/ Downloaded \/ StepRaises
    \/ RemoveSnapshot \/ RemovalFails \/ RemovalTooLate \/ CloseConnection \/ Pack \/ Clean
    \/ ConnectionLost \/ DeadlinePasses \/ Killed

Spec == Init /\ [][Next]_vars

-----------------------------------------------------------------------------
(* Properties *)

\* What a completed archive holds of a file is one version of it, although the file was
\* read piece by piece while others wrote to it.
CopiedIsOneVersion == at = "succeeded" => \A a \in archive : Cardinality(a.stamps) = 1

\* When the walk leaves a directory, each name that is in it is in the archive, as the
\* inode that has the name now, or is recorded as skipped; and the archive has no other
\* name of it.  Entries may be created, renamed and removed throughout the walk.
DirectoryIsWhole ==
    [][at = "walk" /\ at' \in {"walk", "verify"} /\ Len(stack') < Len(stack) =>
       \A n \in Names :
          LET i == entry[<<Here.dir, n>>]
              copied == {a \in archive : a.path = Member(n)} IN
          IF i = Nothing THEN copied = {}
          ELSE \/ \E a \in copied : a.inode = i
               \/ Member(n) \in skipped
               \/ i \in Dir]_vars

\* Everything archived for a path was reached from the inode that was validated and that
\* is still at the path when the acquisition goes on to the next one.
SourceIsTheValidated ==
    [][item' # item /\ location = "LOCAL" =>
       /\ Root = seen.validated
       /\ \A a \in archive : a.path = <<item>> => a.inode = Root]_vars

\* A completed acquisition is within the limits, and has counted every file it took.
WithinBudget ==
    at = "succeeded" => /\ used.bytes <= MaxBytes /\ used.files <= MaxFiles
                        /\ location = "LOCAL" => used.files = Cardinality(archive)

\* The bytes it reports are those of the files it took.
BytesAreCounted ==
    at = "succeeded" /\ location = "LOCAL" =>
        used.bytes = FoldSet(LAMBDA a, sum : a.size + sum, 0, archive)

\* However an acquisition ends, a snapshot that stays on the server is one whose rm failed,
\* which may be of any path and go with success; or that of the path it failed at, if the
\* script was given up before it wrote, or the deadline had passed when rm was due.
SnapshotIsFenced ==
    at \in {"succeeded", "failed"} =>
        \A k \in server.files :
            \/ <<k, "rm">> \in excused
            \/ /\ at = "failed" /\ k = item
               /\ \E why \in {"script", "deadline"} : <<k, why>> \in excused

\* The budget is kept and the snapshot on the server is fenced.
FilesInv == FilesTypeOK /\ WithinBudget /\ BytesAreCounted /\ SnapshotIsFenced
=============================================================================
