---------------------- MODULE FilesAcquisition_proofs ----------------------
(***************************************************************************)
(* Proofs about FilesAcquisition, for any tree, selection, limits and      *)
(* number of changes by other processes: what an archive holds of a file   *)
(* is one version, directories are archived whole, a source is the one     *)
(* that was validated, limits hold, and a snapshot that stays on the       *)
(* server is one whose removal was hindered in a named way.                *)
(*                                                                         *)
(* Each level of the walk is Faithful: as long as the directory's stamp is *)
(* still the first one, its names are to be visited, in hand, or taken.    *)
(***************************************************************************)
EXTENDS FilesAcquisition, FiniteSetTheorems, SequenceTheorems, WellFoundedInduction, TLAPS

LocalSteps == {"item", "validated", "stated", "file", "copying", "snapshot", "enter", "list",
               "walk", "opening", "verify", "succeeded", "failed"}
RemoteSteps == {"prepare", "connecting", "checking", "item", "asking", "snapshotting", "rsync",
                "removing", "closing", "packing", "cleaning", "succeeded", "failed", "killed"}

\* Steps at which there is no directory, one is walked, a path is visited, and an entry is
\* in hand.
Outside   == {"item", "validated", "stated", "snapshot", "verify"}
Walking   == {"enter", "list", "walk", "opening"}
InHand    == {"opening", "file", "copying"}
Visiting  == Walking \union {"validated", "stated", "snapshot", "file", "copying", "verify",
                             "asking", "snapshotting", "rsync", "removing"}
Opened    == Walking \union {"snapshot", "file", "copying", "verify"}
Abandoned == {"failed", "killed"}

Frame == [dir : Dir, path : Seq(Nat), before : Nat, todo : SUBSET Names, name : Names \union {0}]
Archivable == [path : Seq(Nat), inode : Inode, size : Nat, stamps : SUBSET Nat]
CopyState == [before : Nat, size : Nat, stamps : SUBSET Nat, reads : 0 .. 2]

Types ==
    /\ location \in {"LOCAL", "REMOTE_SERVER"} /\ paths \in Selections
    /\ at \in IF location = "LOCAL" THEN LocalSteps ELSE RemoteSteps
    /\ item \in 1 .. Len(paths) + 1 /\ used \in [bytes : 0 .. MaxBytes, files : 0 .. MaxFiles]
    /\ entry \in [Place -> Inode \union {Nothing}] /\ changes \in 0 .. MaxChanges
    /\ info \in [Inode \union {Base} -> [stamp : Nat, size : Sizes, readable : BOOLEAN]]
    /\ seen \in [validated : Inode \union {Nothing}, opened : Inode \union {Nothing},
                 now : Inode \union {Nothing}]
    /\ stack \in Seq(Frame) /\ copy \in CopyState
    /\ archive \subseteq Archivable /\ IsFiniteSet(archive)
    /\ server \in [open : BOOLEAN, lost : BOOLEAN, files : SUBSET Nat,
                   script : {"none", "asked", "wrote", "done"}]
    /\ got \in Nat /\ {dirs, failing, expired} \subseteq BOOLEAN
    /\ excused \subseteq Nat \X Reasons

\* No inode has two names.
OnePlace == \A p, q \in Place : entry[p] = entry[q] /\ p # q => entry[p] = Nothing

\* Where an acquisition is agrees with its path, its directories and what it has seen.
Located ==
    /\ at \in Visiting => item <= Len(paths)
    /\ at \in Walking => stack # <<>>
    /\ at \in Outside \/ location = "REMOTE_SERVER" => stack = <<>>
    /\ location = "REMOTE_SERVER" => archive = {}
    /\ at \in {"stated", "opening"} => seen.now \in Dir \union File
    /\ at \in {"file", "copying", "snapshot"} => seen.now \in File
    /\ at \in Opened => seen.opened = seen.validated
    /\ at \in {"file", "copying", "snapshot"} /\ stack = <<>> => seen.now = seen.validated

\* The stamps read so far lie between the first one and the present one.
CopyFollows ==
    at = "copying" =>
        /\ copy.before <= info[seen.now].stamp
        /\ \A s \in copy.stamps : copy.before <= s /\ s <= info[seen.now].stamp
        /\ copy.reads > 0 => copy.stamps # {}

OneVersion == \A a \in archive : \E s \in Nat : a.stamps = {s}

\* Every file archived was counted, and so is the one being copied.
Counted ==
    location = "LOCAL" /\ at \notin Abandoned =>
        used.files = Cardinality(archive) + (IF at = "copying" THEN 1 ELSE 0)

\* Nothing of the present source is in the archive yet.
Untaken ==
    \/ at \in Outside \ {"verify"}
    \/ at \in {"file", "copying"} /\ stack = <<>>

\* The paths in the archive are those of this source or of earlier ones.
Numbered ==
    /\ \A a \in archive : Len(a.path) > 0 /\ a.path[1] <= item
    /\ location = "LOCAL" /\ Untaken => \A a \in archive : a.path[1] < item
    /\ location = "LOCAL" /\ at \notin Abandoned =>
          \A a \in archive : a.path = <<item>> => a.inode = seen.validated

\* The path of a directory is the source and the names on the way to it.
Routed ==
    \A k \in DOMAIN stack :
        /\ Len(stack[k].path) = k /\ stack[k].path[1] = item
        /\ \A j \in 1 .. k - 1 : stack[k].path[j + 1] = stack[j].name

\* A path leads through a directory.
Under(path, dir) == Len(path) > Len(dir) /\ \A j \in 1 .. Len(dir) : path[j] = dir[j]

\* The directory is still as it was when its walk began.
Still(f) == info[f.dir].stamp = f.before

Listed(k) == k < Len(stack) \/ at \notin {"enter", "list"}
Busy(k)   == k < Len(stack) \/ at \in InHand

\* What a directory has under the name n is in the archive, or need not be.
Taken(f, n) ==
    \/ \E a \in archive : a.path = Append(f.path, n) /\ a.inode = entry[<<f.dir, n>>]
    \/ Append(f.path, n) \in skipped
    \/ entry[<<f.dir, n>>] \in Dir

\* A directory that is entered or listed has nothing in the archive.
Unbegun(k) ==
    ~ Listed(k) => stack[k].todo = {} /\ \A a \in archive : ~ Under(a.path, stack[k].path)

\* What the archive has of a directory was on its list and is not to be visited again.
Visited(k) ==
    \A a \in archive : Under(a.path, stack[k].path) =>
        /\ a.path[k + 1] \notin stack[k].todo
        /\ Still(stack[k]) => /\ a.path[k + 1] \in Names
                             /\ entry[<<stack[k].dir, a.path[k + 1]>>] # Nothing

\* The entry in hand is the directory of the next level, or what was examined last.
InWork(k) ==
    Busy(k) =>
        /\ stack[k].name \in Names /\ stack[k].name \notin stack[k].todo
        /\ k < Len(stack) /\ Still(stack[k]) => entry[<<stack[k].dir, stack[k].name>>] \in Dir
        /\ k = Len(stack) /\ Still(stack[k]) =>
              entry[<<stack[k].dir, stack[k].name>>] = seen.now
        /\ k = Len(stack) =>
              \A a \in archive : Under(a.path, stack[k].path) => a.path[k + 1] # stack[k].name

\* Every entry is to be visited, in hand, or taken.
Covers(k) ==
    Listed(k) /\ Still(stack[k]) =>
        \A n \in Names : entry[<<stack[k].dir, n>>] # Nothing =>
            n \in stack[k].todo \/ (Busy(k) /\ n = stack[k].name) \/ Taken(stack[k], n)

Faithful(k) ==
    /\ stack[k].before <= info[stack[k].dir].stamp
    /\ Unbegun(k) /\ Visited(k) /\ InWork(k) /\ Covers(k)

Walked == at \notin Abandoned => \A k \in DOMAIN stack : Faithful(k)

\* Why the snapshot of the path k may be on the server.
MayStay(k) ==
    \/ <<k, "rm">> \in excused
    \/ at = "killed"
    \/ k = item /\ \/ at \in {"snapshotting", "removing"}
                   \/ at = "rsync" /\ paths[item].sqlite
                   \/ failing /\ (<<k, "script">> \in excused \/ <<k, "deadline">> \in excused)

\* Who may still write the snapshot, who removes it, and why it may stay.
Fenced ==
    /\ location = "LOCAL" => server.script = "none" /\ server.files = {}
    /\ location = "REMOTE_SERVER" =>
          /\ at \in {"asking", "snapshotting", "removing"} => paths[item].sqlite
          /\ failing => at \in {"removing", "closing", "cleaning", "failed", "killed"}
    /\ server.script = "asked" =>
          \/ at \in {"snapshotting", "killed"}
          \/ failing /\ <<item, "script">> \in excused
    /\ \A k \in server.files : MayStay(k)

IInv == /\ Types /\ OnePlace /\ Located /\ CopyFollows /\ OneVersion /\ Counted /\ Numbered
        /\ Routed /\ Walked /\ Fenced

-----------------------------------------------------------------------------
(* Operators                                                               *)

LEMMA Least ==
    ASSUME NEW S \in SUBSET Nat, S # {}
    PROVE  Min(S) \in S
<1>1. PICK x \in S : \A y \in S : ~(<<y, x>> \in OpToRel(<, Nat))
  BY NatLessThanWellFounded, WFMin, Zenon
<1>2. \A y \in S : ~(y < x)
  BY <1>1 DEF OpToRel
<1>3. \A y \in S : x <= y
  BY <1>2
<1> QED BY <1>3 DEF Min

LEMMA Limits ==
    /\ (\A n \in Names : n \in Nat) /\ (\A z \in Sizes : z \in Nat) /\ Sizes # {}
    /\ MaxFileBytes \in Nat /\ MaxBytes \in Nat /\ MaxFiles \in Nat /\ MaxDepth \in Nat
    /\ MaxChanges \in Nat
BY FilesAssumption

LEMMA Kinds ==
    /\ Dir \subseteq Inode /\ File \subseteq Inode /\ Dir \intersect File = {}
    /\ Nothing \notin Inode /\ Base \notin Inode /\ Base \notin Dir
    /\ \A d \in Directory, n \in Names : <<d, n>> \in Place
    /\ Dir \subseteq Directory /\ Base \in Directory /\ Directory \subseteq Inode \union {Base}
BY FilesAssumption DEF Inode, Place, Directory

\* The selected path is a source in the base directory.
LEMMA Selected ==
    ASSUME Types, item <= Len(paths)
    PROVE  /\ paths[item].name \in Names /\ paths[item].sqlite \in BOOLEAN
           /\ Root \in Inode \union {Nothing}
<1>1. paths \in Seq([name : Names, sqlite : BOOLEAN])
  BY FilesAssumption DEF Types
<1>2. item \in 1 .. Len(paths)
  BY <1>1 DEF Types
<1>3. paths[item] \in [name : Names, sqlite : BOOLEAN]
  BY <1>1, <1>2, ElementOfSeq
<1> QED BY <1>3, Kinds DEF Types, Root

LEMMA Pushed ==
    ASSUME NEW S, NEW s \in Seq(S), NEW f \in S
    PROVE  /\ Append(s, f) \in Seq(S) /\ Len(Append(s, f)) = Len(s) + 1
           /\ Append(s, f)[Len(s) + 1] = f /\ Append(s, f) # <<>>
           /\ \A k \in 1 .. Len(s) : Append(s, f)[k] = s[k]
OBVIOUS

LEMMA Popped ==
    ASSUME NEW S, NEW s \in Seq(S), s # <<>>
    PROVE  /\ Front(s) \in Seq(S) /\ Len(Front(s)) = Len(s) - 1
           /\ \A k \in 1 .. Len(s) - 1 : Front(s)[k] = s[k]
           /\ Front(s) = <<>> <=> Len(s) = 1
<1>1. Len(s) \in Nat /\ Len(s) > 0
  OBVIOUS
<1>2. Front(s) = SubSeq(s, 1, Len(s) - 1)
  BY DEF Front
<1>3. /\ Front(s) \in Seq(S) /\ Len(Front(s)) = Len(s) - 1
      /\ \A k \in 1 .. Len(s) - 1 : Front(s)[k] = s[k]
  <2>1. /\ 1 \in Int /\ Len(s) - 1 \in Int /\ \A i \in 1 .. Len(s) - 1 : s[i] \in S
    BY <1>1
  <2>2. /\ SubSeq(s, 1, Len(s) - 1) \in Seq(S)
        /\ Len(SubSeq(s, 1, Len(s) - 1)) = IF 1 <= Len(s) - 1 THEN Len(s) - 1 - 1 + 1 ELSE 0
        /\ \A i \in 1 .. Len(s) - 1 - 1 + 1 : SubSeq(s, 1, Len(s) - 1)[i] = s[1 + i - 1]
    BY <2>1, SubSeqProperties
  <2>3. /\ Front(s) \in Seq(S) /\ Len(Front(s)) = Len(s) - 1
    <3> DEFINE t == SubSeq(s, 1, Len(s) - 1)
               n == Len(s)
    <3>1. t \in Seq(S) /\ Len(t) = (IF 1 <= n - 1 THEN n - 1 - 1 + 1 ELSE 0) /\ n \in Nat /\ n > 0
      BY <1>1, <2>2
    <3>2. Front(s) = t
      BY <1>2
    <3> HIDE DEF t, n
    <3>3. Len(t) = n - 1
      BY <3>1
    <3> QED BY <3>1, <3>2, <3>3 DEF n
  <2>4. ASSUME NEW k \in 1 .. Len(s) - 1 PROVE Front(s)[k] = s[k]
    <3>1. k \in 1 .. Len(s) - 1 - 1 + 1 /\ 1 + k - 1 = k
      BY <1>1
    <3> QED BY <1>2, <2>2, <3>1
  <2> QED BY <2>3, <2>4
<1> QED BY <1>1, <1>3

LEMMA Replaced ==
    ASSUME NEW S, NEW s \in Seq(S), s # <<>>, NEW f \in S
    PROVE  LET t == [s EXCEPT ![Len(s)] = f]
           IN  /\ t \in Seq(S) /\ Len(t) = Len(s) /\ t # <<>> /\ t[Len(s)] = f
               /\ \A k \in 1 .. Len(s) - 1 : t[k] = s[k]
<1>1. Len(s) \in Nat /\ Len(s) > 0 /\ Len(s) \in DOMAIN s
  OBVIOUS
<1> QED BY <1>1

\* What the innermost directory is.
LEMMA Innermost ==
    ASSUME Types, stack # <<>>
    PROVE  /\ Len(stack) \in Nat \ {0} /\ Len(stack) \in DOMAIN stack
           /\ Here = stack[Len(stack)] /\ Here \in Frame
           /\ Here.dir \in Dir /\ Here.path \in Seq(Nat) /\ Here.before \in Nat
           /\ Here.todo \subseteq Names /\ Here.name \in Nat
           /\ \A n \in Names : entry[<<Here.dir, n>>] \in Inode \union {Nothing}
           /\ info[Here.dir].stamp \in Nat
<1>1. stack \in Seq(Frame) /\ Len(stack) \in Nat \ {0} /\ Len(stack) \in DOMAIN stack
  BY DEF Types
<1>2. Here = stack[Len(stack)] /\ Here \in Frame
  BY <1>1 DEF Here
<1>3. /\ Here.dir \in Dir /\ Here.path \in Seq(Nat) /\ Here.before \in Nat
      /\ Here.todo \subseteq Names /\ Here.name \in Nat
  BY <1>2, Limits DEF Frame
<1>4. info[Here.dir].stamp \in Nat
  BY <1>3, Kinds DEF Types
<1> QED BY <1>1, <1>2, <1>3, <1>4, Kinds DEF Types

-----------------------------------------------------------------------------
(* Other processes                                                         *)

Infos == [Inode \union {Base} -> [stamp : Nat, size : Sizes, readable : BOOLEAN]]

LEMMA Bumped ==
    ASSUME NEW f \in Infos, NEW D
    PROVE  /\ Bump(f, D) \in Infos
           /\ \A i \in Inode \union {Base} :
                 /\ Bump(f, D)[i].stamp = IF i \in D THEN f[i].stamp + 1 ELSE f[i].stamp
                 /\ f[i].stamp \in Nat
BY DEF Infos, Bump

\* Time passes for the inodes, and the entries of a directory change with its stamp.
Evolves ==
    /\ info' \in Infos /\ entry' \in [Place -> Inode \union {Nothing}]
    /\ \A i \in Inode : info[i].stamp <= info'[i].stamp
    /\ \A d \in Dir : info'[d].stamp = info[d].stamp =>
          \A n \in Names : entry'[<<d, n>>] = entry[<<d, n>>]

LEMMA OthersKeep ==
    ASSUME IInv, Change, Evolves, OnePlace'
    PROVE  IInv'
<1>1. /\ UNCHANGED <<location, paths, at, item, used, walk, remote>>
      /\ changes' \in 0 .. MaxChanges
  <2>1. changes \in 0 .. MaxChanges /\ MaxChanges \in Nat
    BY Limits DEF IInv, Types
  <2> QED BY <2>1 DEF Change
<1>2. Types'
  BY <1>1 DEF IInv, Types, walk, remote, Evolves, Infos
<1>3. CopyFollows'
  <2>1. ASSUME at = "copying"
        PROVE  /\ seen.now \in Inode /\ info[seen.now].stamp <= info'[seen.now].stamp
               /\ info[seen.now].stamp \in Nat /\ info'[seen.now].stamp \in Nat
               /\ copy.before \in Nat /\ copy.stamps \subseteq Nat
    <3>1. seen.now \in Inode
      BY <2>1, Kinds DEF IInv, Located
    <3> QED BY <3>1 DEF IInv, Types, Evolves, Infos, CopyState
  <2> QED BY <1>1, <2>1 DEF IInv, CopyFollows, walk
<1>4. Walked'
  <2> SUFFICES ASSUME at \notin Abandoned, NEW k \in DOMAIN stack
               PROVE  Faithful(k)'
    BY <1>1 DEF Walked, walk
  <2> DEFINE f == stack[k]
  <2>1. Faithful(k) /\ f \in Frame
    BY DEF IInv, Walked, Types
  <2>2. f.dir \in Dir /\ f.dir \in Inode /\ f.before \in Nat
    BY <2>1, Kinds DEF Frame
  <2>3. /\ info[f.dir].stamp \in Nat /\ info'[f.dir].stamp \in Nat
        /\ info[f.dir].stamp <= info'[f.dir].stamp
    BY <2>2 DEF IInv, Types, Evolves, Infos
  <2>4. f.before <= info[f.dir].stamp
    BY <2>1 DEF Faithful
  <2>5. Still(f)' => Still(f) /\ \A n \in Names : entry'[<<f.dir, n>>] = entry[<<f.dir, n>>]
    BY <1>1, <2>2, <2>3, <2>4 DEF Still, walk, Evolves
  <2>6. (Listed(k)' <=> Listed(k)) /\ (Busy(k)' <=> Busy(k)) /\ stack' = stack
        /\ archive' = archive /\ skipped' = skipped /\ seen' = seen
    BY <1>1 DEF Listed, Busy, walk
  <2>7. Still(f)' => \A n \in Names : Taken(f, n)' <=> Taken(f, n)
    BY <2>5, <2>6 DEF Taken
  <2>8. Unbegun(k)'
    BY <2>1, <2>6 DEF Faithful, Unbegun
  <2>9. Visited(k)'
    BY <2>1, <2>5, <2>6 DEF Faithful, Visited
  <2>10. InWork(k)'
    BY <2>1, <2>5, <2>6 DEF Faithful, InWork
  <2>11. Covers(k)'
    BY <2>1, <2>5, <2>6, <2>7 DEF Faithful, Covers
  <2>12. (stack[k].before <= info[stack[k].dir].stamp)'
    BY <2>2, <2>3, <2>4, <2>6
  <2> QED BY <2>8, <2>9, <2>10, <2>11, <2>12 DEF Faithful
<1> QED BY <1>1, <1>2, <1>3, <1>4
        DEF IInv, Located, OneVersion, Counted, Numbered, Untaken, Routed, Fenced, MayStay, walk,
            remote

LEMMA RewriteKeeps ==
    ASSUME IInv, Rewrite
    PROVE  IInv'
<1>1. PICK f \in File, z \in Sizes : info' = Bump([info EXCEPT ![f].size = z], {f})
  BY DEF Rewrite
<1>2. Change /\ entry' = entry /\ info \in Infos /\ f \in Inode
  BY Kinds DEF Rewrite, IInv, Types, Infos
<1> DEFINE g == [info EXCEPT ![f].size = z]
<1>3. g \in Infos /\ \A i \in Inode : g[i].stamp = info[i].stamp
  BY <1>2 DEF Infos
<1>4. info' \in Infos /\ \A i \in Inode : info[i].stamp <= info'[i].stamp
  <2>1. info' = Bump(g, {f})
    BY <1>1
  <2> HIDE DEF g
  <2>2. /\ info' \in Infos
        /\ \A i \in Inode : /\ g[i].stamp \in Nat
                            /\ \/ info'[i].stamp = g[i].stamp + 1
                               \/ info'[i].stamp = g[i].stamp
    BY <1>3, <2>1, Bumped
  <2> QED BY <1>3, <2>2
<1>5. Evolves /\ OnePlace'
  BY <1>2, <1>4 DEF Evolves, OnePlace, IInv, Types
<1> QED BY <1>2, <1>5, OthersKeep

LEMMA ProtectKeeps ==
    ASSUME IInv, Protect
    PROVE  IInv'
<1>1. PICK i \in Dir \union File : info' = Bump([info EXCEPT ![i].readable = ~@], {i})
  BY DEF Protect
<1>2. Change /\ entry' = entry /\ info \in Infos /\ i \in Inode
  BY Kinds DEF Protect, IInv, Types, Infos
<1> DEFINE g == [info EXCEPT ![i].readable = ~@]
<1>3. g \in Infos /\ \A j \in Inode : g[j].stamp = info[j].stamp
  BY <1>2 DEF Infos
<1>4. info' \in Infos /\ \A j \in Inode : info[j].stamp <= info'[j].stamp
  <2>1. info' = Bump(g, {i})
    BY <1>1
  <2> HIDE DEF g
  <2>2. /\ info' \in Infos
        /\ \A j \in Inode : /\ g[j].stamp \in Nat
                            /\ \/ info'[j].stamp = g[j].stamp + 1
                               \/ info'[j].stamp = g[j].stamp
    BY <1>3, <2>1, Bumped
  <2> QED BY <1>3, <2>2
<1>5. Evolves /\ OnePlace'
  BY <1>2, <1>4 DEF Evolves, OnePlace, IInv, Types
<1> QED BY <1>2, <1>5, OthersKeep

\* Entries change in the directories D alone.
LEMMA Moves ==
    ASSUME IInv, NEW D, info' = Bump(info, D), NEW P \in SUBSET Place,
           entry' \in [Place -> Inode \union {Nothing}],
           \A p \in P : p[1] \in D, \A p \in Place \ P : entry'[p] = entry[p]
    PROVE  Evolves
<1>1. info \in Infos
  BY DEF IInv, Types, Infos
<1>2. /\ info' \in Infos
      /\ \A i \in Inode : /\ i \in D => info'[i].stamp = info[i].stamp + 1
                          /\ i \notin D => info'[i].stamp = info[i].stamp
                          /\ info[i].stamp \in Nat
  BY <1>1, Bumped
<1>3. ASSUME NEW d \in Dir, info'[d].stamp = info[d].stamp, NEW n \in Names
      PROVE  entry'[<<d, n>>] = entry[<<d, n>>]
  <2>1. d \in Inode /\ <<d, n>> \in Place /\ <<d, n>>[1] = d
    BY Kinds
  <2>2. d \notin D
    BY <1>2, <1>3, <2>1
  <2> QED BY <2>1, <2>2
<1>4. \A i \in Inode : info[i].stamp <= info'[i].stamp
  BY <1>2
<1> QED BY <1>2, <1>3, <1>4 DEF Evolves

LEMMA RelocateKeeps ==
    ASSUME IInv, Relocate
    PROVE  IInv'
<1>1. Change
  BY DEF Relocate
<1>2. PICK i \in Inode :
        LET from == {p \in Place : entry[p] = i} IN
          \/ /\ entry' = [p \in Place |-> IF p \in from THEN Nothing ELSE entry[p]]
             /\ info' = Bump(info, {p[1] : p \in from})
          \/ \E to \in Place \ from :
                /\ entry' = [p \in Place |-> IF p = to THEN i ELSE
                                             IF p \in from THEN Nothing ELSE entry[p]]
                /\ info' = Bump(info, {p[1] : p \in from \union {to}})
  BY Zenon DEF Relocate
<1> DEFINE from == {p \in Place : entry[p] = i}
<1>3. entry \in [Place -> Inode \union {Nothing}] /\ OnePlace
  BY DEF IInv, Types
<1>4. ASSUME entry' = [p \in Place |-> IF p \in from THEN Nothing ELSE entry[p]],
             info' = Bump(info, {p[1] : p \in from})
      PROVE  Evolves /\ OnePlace'
  <2>1. /\ entry' \in [Place -> Inode \union {Nothing}] /\ from \in SUBSET Place
        /\ \A p \in from : p[1] \in {q[1] : q \in from}
        /\ \A p \in Place \ from : entry'[p] = entry[p]
    BY <1>3, <1>4
  <2>2. Evolves
    BY <1>4, <2>1, Moves
  <2>3. OnePlace'
    BY <1>3, <1>4 DEF OnePlace
  <2> QED BY <2>2, <2>3
<1>5. ASSUME NEW to \in Place \ from,
             entry' = [p \in Place |-> IF p = to THEN i ELSE
                                       IF p \in from THEN Nothing ELSE entry[p]],
             info' = Bump(info, {p[1] : p \in from \union {to}})
      PROVE  Evolves /\ OnePlace'
  <2>1. /\ entry' \in [Place -> Inode \union {Nothing}] /\ from \union {to} \in SUBSET Place
        /\ \A p \in from \union {to} : p[1] \in {q[1] : q \in from \union {to}}
        /\ \A p \in Place \ (from \union {to}) : entry'[p] = entry[p]
    BY <1>3, <1>5
  <2>2. Evolves
    BY <1>5, <2>1, Moves
  <2>3. OnePlace'
    BY <1>3, <1>5 DEF OnePlace
  <2> QED BY <2>2, <2>3
<1> QED BY <1>1, <1>2, <1>4, <1>5, OthersKeep

LEMMA InitIInv == Init => IInv
<1> SUFFICES ASSUME Init PROVE IInv
  OBVIOUS
<1>1. Min(Sizes) \in Sizes
  BY Limits, Least
<1>2. paths \in Seq([name : Names, sqlite : BOOLEAN])
  BY FilesAssumption DEF Init
<1>3. Len(paths) \in Nat
  BY <1>2
<1>4. Types
  <2>1. location \in {"LOCAL", "REMOTE_SERVER"} /\ paths \in Selections
        /\ at \in (IF location = "LOCAL" THEN LocalSteps ELSE RemoteSteps)
        /\ item \in 1 .. Len(paths) + 1 /\ used \in [bytes : 0 .. MaxBytes, files : 0 .. MaxFiles]
    BY <1>3, Limits DEF Init, LocalSteps, RemoteSteps
  <2>2. /\ entry \in [Place -> Inode \union {Nothing}] /\ changes \in 0 .. MaxChanges
        /\ info \in [Inode \union {Base} -> [stamp : Nat, size : Sizes, readable : BOOLEAN]]
    BY <1>1, Limits, FilesAssumption DEF Init
  <2>3. /\ seen \in [validated : Inode \union {Nothing}, opened : Inode \union {Nothing},
                     now : Inode \union {Nothing}]
        /\ stack \in Seq(Frame) /\ copy \in CopyState
    BY DEF Init, Unseen, NoCopy, CopyState
  <2>4. archive \subseteq Archivable /\ IsFiniteSet(archive)
    BY FS_EmptySet DEF Init
  <2>5. /\ server \in [open : BOOLEAN, lost : BOOLEAN, files : SUBSET Nat,
                       script : {"none", "asked", "wrote", "done"}]
        /\ got \in Nat /\ {dirs, failing, expired} \subseteq BOOLEAN
        /\ excused \subseteq Nat \X Reasons
    BY DEF Init
  <2> QED BY <2>1, <2>2, <2>3, <2>4, <2>5 DEF Types
<1>5. OnePlace
  BY FilesAssumption DEF Init, OnePlace
<1>6. Located /\ CopyFollows /\ OneVersion /\ Fenced
  BY DEF Init, Located, CopyFollows, OneVersion, Fenced, Visiting, Walking, Outside, Opened
<1>7. Counted /\ Numbered
  BY FS_EmptySet DEF Init, Counted, Numbered, Abandoned
<1>8. Routed /\ Walked
  BY DEF Init, Routed, Walked
<1> QED BY <1>4, <1>5, <1>6, <1>7, <1>8 DEF IInv

-----------------------------------------------------------------------------
(* Remote acquisition                                                      *)

\* What is typed and placed of a remote acquisition.
RemoteFits ==
    /\ at \in RemoteSteps /\ item \in 1 .. Len(paths) + 1
    /\ used \in [bytes : 0 .. MaxBytes, files : 0 .. MaxFiles]
    /\ server \in [open : BOOLEAN, lost : BOOLEAN, files : SUBSET Nat,
                   script : {"none", "asked", "wrote", "done"}]
    /\ got \in Nat /\ {dirs, failing, expired} \subseteq BOOLEAN
    /\ excused \subseteq Nat \X Reasons
    /\ at \in Visiting => item <= Len(paths)

LEMMA RemoteKeeps ==
    ASSUME IInv, location = "REMOTE_SERVER", UNCHANGED <<location, paths, tree, walk>>,
           RemoteFits', Fenced'
    PROVE  IInv'
<1>1. stack = <<>> /\ archive = {}
  BY DEF IInv, Located
<1>2. /\ at' \notin Walking /\ at' \notin Opened /\ at' # "copying" /\ at' \notin InHand
      /\ at' \notin {"stated", "opening", "file", "copying", "snapshot"}
  BY DEF RemoteFits, RemoteSteps, Walking, Opened, InHand
<1>3. Types'
  BY DEF IInv, Types, RemoteFits, tree, walk
<1>4. Located'
  BY <1>1, <1>2 DEF Located, RemoteFits, walk
<1> QED BY <1>1, <1>2, <1>3, <1>4 DEF IInv, OnePlace, CopyFollows, OneVersion, Counted, Numbered,
                                      Routed, Walked, tree, walk

LEMMA RemoteBefore ==
    ASSUME IInv, location = "REMOTE_SERVER"
    PROVE  RemoteFits /\ Fenced /\ Len(paths) \in Nat
<1>1. paths \in Seq([name : Names, sqlite : BOOLEAN])
  BY FilesAssumption DEF IInv, Types
<1>2. Len(paths) \in Nat
  BY <1>1
<1> QED BY <1>2 DEF IInv, Types, RemoteFits, Located

\* What fits into the budget keeps it within its limits.
LEMMA Spent ==
    ASSUME used \in [bytes : 0 .. MaxBytes, files : 0 .. MaxFiles],
           NEW bytes \in Nat, NEW files \in Nat,
           used.bytes + bytes <= MaxBytes, used.files + files <= MaxFiles, Spend(bytes, files)
    PROVE  /\ used' \in [bytes : 0 .. MaxBytes, files : 0 .. MaxFiles]
           /\ used'.files = used.files + files
<1>1. used.bytes \in Nat /\ used.files \in Nat
  OBVIOUS
<1>2. used.bytes + bytes \in 0 .. MaxBytes /\ used.files + files \in 0 .. MaxFiles
  BY <1>1, Limits
<1> QED BY <1>2 DEF Spend

\* The steps of the acquisition itself.
RemoteStep ==
    \/ Prepare \/ Connect \/ CheckRsync \/ BeginPath \/ AskSnapshot \/ SnapshotTaken \/ Grows
    \/ Downloaded \/ StepRaises \/ RemoveSnapshot \/ RemovalFails \/ RemovalTooLate
    \/ CloseConnection \/ Pack \/ Clean \/ DeadlinePasses \/ Killed

LEMMA RemoteStepKeeps ==
    ASSUME IInv, RemoteStep
    PROVE  IInv'
<1>1. location = "REMOTE_SERVER" /\ UNCHANGED <<location, paths, tree, walk>>
  BY DEF RemoteStep, Prepare, Connect, CheckRsync, BeginPath, AskSnapshot, SnapshotTaken, Grows,
         Downloaded, StepRaises, RemoveSnapshot, RemovalFails, RemovalTooLate, CloseConnection,
         Pack, Clean, DeadlinePasses, Killed, Remote
<1>2. RemoteFits /\ Fenced /\ Len(paths) \in Nat /\ paths' = paths
  BY <1>1, RemoteBefore
<1>3. CASE Prepare \/ Connect \/ CheckRsync
  <2>1. RemoteFits'
    BY <1>2, <1>3 DEF Prepare, Connect, CheckRsync, Remote, To, RemoteFits, RemoteSteps, Visiting,
                      Walking, remote
  <2>2. at \in {"prepare", "connecting", "checking"}
        /\ at' \in {"connecting", "failed", "checking", "item"}
        /\ UNCHANGED <<item, failing, excused>>
    BY <1>3 DEF Prepare, Connect, CheckRsync, Remote, To, remote
  <2>3. server'.files = server.files /\ server'.script = server.script
    BY <1>2, <1>3 DEF Prepare, Connect, CheckRsync, RemoteFits, remote
  <2>4. Fenced'
    BY <1>1, <1>2, <2>2, <2>3 DEF Fenced, MayStay
  <2> QED BY <1>1, <2>1, <2>4, RemoteKeeps
<1>4. CASE BeginPath
  <2>1. RemoteFits'
    BY <1>2, <1>4 DEF BeginPath, Remote, To, RemoteFits, RemoteSteps, Visiting, Walking
  <2>2. Fenced'
    BY <1>1, <1>2, <1>4 DEF BeginPath, Remote, To, Fenced, MayStay
  <2> QED BY <1>1, <2>1, <2>2, RemoteKeeps
<1>5. CASE AskSnapshot
  <2>1. RemoteFits'
    BY <1>2, <1>5 DEF AskSnapshot, Remote, To, RemoteFits, RemoteSteps, Visiting, Walking
  <2>2. Fenced'
    <3>1. server' = [server EXCEPT !.script = "asked"]
      BY <1>5 DEF AskSnapshot
    <3>2. server'.script = "asked" /\ server'.files = server.files
      BY <1>2, <3>1 DEF RemoteFits
    <3>3. /\ at = "asking" /\ at' = "snapshotting"
          /\ UNCHANGED <<item, failing, excused>>
      BY <1>5 DEF AskSnapshot, Remote, To
    <3> QED BY <1>1, <1>2, <3>2, <3>3 DEF Fenced, MayStay
  <2> QED BY <1>1, <2>1, <2>2, RemoteKeeps
<1>6. CASE SnapshotTaken \/ Grows
  <2>1. RemoteFits'
    BY <1>2, <1>6 DEF SnapshotTaken, Grows, Remote, To, RemoteFits, RemoteSteps, Visiting, Walking,
                      remote
  <2>2. Fenced'
    BY <1>1, <1>2, <1>6 DEF SnapshotTaken, Grows, Remote, To, Fenced, MayStay, remote
  <2> QED BY <1>1, <2>1, <2>2, RemoteKeeps
<1>7. CASE Downloaded
  <2>1. used' \in [bytes : 0 .. MaxBytes, files : 0 .. MaxFiles]
    <3>1. PICK files \in 0 .. MaxFiles :
             /\ used.bytes + got <= MaxBytes /\ used.files + files <= MaxFiles
             /\ Spend(got, files)
      BY <1>7 DEF Downloaded
    <3>2. files \in Nat /\ got \in Nat
      BY <1>2, Limits DEF RemoteFits
    <3> QED BY <1>2, <3>1, <3>2, Spent DEF RemoteFits
  <2>2. /\ at = "rsync" /\ UNCHANGED remote
        /\ \/ paths[item].sqlite /\ at' = "removing" /\ item' = item
           \/ ~ paths[item].sqlite /\ at' = "item" /\ item' = item + 1
    BY <1>7 DEF Downloaded, Remote, To
  <2>3. item \in 1 .. Len(paths)
    BY <1>2, <2>2 DEF RemoteFits, Visiting
  <2>4. item' \in 1 .. Len(paths) + 1
    BY <1>2, <2>2, <2>3
  <2>5. RemoteFits'
    BY <1>2, <2>1, <2>2, <2>3, <2>4 DEF RemoteFits, RemoteSteps, Visiting, Walking, remote
  <2>6. Fenced'
    BY <1>1, <1>2, <2>2 DEF Fenced, MayStay, remote
  <2> QED BY <1>1, <2>5, <2>6, RemoteKeeps
<1>8. CASE StepRaises
  <2>1. /\ at \in {"connecting", "checking", "item", "asking", "snapshotting", "rsync", "packing"}
        /\ failing' = TRUE /\ UNCHANGED <<item, used, server, got, dirs, expired>>
        /\ excused' = IF at = "snapshotting" /\ server.script = "asked"
                      THEN excused \union {<<item, "script">>} ELSE excused
        /\ at' = Finally(at)
    BY <1>8 DEF StepRaises, Raise, Remote, To
  <2>2. /\ at \in {"asking", "snapshotting"} => at' = "removing" /\ paths[item].sqlite
        /\ at = "rsync" => at' = IF paths[item].sqlite THEN "removing" ELSE "closing"
        /\ at \in {"connecting", "checking", "item", "packing"} => at' \in {"closing", "cleaning"}
    BY <1>1, <1>2, <2>1 DEF Finally, Fenced
  <2>3. excused' \subseteq Nat \X Reasons /\ excused \subseteq excused'
    BY <1>2, <2>1 DEF RemoteFits, Reasons
  <2>4. RemoteFits'
    BY <1>2, <2>1, <2>2, <2>3 DEF RemoteFits, RemoteSteps, Visiting, Walking
  <2>5. Fenced'
    BY <1>1, <1>2, <2>1, <2>2, <2>3 DEF Fenced, MayStay
  <2> QED BY <1>1, <2>4, <2>5, RemoteKeeps
<1>9. CASE RemoveSnapshot \/ RemovalFails \/ RemovalTooLate
  <2>1. /\ at = "removing" /\ at' \in {"closing", "item"}
        /\ \/ at' = "closing" /\ failing' = TRUE /\ item' = item
           \/ at' = "item" /\ ~ failing /\ ~ failing' /\ item' = item + 1
    BY <1>2, <1>9
       DEF RemoveSnapshot, RemovalFails, RemovalTooLate, PathEnds, Remote, To, RemoteFits
  <2>2. UNCHANGED <<used, got, dirs, expired>> /\ failing' \in BOOLEAN
    BY <1>2, <1>9 DEF RemoveSnapshot, RemovalFails, RemovalTooLate, PathEnds, RemoteFits
  <2>3. /\ server' \in [open : BOOLEAN, lost : BOOLEAN, files : SUBSET Nat,
                        script : {"none", "asked", "wrote", "done"}]
        /\ server'.files \subseteq server.files /\ server'.script = server.script
        /\ \/ item \notin server'.files
           \/ <<item, "rm">> \in excused'
           \/ <<item, "deadline">> \in excused' /\ at' = "closing"
    <3>1. CASE RemoveSnapshot
      BY <1>2, <3>1 DEF RemoveSnapshot, RemoteFits
    <3>2. CASE RemovalFails
      BY <1>2, <3>2 DEF RemovalFails, RemoteFits, Excuse
    <3>3. CASE RemovalTooLate
      BY <1>2, <3>3 DEF RemovalTooLate, RemoteFits, Excuse, To
    <3> QED BY <1>9, <3>1, <3>2, <3>3
  <2>4. item \in 1 .. Len(paths) /\ item \in Nat
    BY <1>2, <2>1 DEF RemoteFits, Visiting
  <2>5. item' \in 1 .. Len(paths) + 1
    BY <1>2, <2>1, <2>4
  <2>6. excused' \subseteq Nat \X Reasons /\ excused \subseteq excused'
    BY <1>2, <1>9, <2>4
       DEF RemoveSnapshot, RemovalFails, RemovalTooLate, Excuse, Reasons, RemoteFits
  <2>7. RemoteFits'
    BY <1>2, <2>1, <2>2, <2>3, <2>5, <2>6 DEF RemoteFits, RemoteSteps, Visiting, Walking
  <2>8. ASSUME NEW k \in server'.files PROVE MayStay(k)'
    <3>1. MayStay(k)
      BY <1>2, <2>3 DEF Fenced
    <3>2. CASE k # item
      BY <2>1, <2>6, <3>1, <3>2 DEF MayStay
    <3>3. CASE k = item
      BY <2>1, <2>3, <2>6, <3>1, <3>3 DEF MayStay
    <3> QED BY <3>2, <3>3
  <2>9. Fenced'
    <3>1. server'.script = "asked" => failing' /\ <<item', "script">> \in excused'
      BY <1>2, <2>1, <2>3, <2>6 DEF Fenced
    <3>2. failing' => at' = "closing"
      BY <2>1
    <3> QED BY <1>1, <2>1, <2>8, <3>1, <3>2 DEF Fenced
  <2> QED BY <1>1, <2>7, <2>9, RemoteKeeps
<1>10. CASE CloseConnection \/ Pack \/ Clean
  <2>1. RemoteFits'
    BY <1>2, <1>10 DEF CloseConnection, Pack, Clean, Remote, To, RemoteFits, RemoteSteps, Visiting,
                      Walking, remote
  <2>2. /\ at \in {"closing", "packing", "cleaning"}
        /\ at' \in {"packing", "cleaning", "failed", "succeeded"}
        /\ failing => at' \in {"cleaning", "failed"}
        /\ UNCHANGED <<item, failing, excused>>
    BY <1>1, <1>2, <1>10 DEF CloseConnection, Pack, Clean, Remote, To, Fenced, remote
  <2>3. server'.files = server.files /\ server'.script = server.script
    BY <1>2, <1>10 DEF CloseConnection, Pack, Clean, RemoteFits, remote
  <2>4. Fenced'
    BY <1>1, <1>2, <2>2, <2>3 DEF Fenced, MayStay
  <2> QED BY <1>1, <2>1, <2>4, RemoteKeeps
<1>11. CASE DeadlinePasses \/ Killed
  <2>1. RemoteFits'
    BY <1>2, <1>11 DEF DeadlinePasses, Killed, To, RemoteFits, RemoteSteps, Visiting, Walking,
                       remote
  <2>2. Fenced'
    BY <1>1, <1>2, <1>11 DEF DeadlinePasses, Killed, To, Fenced, MayStay, remote
  <2> QED BY <1>1, <2>1, <2>2, RemoteKeeps
<1> QED BY <1>3, <1>4, <1>5, <1>6, <1>7, <1>8, <1>9, <1>10, <1>11 DEF RemoteStep

\* What happens on the server and to the connection.
LEMMA ServerKeeps ==
    ASSUME IInv, ScriptWrites \/ ScriptEnds \/ ConnectionLost
    PROVE  IInv'
<1>1. UNCHANGED <<location, paths, at, item, used, tree, walk, got, dirs, failing, expired,
                  excused>>
  BY DEF ScriptWrites, ScriptEnds, ConnectionLost
<1>2. /\ server \in [open : BOOLEAN, lost : BOOLEAN, files : SUBSET Nat,
                     script : {"none", "asked", "wrote", "done"}]
      /\ Fenced /\ item \in Nat
  BY DEF IInv, Types
<1>3. server' \in [open : BOOLEAN, lost : BOOLEAN, files : SUBSET Nat,
                   script : {"none", "asked", "wrote", "done"}]
  <2>1. CASE ScriptWrites
    BY <1>2, <2>1 DEF ScriptWrites
  <2>2. CASE ScriptEnds
    BY <1>2, <2>2 DEF ScriptEnds
  <2>3. CASE ConnectionLost
    BY <1>2, <2>3 DEF ConnectionLost
  <2> QED BY <2>1, <2>2, <2>3
<1>4. Fenced'
  <2>1. CASE ScriptWrites
    <3>1. server.script = "asked" /\ server'.script = "wrote"
          /\ server'.files = server.files \union {item} /\ location = "REMOTE_SERVER"
      BY <1>2, <2>1 DEF ScriptWrites, Fenced, IInv, Types
    <3>2. MayStay(item)
      BY <1>2, <3>1 DEF Fenced, MayStay
    <3>3. \A k \in server'.files : MayStay(k)'
      BY <1>1, <1>2, <3>1, <3>2 DEF Fenced, MayStay
    <3> QED BY <1>1, <1>2, <3>1, <3>3 DEF Fenced
  <2>2. CASE ScriptEnds \/ ConnectionLost
    <3>1. /\ server'.files = server.files
          /\ \/ server'.script = server.script
             \/ server.script = "wrote" /\ server'.script = "done"
      BY <1>2, <2>2 DEF ScriptEnds, ConnectionLost
    <3> QED BY <1>1, <1>2, <3>1 DEF Fenced, MayStay
  <2> QED BY <2>1, <2>2
<1>5. Types'
  BY <1>1, <1>3 DEF IInv, Types, tree, walk
<1> QED BY <1>1, <1>4, <1>5
        DEF IInv, OnePlace, Located, CopyFollows, OneVersion, Counted, Numbered, Untaken, Routed,
            Walked, Faithful, Unbegun, Visited, InWork, Covers, Listed, Busy, Still, Taken, tree,
            walk

-----------------------------------------------------------------------------
(* Local acquisition                                                       *)

LEMMA LocalKeeps ==
    ASSUME IInv, location = "LOCAL", UNCHANGED <<location, paths, tree, remote>>,
           Types', Located', CopyFollows', OneVersion', Counted', Numbered', Routed', Walked'
    PROVE  IInv'
<1>1. OnePlace' /\ Fenced'
  BY DEF IInv, OnePlace, Fenced, tree, remote
<1> QED BY <1>1 DEF IInv

LEMMA FailKeeps ==
    ASSUME IInv, location = "LOCAL", UNCHANGED <<location, paths, tree, remote>>, Fail
    PROVE  IInv'
<1>1. at' = "failed" /\ UNCHANGED <<item, used, seen, stack, copy, archive, skipped>>
  BY DEF Fail, To, walk
<1>2. Types' /\ Located'
  BY <1>1 DEF IInv, Types, Located, LocalSteps, Visiting, Walking, Outside, Opened, tree, remote
<1>3. CopyFollows' /\ OneVersion' /\ Counted' /\ Walked'
  BY <1>1 DEF IInv, CopyFollows, OneVersion, Counted, Walked, Abandoned
<1>4. Numbered' /\ Routed'
  BY <1>1 DEF IInv, Numbered, Untaken, Outside, Routed, Abandoned
<1> QED BY <1>2, <1>3, <1>4, LocalKeeps

\* What the local steps know.
LEMMA LocalBefore ==
    ASSUME IInv, location = "LOCAL"
    PROVE  /\ Len(paths) \in Nat /\ item \in Nat \ {0} /\ item <= Len(paths) + 1
           /\ used \in [bytes : 0 .. MaxBytes, files : 0 .. MaxFiles]
           /\ stack \in Seq(Frame) /\ Len(stack) \in Nat /\ DOMAIN stack = 1 .. Len(stack)
           /\ archive \subseteq Archivable /\ IsFiniteSet(archive) /\ Cardinality(archive) \in Nat
           /\ info \in Infos /\ copy \in CopyState
           /\ \A a \in archive : a.path \in Seq(Nat) /\ Len(a.path) \in Nat
<1>1. paths \in Seq([name : Names, sqlite : BOOLEAN])
  BY FilesAssumption DEF IInv, Types
<1>2. Len(paths) \in Nat
  BY <1>1
<1>3. Cardinality(archive) \in Nat
  BY FS_CardinalityType DEF IInv, Types
<1>4. \A a \in archive : a.path \in Seq(Nat)
  BY DEF IInv, Types, Archivable
<1> QED BY <1>2, <1>3, <1>4 DEF IInv, Types, Infos

\* A path of an earlier source is not that of this one.
LEMMA NoSuchPath ==
    ASSUME IInv, location = "LOCAL", \A a \in archive : a.path[1] < item
    PROVE  \A a \in archive : a.path # <<item>>
BY LocalBefore

\* A step outside of directories.
LEMMA OutsideKeeps ==
    ASSUME stack' = <<>>
    PROVE  Routed' /\ Walked'
BY DEF Routed, Walked

LEMMA ValidateKeeps ==
    ASSUME IInv, Validate
    PROVE  IInv'
<1>1. /\ location = "LOCAL" /\ at = "item" /\ UNCHANGED <<location, paths, tree, remote>>
      /\ item <= Len(paths)
  BY DEF Validate, Local
<1>2. CASE Root \in Dir \union File
  <2>1. /\ at' = "validated" /\ seen' = [Unseen EXCEPT !.validated = Root]
        /\ UNCHANGED <<item, used, stack, copy, archive, skipped>>
    BY <1>2 DEF Validate, To
  <2>2. stack = <<>> /\ archive \subseteq Archivable
    BY <1>1 DEF IInv, Located, Outside, Types
  <2>3. Root \in Inode
    BY <1>2, Kinds
  <2>4. Types'
    BY <1>1, <2>1, <2>3 DEF IInv, Types, Unseen, LocalSteps, tree, remote
  <2>5. Located'
    BY <1>1, <2>1, <2>2 DEF Located, Visiting, Walking, Outside, Opened
  <2>6. CopyFollows' /\ OneVersion' /\ Counted'
    BY <1>1, <2>1 DEF IInv, CopyFollows, OneVersion, Counted, Abandoned
  <2>7. \A a \in archive : a.path[1] < item
    BY <1>1 DEF IInv, Numbered, Untaken, Outside
  <2>8. Numbered'
    BY <1>1, <2>1, <2>7, NoSuchPath DEF IInv, Numbered, Untaken, Abandoned
  <2> QED BY <1>1, <2>1, <2>2, <2>4, <2>5, <2>6, <2>8, OutsideKeeps, LocalKeeps
<1>3. CASE Root \notin Dir \union File
  BY <1>1, <1>3, FailKeeps DEF Validate
<1> QED BY <1>2, <1>3

LEMMA StatRootKeeps ==
    ASSUME IInv, StatRoot
    PROVE  IInv'
<1>1. location = "LOCAL" /\ at = "validated" /\ UNCHANGED <<location, paths, tree, remote>>
  BY DEF StatRoot, Local
<1>2. CASE Root \in Dir \union File
  <2>1. /\ at' = "stated" /\ seen' = [seen EXCEPT !.now = Root]
        /\ UNCHANGED <<item, used, stack, copy, archive, skipped>>
    BY <1>2 DEF StatRoot, To
  <2>2. stack = <<>> /\ item <= Len(paths)
    BY <1>1 DEF IInv, Located, Outside, Visiting
  <2>3. /\ seen' \in [validated : Inode \union {Nothing}, opened : Inode \union {Nothing},
                      now : Inode \union {Nothing}]
        /\ seen'.now = Root /\ seen'.validated = seen.validated
    BY <1>2, <2>1, Kinds DEF IInv, Types
  <2>4. Types'
    BY <1>1, <2>1, <2>3 DEF IInv, Types, LocalSteps, tree, remote
  <2>5. Located'
    BY <1>1, <1>2, <2>1, <2>2, <2>3 DEF Located, Visiting, Walking, Outside, Opened
  <2>6. CopyFollows' /\ OneVersion' /\ Counted'
    BY <1>1, <2>1 DEF IInv, CopyFollows, OneVersion, Counted, Abandoned
  <2>7. Numbered'
    BY <1>1, <2>1, <2>3 DEF IInv, Numbered, Untaken, Outside, Abandoned
  <2> QED BY <1>1, <2>1, <2>2, <2>4, <2>5, <2>6, <2>7, OutsideKeeps, LocalKeeps
<1>3. CASE Root \notin Dir \union File
  BY <1>1, <1>3, FailKeeps DEF StatRoot
<1> QED BY <1>2, <1>3

LEMMA VerifyPathKeeps ==
    ASSUME IInv, VerifyPath
    PROVE  IInv'
<1>1. location = "LOCAL" /\ at = "verify" /\ UNCHANGED <<location, paths, tree, remote>>
  BY DEF VerifyPath, Local
<1>2. CASE Root = seen.opened
  <2>1. /\ at' = "item" /\ item' = item + 1
        /\ UNCHANGED <<used, seen, stack, copy, archive, skipped>>
    BY <1>2 DEF VerifyPath, To, walk
  <2>2. stack = <<>> /\ item <= Len(paths)
    BY <1>1 DEF IInv, Located, Outside, Visiting
  <2>3. item \in Nat \ {0} /\ Len(paths) \in Nat
    BY <1>1, LocalBefore
  <2>4. item' \in 1 .. Len(paths) + 1
    BY <2>1, <2>2, <2>3
  <2>5. Types'
    BY <1>1, <2>1, <2>4 DEF IInv, Types, LocalSteps, tree, remote
  <2>6. Located'
    BY <1>1, <2>1, <2>2 DEF Located, Visiting, Walking, Outside, Opened
  <2>7. CopyFollows' /\ OneVersion' /\ Counted'
    BY <1>1, <2>1 DEF IInv, CopyFollows, OneVersion, Counted, Abandoned
  <2>8. Numbered'
    <3>1. \A a \in archive : Len(a.path) > 0 /\ a.path[1] <= item /\ a.path \in Seq(Nat)
      BY <1>1, LocalBefore DEF IInv, Numbered
    <3>2. \A a \in archive : a.path[1] \in Nat
      BY <3>1
    <3>3. \A a \in archive : a.path[1] < item + 1 /\ a.path # <<item + 1>>
      BY <2>3, <3>1, <3>2
    <3> QED BY <1>1, <2>1, <2>3, <3>1, <3>2, <3>3 DEF Numbered
  <2> QED BY <1>1, <2>1, <2>2, <2>5, <2>6, <2>7, <2>8, OutsideKeeps, LocalKeeps
<1>3. CASE Root # seen.opened
  BY <1>1, <1>3, FailKeeps DEF VerifyPath
<1> QED BY <1>2, <1>3

LEMMA CompleteKeeps ==
    ASSUME IInv, Complete
    PROVE  IInv'
<1>1. /\ location = "LOCAL" /\ at = "item" /\ UNCHANGED <<location, paths, tree, remote>>
      /\ at' = "succeeded" /\ UNCHANGED <<item, used, seen, stack, copy, archive, skipped>>
  BY DEF Complete, Local, To, walk
<1>2. stack = <<>> /\ \A a \in archive : a.path[1] < item
  BY <1>1 DEF IInv, Located, Numbered, Untaken, Outside
<1>3. Types' /\ Located'
  BY <1>1, <1>2 DEF IInv, Types, Located, LocalSteps, Visiting, Walking, Outside, Opened, tree,
                    remote
<1>4. CopyFollows' /\ OneVersion' /\ Counted' /\ Numbered'
  BY <1>1, <1>2 DEF IInv, CopyFollows, OneVersion, Counted, Numbered, Untaken, Outside, Abandoned
<1> QED BY <1>1, <1>2, <1>3, <1>4, OutsideKeeps, LocalKeeps

LEMMA StopsKeeps ==
    ASSUME IInv, Stops
    PROVE  IInv'
BY FailKeeps DEF Stops

LEMMA OpenRootKeeps ==
    ASSUME IInv, OpenRoot
    PROVE  IInv'
<1>1. location = "LOCAL" /\ at = "stated" /\ UNCHANGED <<location, paths, tree, remote>>
  BY DEF OpenRoot, Local
<1>2. CASE ~(Root # Nothing /\ Opens(Root) /\ info[Root].readable)
  BY <1>1, <1>2, FailKeeps DEF OpenRoot
<1>3. CASE Root # Nothing /\ Opens(Root) /\ info[Root].readable
  <2>1. /\ seen' = [seen EXCEPT !.opened = Root]
        /\ UNCHANGED <<item, used, copy, archive, skipped>>
    BY <1>3 DEF OpenRoot
  <2>2. stack = <<>> /\ item <= Len(paths) /\ Root \in Dir \union File
    BY <1>1, <1>3 DEF IInv, Located, Outside, Visiting, Opens
  <2>3. /\ seen' \in [validated : Inode \union {Nothing}, opened : Inode \union {Nothing},
                      now : Inode \union {Nothing}]
        /\ seen'.now = Root /\ seen'.validated = Root /\ seen'.opened = Root
        /\ seen.validated = Root
    BY <1>3, <2>1, <2>2, Kinds DEF IInv, Types, Opens
  <2>4. \A a \in archive : a.path[1] < item
    BY <1>1 DEF IInv, Numbered, Untaken, Outside
  <2>5. \A a \in archive : a.path # <<item>>
    BY <1>1, <2>4, NoSuchPath
  <2>6. item \in Nat \ {0}
    BY <1>1, LocalBefore
  <2>7. CASE Root \in Dir
    <3> DEFINE f == [dir |-> Root, path |-> <<item>>, before |-> 0, todo |-> {}, name |-> 0]
    <3>1. at' = "enter" /\ stack' = Append(stack, f)
      BY <1>3, <2>7 DEF OpenRoot, To, Push
    <3>2. stack' = <<f>> /\ f \in Frame /\ <<item>> \in Seq(Nat)
      BY <2>2, <2>6, <2>7, <3>1 DEF Frame
    <3>3. /\ stack' \in Seq(Frame) /\ Len(stack') = 1 /\ stack' # <<>> /\ DOMAIN stack' = {1}
          /\ stack'[1] = f
      BY <3>2
    <3>4. Types'
      BY <1>1, <2>1, <2>3, <3>1, <3>3 DEF IInv, Types, LocalSteps, tree, remote
    <3>5. Located'
      BY <1>1, <2>1, <2>2, <2>3, <3>1, <3>3 DEF Located, Visiting, Walking, Outside, Opened
    <3>6. CopyFollows' /\ OneVersion' /\ Counted'
      BY <1>1, <2>1, <3>1 DEF IInv, CopyFollows, OneVersion, Counted, Abandoned
    <3>7. Numbered'
      BY <1>1, <2>1, <2>5, <3>1, <3>3 DEF IInv, Numbered, Untaken, Outside, Abandoned
    <3>8. Routed'
      BY <2>1, <3>3 DEF Routed
    <3>9. Walked'
      <4>1. \A a \in archive : ~ Under(a.path, <<item>>)
        BY <2>4, <2>6, LocalBefore, <1>1 DEF Under
      <4>2. Faithful(1)'
        <5>1. info'[Root].stamp \in Nat
          BY <1>1, <2>7, Kinds, LocalBefore DEF tree, Infos
        <5>2. Unbegun(1)' /\ Visited(1)' /\ InWork(1)' /\ Covers(1)'
          BY <2>1, <3>1, <3>3, <4>1 DEF Unbegun, Visited, InWork, Covers, Listed, Busy, InHand
        <5> QED BY <3>3, <5>1, <5>2 DEF Faithful
      <4> QED BY <3>3, <4>2 DEF Walked
    <3> QED BY <1>1, <3>4, <3>5, <3>6, <3>7, <3>8, <3>9, LocalKeeps
  <2>8. CASE Root \notin Dir
    <3>1. at' \in {"snapshot", "file"} /\ stack' = stack
      BY <1>3, <2>8 DEF OpenRoot, To
    <3>2. Types'
      BY <1>1, <2>1, <2>3, <3>1 DEF IInv, Types, LocalSteps, tree, remote
    <3>3. Located'
      BY <1>1, <2>1, <2>2, <2>3, <2>8, <3>1 DEF Located, Visiting, Walking, Outside, Opened
    <3>4. CopyFollows' /\ OneVersion' /\ Counted'
      BY <1>1, <2>1, <3>1 DEF IInv, CopyFollows, OneVersion, Counted, Abandoned
    <3>5. Numbered'
      BY <1>1, <2>1, <2>4, <2>5, <3>1 DEF IInv, Numbered, Untaken, Outside, Abandoned
    <3> QED BY <1>1, <2>2, <3>1, <3>2, <3>3, <3>4, <3>5, OutsideKeeps, LocalKeeps
  <2> QED BY <2>7, <2>8
<1> QED BY <1>2, <1>3

-----------------------------------------------------------------------------
(* The walk                                                                *)

\* The path of an entry goes through every directory of the walk.
LEMMA MemberPath ==
    ASSUME IInv, location = "LOCAL", stack # <<>>, NEW n \in Nat
    PROVE  /\ Member(n) \in Seq(Nat) /\ Len(Member(n)) = Len(stack) + 1
           /\ Member(n)[Len(stack) + 1] = n /\ Member(n)[1] = item
           /\ \A k \in 1 .. Len(stack) - 1 : Member(n)[k + 1] = stack[k].name
           /\ Under(Member(n), Here.path)
           /\ \A q \in Seq(Nat) : q = Member(n) =>
                 Under(q, Here.path) /\ q[Len(stack) + 1] = n
<1>1. /\ Len(stack) \in Nat \ {0} /\ Here = stack[Len(stack)] /\ Here.path \in Seq(Nat)
      /\ Len(stack) \in DOMAIN stack
  BY Innermost DEF IInv
<1>2. /\ Len(Here.path) = Len(stack) /\ Here.path[1] = item
      /\ \A j \in 1 .. Len(stack) - 1 : Here.path[j + 1] = stack[j].name
  BY <1>1 DEF IInv, Routed
<1>3. /\ Member(n) \in Seq(Nat) /\ Len(Member(n)) = Len(stack) + 1
      /\ Member(n)[Len(stack) + 1] = n
      /\ \A k \in 1 .. Len(stack) : Member(n)[k] = Here.path[k]
  BY <1>1, <1>2, Pushed DEF Member
<1>4. \A k \in 1 .. Len(stack) - 1 : k + 1 \in 1 .. Len(stack)
  BY <1>1
<1>5. Under(Member(n), Here.path)
  BY <1>1, <1>2, <1>3 DEF Under
<1> QED BY <1>1, <1>2, <1>3, <1>4, <1>5

\* What the archive and the record of skipped entries gain below a directory.
GrowsAt(k) ==
    /\ archive \subseteq archive' /\ skipped \subseteq skipped'
    /\ \A a \in archive' : a \notin archive => a.path[k + 1] = stack[k].name

\* A directory that is not the innermost one stays faithful: whatever is added below it
\* has the name that it has in hand.
LEMMA LowerLevel ==
    ASSUME IInv, at \notin Abandoned, UNCHANGED tree, NEW k \in DOMAIN stack,
           k < Len(stack), k < Len(stack'), stack'[k] = stack[k], GrowsAt(k)
    PROVE  Faithful(k)'
<1> DEFINE f == stack[k]
<1>1. Faithful(k) /\ Listed(k) /\ Busy(k) /\ Listed(k)' /\ Busy(k)'
  BY DEF IInv, Walked, Listed, Busy
<1>2. (Still(f)' <=> Still(f)) /\ entry' = entry /\ info' = info
  BY DEF Still, tree
<1>3. /\ f.name \in Names /\ f.name \notin f.todo
      /\ Still(f) => entry[<<f.dir, f.name>>] \in Dir
  BY <1>1 DEF Faithful, InWork
<1>4. \A n \in Names : Taken(f, n) => Taken(f, n)'
  BY <1>2 DEF Taken, GrowsAt
<1>5. Unbegun(k)'
  BY <1>1 DEF Unbegun
<1>6. Visited(k)'
  <2> SUFFICES ASSUME NEW a \in archive', Under(a.path, f.path)
               PROVE  /\ a.path[k + 1] \notin f.todo
                      /\ Still(f) => /\ a.path[k + 1] \in Names
                                     /\ entry[<<f.dir, a.path[k + 1]>>] # Nothing
    BY <1>2 DEF Visited
  <2>1. CASE a \in archive
    BY <1>1, <2>1 DEF Faithful, Visited
  <2>2. CASE a \notin archive
    BY <1>3, <2>2, Kinds DEF GrowsAt
  <2> QED BY <2>1, <2>2
<1>7. InWork(k)'
  BY <1>2, <1>3 DEF InWork
<1>8. Covers(k)'
  BY <1>1, <1>2, <1>4 DEF Faithful, Covers
<1> QED BY <1>1, <1>2, <1>5, <1>6, <1>7, <1>8 DEF Faithful

\* A step that replaces the innermost directory keeps the walk if that one stays faithful.
LEMMA InnermostKeeps ==
    ASSUME IInv, location = "LOCAL", at \notin Abandoned, UNCHANGED <<tree, item>>, stack # <<>>,
           NEW f \in Frame, stack' = WithHere(f), f.path = Here.path,
           \A k \in DOMAIN stack : k < Len(stack) => GrowsAt(k),
           stack' = [stack EXCEPT ![Len(stack)] = f] => Faithful(Len(stack))'
    PROVE  /\ stack' \in Seq(Frame) /\ stack' # <<>> /\ Len(stack') = Len(stack)
           /\ Routed' /\ Walked'
<1>1. stack' = [stack EXCEPT ![Len(stack)] = f] /\ stack \in Seq(Frame)
  BY LocalBefore DEF WithHere
<1>2. /\ stack' \in Seq(Frame) /\ Len(stack') = Len(stack) /\ stack' # <<>>
      /\ stack'[Len(stack)] = f /\ \A k \in 1 .. Len(stack) - 1 : stack'[k] = stack[k]
  BY <1>1, Replaced
<1>3. Len(stack) \in Nat \ {0} /\ Here = stack[Len(stack)]
  BY Innermost DEF IInv
<1>4. /\ DOMAIN stack' = 1 .. Len(stack) /\ DOMAIN stack = 1 .. Len(stack)
      /\ \A k \in 1 .. Len(stack) : k < Len(stack) => k \in 1 .. Len(stack) - 1
  <2>1. DOMAIN stack' = 1 .. Len(stack')
    <3>1. stack' \in Seq(Frame)
      BY <1>2
    <3> QED BY <3>1
  <2>2. DOMAIN stack' = 1 .. Len(stack) /\ DOMAIN stack = 1 .. Len(stack)
    BY <1>2, <2>1, LocalBefore
  <2> QED BY <1>3, <2>2
<1>5. \A k \in 1 .. Len(stack) : stack'[k].path = stack[k].path
  BY <1>2, <1>3, <1>4
<1>6. \A k \in 1 .. Len(stack) : \A j \in 1 .. k - 1 : stack'[j].name = stack[j].name
  BY <1>2, <1>3
<1>7. Routed'
  BY <1>4, <1>5, <1>6 DEF IInv, Routed
<1>8. Walked'
  <2> SUFFICES ASSUME NEW k \in 1 .. Len(stack) PROVE Faithful(k)'
    BY <1>4 DEF Walked
  <2>1. CASE k < Len(stack)
    BY <1>2, <1>4, <2>1, LowerLevel
  <2>2. CASE k = Len(stack)
    BY <1>1, <2>2
  <2> QED BY <1>3, <2>1, <2>2
<1> QED BY <1>2, <1>7, <1>8

\* A step that leaves directories, archive and what is in hand alone keeps the walk.
LEMMA SameWalk ==
    ASSUME IInv, at \in InHand, at' \in InHand,
           UNCHANGED <<tree, item, seen, stack, archive, skipped>>
    PROVE  Routed' /\ Walked'
<1>1. Routed'
  BY DEF IInv, Routed
<1>2. /\ \A k \in DOMAIN stack : (Listed(k)' <=> Listed(k)) /\ (Busy(k)' <=> Busy(k))
      /\ at \notin Abandoned /\ entry' = entry /\ info' = info
  BY DEF Listed, Busy, InHand, Abandoned, tree
<1>3. ASSUME NEW k \in DOMAIN stack, Faithful(k) PROVE Faithful(k)'
  <2>1. \A n \in Names : Taken(stack[k], n)' <=> Taken(stack[k], n)
    BY <1>2 DEF Taken
  <2>2. Unbegun(k)' /\ Visited(k)' /\ InWork(k)'
    BY <1>2, <1>3 DEF Faithful, Unbegun, Visited, InWork, Still
  <2>3. Covers(k)'
    BY <1>2, <1>3, <2>1 DEF Faithful, Covers, Still
  <2> QED BY <1>2, <1>3, <2>2, <2>3 DEF Faithful
<1> QED BY <1>1, <1>2, <1>3 DEF IInv, Walked

\* A directory is left: for the one above it, what was in hand is a directory.
LEMMA PopKeeps ==
    ASSUME IInv, location = "LOCAL", at \in {"list", "walk"}, UNCHANGED <<tree, item, archive>>,
           Pops, skipped \subseteq skipped'
    PROVE  /\ stack' \in Seq(Frame) /\ Routed' /\ Walked'
           /\ at' \in {"walk", "verify"} /\ (at' = "verify" <=> stack' = <<>>)
<1>1. stack # <<>> /\ at \notin Abandoned /\ stack \in Seq(Frame)
  BY LocalBefore DEF IInv, Located, Walking, Abandoned
<1>2. /\ stack' \in Seq(Frame) /\ Len(stack') = Len(stack) - 1
      /\ \A k \in 1 .. Len(stack) - 1 : stack'[k] = stack[k]
  BY <1>1, Popped DEF Pops
<1>3. at' \in {"walk", "verify"} /\ (at' = "verify" <=> stack' = <<>>)
  BY DEF Pops, To, Onward
<1>4. Len(stack) \in Nat \ {0} /\ DOMAIN stack' = 1 .. Len(stack) - 1
      /\ DOMAIN stack = 1 .. Len(stack)
  BY <1>1, <1>2, Innermost DEF IInv
<1>5. Routed'
  <2>1. /\ DOMAIN stack' \subseteq DOMAIN stack /\ item' = item
        /\ \A k \in DOMAIN stack' : stack'[k] = stack[k]
        /\ \A k \in DOMAIN stack' : \A j \in 1 .. k - 1 : j \in DOMAIN stack'
    BY <1>2, <1>4
  <2> QED BY <2>1 DEF IInv, Routed
<1>6. Walked'
  <2> SUFFICES ASSUME NEW k \in 1 .. Len(stack) - 1 PROVE Faithful(k)'
    BY <1>4 DEF Walked
  <2>1. /\ k \in DOMAIN stack /\ k < Len(stack) /\ stack'[k] = stack[k] /\ archive' = archive
        /\ GrowsAt(k)
    BY <1>2, <1>4 DEF GrowsAt
  <2>2. CASE k < Len(stack')
    BY <1>1, <2>1, <2>2, LowerLevel
  <2>3. CASE k = Len(stack')
    <3> DEFINE f == stack[k]
    <3>1. Faithful(k) /\ Listed(k) /\ Busy(k) /\ Listed(k)' /\ ~ Busy(k)' /\ at' = "walk"
      BY <1>1, <1>2, <1>3, <1>4, <2>1, <2>3 DEF IInv, Walked, Listed, Busy, InHand
    <3>2. (Still(f)' <=> Still(f)) /\ entry' = entry /\ info' = info
      BY <2>1 DEF Still, tree
    <3>3. Still(f) => entry[<<f.dir, f.name>>] \in Dir
      BY <2>1, <3>1 DEF Faithful, InWork
    <3>4. \A n \in Names : Taken(f, n) => Taken(f, n)'
      BY <2>1, <3>2 DEF Taken
    <3>5. Unbegun(k)' /\ InWork(k)'
      BY <3>1 DEF Unbegun, InWork
    <3>6. Visited(k)'
      BY <2>1, <3>1, <3>2 DEF Faithful, Visited
    <3>7. Still(f) => Taken(f, f.name)'
      BY <2>1, <3>2, <3>3 DEF Taken
    <3>8. Covers(k)'
      BY <2>1, <3>1, <3>2, <3>4, <3>7 DEF Faithful, Covers
    <3> QED BY <2>1, <3>1, <3>2, <3>5, <3>6, <3>8 DEF Faithful
  <2> QED BY <1>2, <1>4, <2>2, <2>3
<1> QED BY <1>2, <1>3, <1>5, <1>6

Seen == [validated : Inode \union {Nothing}, opened : Inode \union {Nothing},
         now : Inode \union {Nothing}]

\* A step within directories that archives nothing.
LEMMA WalkKeeps ==
    ASSUME IInv, location = "LOCAL", at \in Walking, at' \in Walking \union {"file", "verify"},
           UNCHANGED <<location, paths, tree, remote, item, used, copy, archive>>,
           stack' \in Seq(Frame), at' = "verify" <=> stack' = <<>>,
           seen' \in Seen, seen'.validated = seen.validated, seen'.opened = seen.opened,
           at' = "opening" => seen'.now \in Dir \union File,
           at' = "file" => seen'.now \in File, Routed', Walked'
    PROVE  IInv'
<1>1. item <= Len(paths) /\ seen.opened = seen.validated
  BY DEF IInv, Located, Visiting, Opened
<1>2. Types'
  BY DEF IInv, Types, LocalSteps, Walking, Seen, tree, remote
<1>3. Located'
  BY <1>1 DEF Located, Visiting, Walking, Outside, Opened
<1>4. CopyFollows' /\ OneVersion' /\ Counted'
  BY DEF IInv, CopyFollows, OneVersion, Counted, Abandoned, Walking
<1>5. Numbered'
  BY DEF IInv, Numbered, Untaken, Outside, Abandoned, Walking
<1> QED BY <1>2, <1>3, <1>4, <1>5, LocalKeeps

LEMMA WalkBefore ==
    ASSUME IInv, location = "LOCAL", at \in Walking
    PROVE  /\ at \notin Abandoned /\ stack # <<>> /\ stack \in Seq(Frame) /\ seen \in Seen
           /\ Faithful(Len(stack))
           /\ archive' = archive /\ skipped \subseteq skipped' =>
                 \A k \in DOMAIN stack : GrowsAt(k)
<1>1. at \notin Abandoned /\ stack # <<>>
  BY DEF IInv, Located, Walking, Abandoned
<1>2. Faithful(Len(stack))
  BY <1>1, Innermost DEF IInv, Walked
<1> QED BY <1>1, <1>2 DEF IInv, Types, Seen, GrowsAt

LEMMA EnterDirectoryKeeps ==
    ASSUME IInv, EnterDirectory
    PROVE  IInv'
<1>1. location = "LOCAL" /\ at = "enter" /\ UNCHANGED <<location, paths, tree, remote>>
  BY DEF EnterDirectory, Local
<1>2. CASE ~(Len(stack) - 1 <= MaxDepth)
  BY <1>1, <1>2, FailKeeps DEF EnterDirectory
<1>3. CASE Len(stack) - 1 <= MaxDepth
  <2> DEFINE f == [Here EXCEPT !.before = info[Here.dir].stamp]
             m == Len(stack)
  <2>1. at' = "list" /\ stack' = WithHere(f)
        /\ UNCHANGED <<item, used, seen, copy, archive, skipped>>
    BY <1>3 DEF EnterDirectory, To
  <2>2. /\ at \in Walking /\ stack # <<>> /\ at \notin Abandoned /\ seen \in Seen
        /\ Faithful(m) /\ \A k \in DOMAIN stack : GrowsAt(k)
    BY <1>1, <2>1, WalkBefore DEF Walking
  <2>3. /\ Here \in Frame /\ info[Here.dir].stamp \in Nat /\ m \in Nat \ {0}
        /\ Here = stack[m] /\ stack \in Seq(Frame)
    BY <1>1, <2>2, Innermost, LocalBefore DEF IInv
  <2>4. /\ f \in Frame /\ f.path = Here.path /\ f.dir = Here.dir /\ f.todo = Here.todo
        /\ f.before = info[Here.dir].stamp
    BY <2>3 DEF Frame
  <2> HIDE DEF f
  <2>5. ASSUME stack' = [stack EXCEPT ![m] = f] PROVE Faithful(m)'
    <3>1. Len(stack') = m /\ stack'[m] = f /\ info' = info /\ ~ Listed(m)' /\ ~ Busy(m)'
      BY <2>1, <2>3, <2>4, <2>2, <2>5, <1>1, Replaced DEF tree, Listed, Busy, InHand
    <3>2. ~ Listed(m)
      BY <1>1 DEF Listed
    <3>3. Here.todo = {} /\ \A a \in archive : ~ Under(a.path, Here.path)
      BY <2>2, <2>3, <3>2 DEF Faithful, Unbegun
    <3>4. Unbegun(m)' /\ Visited(m)' /\ InWork(m)' /\ Covers(m)'
      BY <2>1, <2>4, <3>1, <3>3 DEF Unbegun, Visited, InWork, Covers
    <3>5. f.before <= info'[f.dir].stamp
      BY <2>3, <2>4, <3>1
    <3> QED BY <3>1, <3>4, <3>5 DEF Faithful
  <2>6. stack' \in Seq(Frame) /\ stack' # <<>> /\ Routed' /\ Walked'
    BY <1>1, <2>1, <2>2, <2>4, <2>5, InnermostKeeps
  <2>7. at' \in Walking \union {"file", "verify"}
    BY <2>1 DEF Walking
  <2> QED BY <1>1, <2>1, <2>2, <2>6, <2>7, WalkKeeps
<1> QED BY <1>2, <1>3

LEMMA ListKeeps ==
    ASSUME IInv, List
    PROVE  IInv'
<1>1. /\ location = "LOCAL" /\ at = "list" /\ UNCHANGED <<location, paths, tree, remote>>
      /\ UNCHANGED <<item, used, seen, copy, archive>>
  BY DEF List, Local
<1>2. at \in Walking /\ stack # <<>> /\ at \notin Abandoned /\ seen \in Seen
      /\ Faithful(Len(stack))
  BY <1>1, WalkBefore DEF Walking
<1>3. CASE ~ info[Here.dir].readable
  <2>1. Pops /\ skipped \subseteq skipped'
    BY <1>3 DEF List, Skip
  <2>2. /\ stack' \in Seq(Frame) /\ Routed' /\ Walked'
        /\ at' \in {"walk", "verify"} /\ (at' = "verify" <=> stack' = <<>>)
    BY <1>1, <2>1, PopKeeps
  <2>3. at' \in Walking \union {"file", "verify"} /\ at' # "opening" /\ at' # "file"
    BY <2>2 DEF Walking
  <2> QED BY <1>1, <1>2, <2>2, <2>3, WalkKeeps
<1>4. CASE info[Here.dir].readable
  <2> DEFINE f == [Here EXCEPT !.todo = {n \in Names : entry[<<Here.dir, n>>] # Nothing}]
             m == Len(stack)
  <2>1. at' = "walk" /\ stack' = WithHere(f) /\ UNCHANGED skipped
    BY <1>4 DEF List, To
  <2>2. \A k \in DOMAIN stack : GrowsAt(k)
    BY <1>1, <2>1 DEF GrowsAt
  <2>3. /\ Here \in Frame /\ info[Here.dir].stamp \in Nat /\ m \in Nat \ {0}
        /\ Here = stack[m] /\ stack \in Seq(Frame)
    BY <1>1, <1>2, Innermost, LocalBefore DEF IInv
  <2>4. /\ f \in Frame /\ f.path = Here.path /\ f.dir = Here.dir /\ f.before = Here.before
        /\ f.todo = {n \in Names : entry[<<Here.dir, n>>] # Nothing}
    BY <2>3 DEF Frame
  <2> HIDE DEF f
  <2>5. ASSUME stack' = [stack EXCEPT ![m] = f] PROVE Faithful(m)'
    <3>1. /\ Len(stack') = m /\ stack'[m] = f /\ info' = info /\ entry' = entry
          /\ Listed(m)' /\ ~ Busy(m)'
      BY <1>1, <1>2, <2>1, <2>3, <2>4, <2>5, Replaced DEF tree, Listed, Busy, InHand
    <3>2. ~ Listed(m)
      BY <1>1 DEF Listed
    <3>3. \A a \in archive : ~ Under(a.path, Here.path)
      BY <1>2, <2>3, <3>2 DEF Faithful, Unbegun
    <3>4. Unbegun(m)' /\ Visited(m)' /\ InWork(m)'
      BY <1>1, <2>4, <3>1, <3>3 DEF Unbegun, Visited, InWork
    <3>5. Covers(m)'
      BY <2>4, <3>1 DEF Covers
    <3>6. f.before <= info'[f.dir].stamp
      BY <1>2, <2>3, <2>4, <3>1 DEF Faithful
    <3> QED BY <3>1, <3>4, <3>5, <3>6 DEF Faithful
  <2>6. stack' \in Seq(Frame) /\ stack' # <<>> /\ Routed' /\ Walked'
    BY <1>1, <1>2, <2>1, <2>2, <2>4, <2>5, InnermostKeeps
  <2>7. at' \in Walking \union {"file", "verify"}
    BY <2>1 DEF Walking
  <2> QED BY <1>1, <1>2, <2>1, <2>6, <2>7, WalkKeeps
<1> QED BY <1>3, <1>4

LEMMA LeaveDirectoryKeeps ==
    ASSUME IInv, LeaveDirectory
    PROVE  IInv'
<1>1. location = "LOCAL" /\ at = "walk" /\ UNCHANGED <<location, paths, tree, remote>>
  BY DEF LeaveDirectory, Local
<1>2. CASE ~ UnchangedDirectory(Here)
  BY <1>1, <1>2, FailKeeps DEF LeaveDirectory
<1>3. CASE UnchangedDirectory(Here)
  <2>1. Pops /\ UNCHANGED <<item, used, seen, copy, archive, skipped>>
    BY <1>3 DEF LeaveDirectory
  <2>2. at \in Walking /\ seen \in Seen
    BY <1>1, WalkBefore DEF Walking
  <2>3. /\ stack' \in Seq(Frame) /\ Routed' /\ Walked'
        /\ at' \in {"walk", "verify"} /\ (at' = "verify" <=> stack' = <<>>)
    BY <1>1, <2>1, PopKeeps
  <2>4. at' \in Walking \union {"file", "verify"} /\ at' # "opening" /\ at' # "file"
    BY <2>3 DEF Walking
  <2> QED BY <1>1, <2>1, <2>2, <2>3, <2>4, WalkKeeps
<1> QED BY <1>2, <1>3

LEMMA StatEntryKeeps ==
    ASSUME IInv, StatEntry
    PROVE  IInv'
<1> DEFINE n == Min(Here.todo)
           i == entry[<<Here.dir, n>>]
           m == Len(stack)
           f == [Here EXCEPT !.todo = @ \ {n}, !.name = n]
<1>1. /\ location = "LOCAL" /\ at = "walk" /\ UNCHANGED <<location, paths, tree, remote>>
      /\ Here.todo # {}
  BY DEF StatEntry, Local
<1>2. at \in Walking /\ stack # <<>> /\ at \notin Abandoned /\ seen \in Seen /\ Faithful(m)
  BY <1>1, WalkBefore DEF Walking
<1>3. /\ Here \in Frame /\ info[Here.dir].stamp \in Nat /\ m \in Nat \ {0}
      /\ Here = stack[m] /\ stack \in Seq(Frame) /\ Here.todo \subseteq Names
  BY <1>1, <1>2, Innermost, LocalBefore DEF IInv
<1>4. n \in Here.todo /\ n \in Names /\ n \in Nat
  BY <1>1, <1>3, Limits, Least
<1>5. /\ f \in Frame /\ f.path = Here.path /\ f.dir = Here.dir /\ f.before = Here.before
      /\ f.todo = Here.todo \ {n} /\ f.name = n
  BY <1>3, <1>4 DEF Frame
<1>6. CASE info[Here.dir].readable /\ i = Nothing
  BY <1>1, <1>6, FailKeeps DEF StatEntry
<1>7. CASE ~(info[Here.dir].readable /\ i = Nothing)
  <2>1. /\ stack' = WithHere(f)
        /\ IF info[Here.dir].readable /\ i \in Dir \union File
           THEN To("opening") /\ seen' = [seen EXCEPT !.now = i] /\ UNCHANGED skipped
           ELSE Skip(Member(n)) /\ UNCHANGED <<at, seen>>
        /\ UNCHANGED <<item, used, copy, archive>>
    BY <1>7 DEF StatEntry
  <2> HIDE DEF n, f
  <2>2. /\ skipped \subseteq skipped' /\ at' \in {"opening", "walk"}
        /\ at' = "walk" => Member(n) \in skipped'
        /\ at' = "opening" => seen'.now = i /\ i \in Dir \union File
        /\ seen' \in Seen /\ seen'.validated = seen.validated /\ seen'.opened = seen.opened
    BY <1>1, <1>2, <2>1, Kinds DEF To, Skip, Seen
  <2>3. \A k \in DOMAIN stack : GrowsAt(k)
    BY <2>1, <2>2 DEF GrowsAt
  <2>4. ASSUME stack' = [stack EXCEPT ![m] = f] PROVE Faithful(m)'
    <3>1. /\ Len(stack') = m /\ stack'[m] = f /\ info' = info /\ entry' = entry
          /\ Listed(m)' /\ Listed(m) /\ ~ Busy(m) /\ (Busy(m)' <=> at' = "opening")
      BY <1>1, <1>2, <1>3, <1>5, <2>1, <2>2, <2>4, Replaced DEF tree, Listed, Busy, InHand
    <3>2. \A a \in archive : Under(a.path, Here.path) =>
             /\ a.path[m + 1] \notin Here.todo
             /\ Still(Here) => /\ a.path[m + 1] \in Names
                               /\ entry[<<Here.dir, a.path[m + 1]>>] # Nothing
      BY <1>2, <1>3 DEF Faithful, Visited
    <3>3. Still(stack[m])' <=> Still(Here)
      BY <1>5, <3>1 DEF Still
    <3>4. Unbegun(m)'
      BY <3>1 DEF Unbegun
    <3>5. Visited(m)'
      BY <1>5, <2>1, <3>1, <3>2, <3>3 DEF Visited
    <3>6. InWork(m)'
      BY <1>4, <1>5, <2>1, <2>2, <3>1, <3>2 DEF InWork
    <3>7. Covers(m)'
      <4>1. \A x \in Names : Taken(Here, x) => Taken(stack[m], x)'
        BY <1>5, <2>1, <2>2, <3>1 DEF Taken
      <4>2. at' = "walk" => \A x : x = n => Taken(stack[m], x)'
        BY <1>5, <2>2, <3>1 DEF Taken, Member
      <4>3. Still(Here) => \A x \in Names : entry[<<Here.dir, x>>] # Nothing =>
               x \in Here.todo \/ Taken(Here, x)
        BY <1>2, <1>3, <3>1 DEF Faithful, Covers
      <4> QED BY <1>5, <2>2, <3>1, <3>3, <4>1, <4>2, <4>3 DEF Covers
    <3>8. f.before <= info'[f.dir].stamp
      BY <1>2, <1>3, <1>5, <3>1 DEF Faithful
    <3> QED BY <3>1, <3>4, <3>5, <3>6, <3>7, <3>8 DEF Faithful
  <2>5. stack' \in Seq(Frame) /\ stack' # <<>> /\ Routed' /\ Walked'
    BY <1>1, <1>2, <1>5, <2>1, <2>3, <2>4, InnermostKeeps
  <2>6. at' \in Walking \union {"file", "verify"}
    BY <2>2 DEF Walking
  <2> QED BY <1>1, <1>2, <2>1, <2>2, <2>5, <2>6, WalkKeeps
<1> QED BY <1>6, <1>7

LEMMA OpenEntryKeeps ==
    ASSUME IInv, OpenEntry
    PROVE  IInv'
<1> DEFINE i == entry[<<Here.dir, Here.name>>]
           m == Len(stack)
<1>1. location = "LOCAL" /\ at = "opening" /\ UNCHANGED <<location, paths, tree, remote>>
  BY DEF OpenEntry, Local
<1>2. /\ at \in Walking /\ stack # <<>> /\ at \notin Abandoned /\ seen \in Seen /\ Faithful(m)
      /\ seen.now \in Dir \union File
  BY <1>1, WalkBefore DEF Walking, IInv, Located
<1>3. /\ Here \in Frame /\ m \in Nat \ {0} /\ Here = stack[m] /\ stack \in Seq(Frame)
      /\ Here.path \in Seq(Nat) /\ m \in DOMAIN stack /\ DOMAIN stack = 1 .. m
  BY <1>1, <1>2, Innermost, LocalBefore DEF IInv
<1>4. Listed(m) /\ Busy(m)
  BY <1>1 DEF Listed, Busy, InHand
<1>5. /\ Here.name \in Names /\ Here.name \in Nat /\ Here.name \notin Here.todo
      /\ Still(Here) => i = seen.now
      /\ \A a \in archive : Under(a.path, Here.path) => a.path[m + 1] # Here.name
  BY <1>2, <1>3, <1>4, Limits DEF Faithful, InWork
<1>6. \/ Fail
      \/ /\ To("walk") /\ Skip(Member(Here.name))
         /\ UNCHANGED <<item, used, seen, stack, copy, archive>>
      \/ /\ i = seen.now /\ UNCHANGED <<item, used, seen, copy, archive, skipped>>
         /\ IF i \in Dir THEN To("enter") /\ Push(i, Member(Here.name))
                         ELSE To("file") /\ UNCHANGED stack
  BY DEF OpenEntry
<1>7. CASE Fail
  BY <1>1, <1>7, FailKeeps
<1>8. CASE /\ To("walk") /\ Skip(Member(Here.name))
           /\ UNCHANGED <<item, used, seen, stack, copy, archive>>
  <2>1. at' = "walk" /\ skipped \subseteq skipped' /\ Member(Here.name) \in skipped'
    BY <1>8 DEF To, Skip
  <2>2. Routed'
    BY <1>8 DEF IInv, Routed
  <2>3. Walked'
    <3> SUFFICES ASSUME NEW k \in 1 .. m PROVE Faithful(k)'
      BY <1>3, <1>8 DEF Walked
    <3>1. CASE k < m
      <4>1. k \in DOMAIN stack /\ stack' = stack /\ GrowsAt(k)
        BY <1>3, <1>8, <2>1 DEF GrowsAt
      <4> QED BY <1>1, <1>2, <3>1, <4>1, LowerLevel
    <3>2. CASE k = m
      <4>1. Listed(k)' /\ ~ Busy(k)' /\ entry' = entry /\ info' = info /\ stack' = stack
        BY <1>1, <1>8, <2>1, <3>2 DEF Listed, Busy, InHand, tree
      <4>2. (Still(stack[k])' <=> Still(Here)) /\ stack[k] = Here
        BY <1>3, <3>2, <4>1 DEF Still
      <4>3. Unbegun(k)' /\ Visited(k)' /\ InWork(k)'
        BY <1>2, <1>3, <1>8, <3>2, <4>1, <4>2 DEF Faithful, Unbegun, Visited, InWork
      <4>4. \A x \in Names : Taken(Here, x) => Taken(stack[k], x)'
        BY <1>8, <2>1, <4>1, <4>2 DEF Taken
      <4>5. \A x : x = Here.name => Taken(stack[k], x)'
        BY <2>1, <4>1, <4>2 DEF Taken, Member
      <4>6. Covers(k)'
        BY <1>2, <1>3, <1>4, <3>2, <4>1, <4>2, <4>4, <4>5 DEF Faithful, Covers
      <4>7. Here.before <= info[Here.dir].stamp
        BY <1>2, <1>3 DEF Faithful
      <4>8. stack'[k].before <= info'[stack'[k].dir].stamp
        BY <4>1, <4>2, <4>7
      <4> QED BY <4>3, <4>6, <4>8 DEF Faithful
    <3>3. k < m \/ k = m
      <4>1. m \in Nat
        BY <1>3
      <4> HIDE DEF m
      <4> QED BY <4>1
    <3> QED BY <3>1, <3>2, <3>3
  <2> QED BY <1>1, <1>2, <1>3, <1>8, <2>1, <2>2, <2>3, WalkKeeps DEF Walking
<1>9. CASE /\ i = seen.now /\ UNCHANGED <<item, used, seen, copy, archive, skipped>>
           /\ i \notin Dir /\ To("file") /\ UNCHANGED stack
  <2>1. at' = "file" /\ seen.now \in File
    BY <1>2, <1>9 DEF To
  <2>2. Routed' /\ Walked'
    BY <1>1, <1>9, <2>1, SameWalk DEF InHand
  <2> QED BY <1>1, <1>2, <1>3, <1>9, <2>1, <2>2, WalkKeeps
<1>10. CASE /\ i = seen.now /\ UNCHANGED <<item, used, seen, copy, archive, skipped>>
            /\ i \in Dir /\ To("enter") /\ Push(i, Member(Here.name))
  <2> DEFINE g == [dir |-> i, path |-> Member(Here.name), before |-> 0, todo |-> {}, name |-> 0]
  <2>1. at' = "enter" /\ stack' = Append(stack, g)
    BY <1>10 DEF To, Push
  <2>2. /\ Member(Here.name) \in Seq(Nat) /\ Len(Member(Here.name)) = m + 1
        /\ Member(Here.name)[m + 1] = Here.name /\ Member(Here.name)[1] = item
        /\ \A k \in 1 .. m - 1 : Member(Here.name)[k + 1] = stack[k].name
    BY <1>1, <1>2, <1>5, MemberPath
  <2>3. g \in Frame
    BY <1>10, <2>2 DEF Frame
  <2>4. /\ g.dir = i /\ g.path = Member(Here.name) /\ g.before = 0 /\ g.todo = {}
    OBVIOUS
  <2> HIDE DEF g
  <2>5. /\ stack' \in Seq(Frame) /\ Len(stack') = m + 1 /\ stack'[m + 1] = g /\ stack' # <<>>
        /\ \A k \in 1 .. m : stack'[k] = stack[k]
    BY <1>3, <2>1, <2>3, Pushed
  <2>6. DOMAIN stack' = 1 .. m + 1
    <3>1. stack' \in Seq(Frame) /\ Len(stack') = m + 1
      BY <2>5
    <3> QED BY <3>1
  <2>7. Routed'
    <3>1. \A k \in 1 .. m : stack'[k].path = stack[k].path
                            /\ \A j \in 1 .. k - 1 : stack'[j].name = stack[j].name
      BY <1>3, <2>5
    <3>2. ASSUME NEW j \in 1 .. m PROVE g.path[j + 1] = stack'[j].name
      <4>1. CASE j = m
        BY <1>3, <2>2, <2>4, <2>5, <4>1
      <4>2. CASE j # m
        <5>1. j \in 1 .. m - 1
          <6>1. m \in Nat
            BY <1>3
          <6> HIDE DEF m
          <6> QED BY <4>2, <6>1
        <5> QED BY <2>2, <2>4, <2>5, <5>1
      <4> QED BY <4>1, <4>2
    <3>3. \A k \in 1 .. m : /\ Len(stack'[k].path) = k /\ stack'[k].path[1] = item
                            /\ \A j \in 1 .. k - 1 : stack'[k].path[j + 1] = stack'[j].name
      BY <1>3, <3>1 DEF IInv, Routed
    <3>4. /\ Len(stack'[m + 1].path) = m + 1 /\ stack'[m + 1].path[1] = item
          /\ \A j \in 1 .. m + 1 - 1 : stack'[m + 1].path[j + 1] = stack'[j].name
      BY <1>3, <2>2, <2>4, <2>5, <3>2
    <3>5. \A k \in 1 .. m + 1 : k \in 1 .. m \/ k = m + 1
      <4>1. m \in Nat
        BY <1>3
      <4> HIDE DEF m
      <4> QED BY <4>1
    <3>6. ASSUME NEW k \in DOMAIN stack'
          PROVE  /\ Len(stack'[k].path) = k /\ stack'[k].path[1] = item'
                 /\ \A j \in 1 .. k - 1 : stack'[k].path[j + 1] = stack'[j].name
      <4>1. item' = item /\ k \in 1 .. m + 1
        BY <1>10, <2>6
      <4>2. k \in 1 .. m \/ k = m + 1
        BY <3>5, <4>1
      <4> QED BY <3>3, <3>4, <4>1, <4>2
    <3> QED BY <3>6 DEF Routed
  <2>8. Walked'
    <3> SUFFICES ASSUME NEW k \in 1 .. m + 1 PROVE Faithful(k)'
      BY <2>6 DEF Walked
    <3>1. CASE k < m
      <4>1. k \in DOMAIN stack /\ stack'[k] = stack[k] /\ k < Len(stack') /\ GrowsAt(k)
        BY <1>3, <1>10, <2>5, <3>1 DEF GrowsAt
      <4> QED BY <1>1, <1>2, <3>1, <4>1, LowerLevel
    <3>2. CASE k = m
      <4>1. /\ Listed(k)' /\ Busy(k)' /\ entry' = entry /\ info' = info /\ stack'[k] = Here
            /\ k < Len(stack') /\ stack[k] = Here
        BY <1>1, <1>3, <2>5, <3>2 DEF Listed, Busy, tree
      <4>2. Still(stack[k])' <=> Still(Here)
        BY <4>1 DEF Still
      <4>3. \A x \in Names : Taken(stack[k], x)' <=> Taken(Here, x)
        BY <1>10, <4>1 DEF Taken
      <4>4. Unbegun(k)' /\ Visited(k)'
        BY <1>2, <1>3, <1>10, <3>2, <4>1, <4>2 DEF Faithful, Unbegun, Visited
      <4>5. InWork(k)'
        BY <1>5, <1>10, <4>1 DEF InWork
      <4>6. Covers(k)'
        BY <1>2, <1>3, <1>4, <3>2, <4>1, <4>2, <4>3 DEF Faithful, Covers
      <4> QED BY <1>2, <1>3, <3>2, <4>1, <4>4, <4>5, <4>6 DEF Faithful
    <3>3. CASE k = m + 1
      <4>1. ~ Listed(k)' /\ ~ Busy(k)' /\ stack'[k] = g
        BY <1>3, <2>1, <2>5, <3>3 DEF Listed, Busy, InHand
      <4>2. ASSUME NEW a \in archive PROVE ~ Under(a.path, g.path)
        <5> SUFFICES ASSUME Under(a.path, g.path) PROVE FALSE
          OBVIOUS
        <5>1. Len(a.path) \in Nat /\ Len(Here.path) = m
          BY <1>1, <1>3, LocalBefore DEF IInv, Routed
        <5>2. Len(a.path) > m + 1 /\ \A j \in 1 .. m + 1 : a.path[j] = Member(Here.name)[j]
          BY <2>2, <2>4 DEF Under
        <5>3. \A j \in 1 .. m : Member(Here.name)[j] = Here.path[j]
          BY <1>3, <5>1, <1>5, Pushed DEF Member
        <5>4. Under(a.path, Here.path)
          BY <1>3, <5>1, <5>2, <5>3 DEF Under
        <5>5. a.path[m + 1] = Here.name
          <6>1. m + 1 \in 1 .. m + 1
            <7>1. m \in Nat
              BY <1>3
            <7> HIDE DEF m
            <7> QED BY <7>1
          <6> QED BY <2>2, <5>2, <6>1
        <5> QED BY <1>5, <5>4, <5>5
      <4>3. Unbegun(k)' /\ Visited(k)' /\ InWork(k)' /\ Covers(k)'
        BY <1>10, <2>4, <4>1, <4>2 DEF Unbegun, Visited, InWork, Covers
      <4>4. 0 <= info'[i].stamp
        BY <1>1, <1>10, Kinds, LocalBefore DEF tree, Infos
      <4>5. stack'[k].before <= info'[stack'[k].dir].stamp
        BY <2>4, <4>1, <4>4
      <4> QED BY <4>3, <4>5 DEF Faithful
    <3>4. k < m \/ k = m \/ k = m + 1
      <4>1. m \in Nat
        BY <1>3
      <4> HIDE DEF m
      <4> QED BY <4>1
    <3> QED BY <3>1, <3>2, <3>3, <3>4
  <2>9. at' \in Walking
    BY <2>1 DEF Walking
  <2> QED BY <1>1, <1>2, <1>10, <2>1, <2>5, <2>7, <2>8, <2>9, WalkKeeps
<1> QED BY <1>6, <1>7, <1>8, <1>9, <1>10

-----------------------------------------------------------------------------
(* Files                                                                   *)

\* An entry with a new path counts as one more.
LEMMA Added ==
    ASSUME IInv, location = "LOCAL", NEW e \in Archivable, archive' = archive \union {e},
           \A a \in archive : a.path # e.path
    PROVE  /\ archive' \subseteq Archivable /\ IsFiniteSet(archive')
           /\ Cardinality(archive') = Cardinality(archive) + 1
<1>1. archive \subseteq Archivable /\ IsFiniteSet(archive) /\ e \notin archive
  BY LocalBefore
<1> QED BY <1>1, FS_AddElement

\* A file that is opened or copied below a directory is the one in hand there.
LEMMA HeldBelow ==
    ASSUME IInv, location = "LOCAL", at \in InHand, stack # <<>>
    PROVE  /\ Here.name \in Names /\ Here.name \in Nat /\ Here.name \notin Here.todo
           /\ Still(Here) => entry[<<Here.dir, Here.name>>] = seen.now
           /\ \A a \in archive : Under(a.path, Here.path) => a.path[Len(stack) + 1] # Here.name
           /\ at \notin Abandoned
<1>1. Len(stack) \in DOMAIN stack /\ Here = stack[Len(stack)] /\ at \notin Abandoned
  BY Innermost DEF IInv, InHand, Abandoned
<1>2. Busy(Len(stack)) /\ Faithful(Len(stack))
  BY <1>1 DEF IInv, Walked, Busy
<1> QED BY <1>1, <1>2, Limits DEF Faithful, InWork

\* Where the file in hand goes in the archive is a new path of this source.
LEMMA NewPath ==
    ASSUME IInv, location = "LOCAL", at \in {"file", "copying", "snapshot"},
           NEW path, path = IF stack = <<>> THEN <<item>> ELSE Member(Here.name)
    PROVE  /\ path \in Seq(Nat) /\ Len(path) > 0 /\ path[1] = item
           /\ \A a \in archive : a.path # path
           /\ path = <<item>> => seen.now = seen.validated
<1>1. item \in Nat \ {0}
  BY LocalBefore
<1>2. CASE stack = <<>>
  <2>1. \A a \in archive : a.path[1] < item
    BY <1>2 DEF IInv, Numbered, Untaken, Outside
  <2>2. \A a \in archive : a.path # <<item>>
    BY <2>1, NoSuchPath
  <2> QED BY <1>1, <1>2, <2>2 DEF IInv, Located
<1>3. CASE stack # <<>>
  <2>1. at \in InHand
    BY <1>3 DEF IInv, Located, Outside, InHand
  <2>2. /\ Here.name \in Nat
        /\ \A a \in archive : Under(a.path, Here.path) => a.path[Len(stack) + 1] # Here.name
    BY <1>3, <2>1, HeldBelow
  <2>3. /\ path \in Seq(Nat) /\ Len(path) = Len(stack) + 1 /\ path[1] = item
        /\ \A q \in Seq(Nat) : q = path => Under(q, Here.path) /\ q[Len(stack) + 1] = Here.name
    BY <1>3, <2>2, MemberPath
  <2>4. \A a \in archive : a.path # path
    BY <2>2, <2>3, LocalBefore
  <2>5. Len(stack) \in Nat \ {0}
    BY <1>3, Innermost DEF IInv
  <2>6. path # <<item>>
    BY <2>3, <2>5
  <2> QED BY <2>3, <2>4, <2>5, <2>6
<1> QED BY <1>2, <1>3

\* What an archived file does to the archive.
LEMMA ArchivedKeeps ==
    ASSUME IInv, location = "LOCAL", at \in {"file", "copying", "snapshot"},
           UNCHANGED <<location, item, seen>>, at' \in {"verify", "walk"},
           at' = "walk" => stack' # <<>>,
           NEW size \in Nat, NEW stamp \in Nat, Archived(size, {stamp})
    PROVE  /\ archive' \subseteq Archivable /\ IsFiniteSet(archive')
           /\ Cardinality(archive') = Cardinality(archive) + 1
           /\ OneVersion' /\ Numbered'
<1> DEFINE path == IF stack = <<>> THEN <<item>> ELSE Member(Here.name)
           e == [path |-> path, inode |-> seen.now, size |-> size, stamps |-> {stamp}]
<1>1. archive' = archive \union {e}
  BY DEF Archived
<1>2. /\ path \in Seq(Nat) /\ Len(path) > 0 /\ path[1] = item
      /\ \A a \in archive : a.path # path
      /\ path = <<item>> => seen.now = seen.validated
  BY NewPath
<1> HIDE DEF path
<1>3. seen.now \in Inode
  BY Kinds DEF IInv, Located
<1>4. e \in Archivable /\ e.path = path /\ e.inode = seen.now /\ e.stamps = {stamp}
  BY <1>2, <1>3 DEF Archivable
<1> HIDE DEF e
<1>5. /\ archive' \subseteq Archivable /\ IsFiniteSet(archive')
      /\ Cardinality(archive') = Cardinality(archive) + 1
  BY <1>1, <1>2, <1>4, Added
<1>6. OneVersion'
  BY <1>1, <1>4 DEF IInv, OneVersion
<1>7. item \in Nat /\ at \notin Abandoned
  BY LocalBefore DEF Abandoned
<1>8. Numbered'
  <2>1. \A a \in archive' : Len(a.path) > 0 /\ a.path[1] <= item
    BY <1>1, <1>2, <1>4, <1>7 DEF IInv, Numbered
  <2>2. \A a \in archive' : a.path = <<item>> => a.inode = seen.validated
    BY <1>1, <1>2, <1>4, <1>7 DEF IInv, Numbered
  <2>3. ~ Untaken'
    BY DEF Untaken, Outside
  <2> QED BY <2>1, <2>2, <2>3 DEF Numbered
<1> QED BY <1>5, <1>6, <1>8

LEMMA SnapshotKeeps ==
    ASSUME IInv, Snapshot
    PROVE  IInv'
<1>1. location = "LOCAL" /\ at = "snapshot" /\ UNCHANGED <<location, paths, tree, remote>>
  BY DEF Snapshot, Local
<1> DEFINE i == info[seen.now]
<1>2. CASE ~ Fits(i.size, 1)
  BY <1>1, <1>2, FailKeeps DEF Snapshot
<1>3. CASE Fits(i.size, 1)
  <2>1. /\ Spend(i.size, 1) /\ Archived(i.size, {i.stamp}) /\ at' = "verify"
        /\ UNCHANGED <<item, seen, stack, copy, skipped>>
    BY <1>3 DEF Snapshot, To
  <2>2. /\ stack = <<>> /\ item <= Len(paths) /\ seen.now \in File
        /\ seen.opened = seen.validated
    BY <1>1 DEF IInv, Located, Outside, Visiting, Opened
  <2>3. i.size \in Nat /\ i.stamp \in Nat
    BY <1>1, <2>2, Kinds, Limits, LocalBefore DEF Infos
  <2>4. /\ used' \in [bytes : 0 .. MaxBytes, files : 0 .. MaxFiles]
        /\ used'.files = used.files + 1
    <3>1. used.bytes + i.size <= MaxBytes /\ used.files + 1 <= MaxFiles /\ 1 \in Nat
      BY <1>3 DEF Fits
    <3> HIDE DEF i
    <3> QED BY <1>1, <2>1, <2>3, <3>1, Spent, LocalBefore
  <2>5. /\ archive' \subseteq Archivable /\ IsFiniteSet(archive')
        /\ Cardinality(archive') = Cardinality(archive) + 1
        /\ OneVersion' /\ Numbered'
    BY <1>1, <2>1, <2>3, ArchivedKeeps
  <2>6. Types'
    BY <1>1, <2>1, <2>4, <2>5 DEF IInv, Types, LocalSteps, tree, remote
  <2>7. Located'
    BY <1>1, <2>1, <2>2 DEF Located, Visiting, Walking, Outside, Opened
  <2>8. CopyFollows' /\ Counted'
    BY <1>1, <2>1, <2>4, <2>5, LocalBefore DEF IInv, CopyFollows, Counted, Abandoned
  <2> QED BY <1>1, <2>1, <2>2, <2>5, <2>6, <2>7, <2>8, OutsideKeeps, LocalKeeps
<1> QED BY <1>2, <1>3

\* A file stays in hand: nothing changes for the directories.
LEMMA HandKeeps ==
    ASSUME IInv, location = "LOCAL", at \in {"file", "copying"}, at' = "copying",
           UNCHANGED <<location, paths, tree, remote, item, seen, stack, archive, skipped>>,
           used' \in [bytes : 0 .. MaxBytes, files : 0 .. MaxFiles],
           used'.files = used.files + IF at = "file" THEN 1 ELSE 0,
           copy' \in CopyState, CopyFollows'
    PROVE  IInv'
<1>1. /\ item <= Len(paths) /\ seen.now \in File /\ seen.opened = seen.validated
      /\ stack = <<>> => seen.now = seen.validated
  BY DEF IInv, Located, Outside, Visiting, Opened
<1>2. Types'
  BY DEF IInv, Types, LocalSteps, tree, remote
<1>3. Located'
  BY <1>1 DEF Located, Visiting, Walking, Outside, Opened
<1>4. OneVersion' /\ Numbered'
  BY DEF IInv, OneVersion, Numbered, Untaken, Outside, Abandoned
<1>5. Counted'
  <2>1. used.files = Cardinality(archive) + (IF at = "copying" THEN 1 ELSE 0)
    BY DEF IInv, Counted, Abandoned
  <2>2. Cardinality(archive) \in Nat
    BY LocalBefore
  <2> QED BY <2>1, <2>2 DEF Counted
<1>6. Routed' /\ Walked'
  BY SameWalk DEF InHand
<1> QED BY <1>2, <1>3, <1>4, <1>5, <1>6, LocalKeeps

LEMMA CopyBeginsKeeps ==
    ASSUME IInv, CopyBegins
    PROVE  IInv'
<1>1. location = "LOCAL" /\ at = "file" /\ UNCHANGED <<location, paths, tree, remote>>
  BY DEF CopyBegins, Local
<1> DEFINE i == info[seen.now]
<1>2. CASE ~ Fits(i.size, 1)
  BY <1>1, <1>2, FailKeeps DEF CopyBegins
<1>3. CASE Fits(i.size, 1)
  <2>1. /\ Spend(i.size, 1) /\ at' = "copying"
        /\ copy' = [before |-> i.stamp, size |-> i.size, stamps |-> {}, reads |-> 0]
        /\ UNCHANGED <<item, seen, stack, archive, skipped>>
    BY <1>3 DEF CopyBegins, To
  <2>2. seen.now \in File
    BY <1>1 DEF IInv, Located
  <2>3. i.size \in Nat /\ i.stamp \in Nat
    BY <1>1, <2>2, Kinds, Limits, LocalBefore DEF Infos
  <2>4. /\ used' \in [bytes : 0 .. MaxBytes, files : 0 .. MaxFiles]
        /\ used'.files = used.files + 1
    <3>1. used.bytes + i.size <= MaxBytes /\ used.files + 1 <= MaxFiles /\ 1 \in Nat
      BY <1>3 DEF Fits
    <3> HIDE DEF i
    <3> QED BY <1>1, <2>1, <2>3, <3>1, Spent, LocalBefore
  <2>5. copy' \in CopyState /\ CopyFollows'
    BY <1>1, <2>1, <2>3 DEF CopyState, CopyFollows, tree
  <2> QED BY <1>1, <2>1, <2>4, <2>5, HandKeeps
<1> QED BY <1>2, <1>3

LEMMA ReadsKeeps ==
    ASSUME IInv, Reads
    PROVE  IInv'
<1>1. /\ location = "LOCAL" /\ at = "copying" /\ UNCHANGED <<location, paths, tree, remote>>
      /\ copy.reads < 2
  BY DEF Reads, Local
<1> DEFINE i == info[seen.now]
<1>2. CASE ~(i.size >= copy.size)
  BY <1>1, <1>2, FailKeeps DEF Reads
<1>3. CASE i.size >= copy.size
  <2>1. /\ copy' = [copy EXCEPT !.reads = @ + 1, !.stamps = @ \union {i.stamp}]
        /\ UNCHANGED <<at, item, used, seen, stack, archive, skipped>>
    BY <1>3 DEF Reads
  <2>2. seen.now \in File
    BY <1>1 DEF IInv, Located
  <2>3. i.stamp \in Nat /\ copy \in CopyState
    BY <1>1, <2>2, Kinds, LocalBefore DEF Infos
  <2>4. /\ copy' \in CopyState /\ copy'.before = copy.before
        /\ copy'.stamps = copy.stamps \union {i.stamp}
    <3> DEFINE more == copy.stamps \union {i.stamp}
    <3>1. copy.reads + 1 \in 0 .. 2 /\ more \in SUBSET Nat
      BY <1>1, <2>3 DEF CopyState
    <3>2. copy' = [copy EXCEPT !.reads = copy.reads + 1, !.stamps = more]
      BY <2>1
    <3> HIDE DEF more
    <3>3. copy' \in CopyState /\ copy'.before = copy.before /\ copy'.stamps = more
      BY <2>3, <3>1, <3>2 DEF CopyState
    <3> QED BY <3>3 DEF more
  <2>5. CopyFollows'
    <3>1. /\ copy.before <= i.stamp
          /\ \A s \in copy.stamps : copy.before <= s /\ s <= i.stamp
      BY <1>1 DEF IInv, CopyFollows
    <3> QED BY <1>1, <2>1, <2>3, <2>4, <3>1 DEF CopyFollows, tree
  <2>6. /\ used' \in [bytes : 0 .. MaxBytes, files : 0 .. MaxFiles]
        /\ used'.files = used.files + IF at = "file" THEN 1 ELSE 0
    BY <1>1, <2>1, LocalBefore
  <2> QED BY <1>1, <2>1, <2>4, <2>5, <2>6, HandKeeps
<1> QED BY <1>2, <1>3

LEMMA CopyEndsKeeps ==
    ASSUME IInv, CopyEnds
    PROVE  IInv'
<1>1. /\ location = "LOCAL" /\ at = "copying" /\ UNCHANGED <<location, paths, tree, remote>>
      /\ copy.reads = 2
  BY DEF CopyEnds, Local
<1>2. CASE ~ UnchangedFile(seen.now)
  BY <1>1, <1>2, FailKeeps DEF CopyEnds
<1>3. CASE UnchangedFile(seen.now)
  <2> DEFINE m == Len(stack)
             name == Here.name
             e == [path |-> Member(name), inode |-> seen.now, size |-> copy.size,
                   stamps |-> copy.stamps]
  <2>1. /\ Archived(copy.size, copy.stamps) /\ at' = Onward(stack) /\ copy' = NoCopy
        /\ UNCHANGED <<item, used, seen, stack, skipped>>
    BY <1>3 DEF CopyEnds, To
  <2>2. /\ item <= Len(paths) /\ seen.now \in File /\ seen.opened = seen.validated
        /\ at' \in {"verify", "walk"} /\ (at' = "verify" <=> stack = <<>>)
    BY <1>1, <2>1 DEF IInv, Located, Outside, Visiting, Opened, Onward
  <2>3. copy.size \in Nat /\ copy.before \in Nat /\ copy.stamps \subseteq Nat
    BY <1>1, LocalBefore DEF CopyState
  <2>4. copy.stamps = {copy.before}
    BY <1>1, <1>3, <2>3 DEF IInv, CopyFollows, UnchangedFile
  <2>5. /\ archive' \subseteq Archivable /\ IsFiniteSet(archive')
        /\ Cardinality(archive') = Cardinality(archive) + 1
        /\ OneVersion' /\ Numbered'
    BY <1>1, <2>1, <2>2, <2>3, <2>4, ArchivedKeeps
  <2>6. Types'
    BY <1>1, <2>1, <2>2, <2>5 DEF IInv, Types, LocalSteps, NoCopy, CopyState, tree, remote
  <2>7. Located'
    BY <1>1, <2>1, <2>2 DEF Located, Visiting, Walking, Outside, Opened
  <2>8. CopyFollows' /\ Counted' /\ Routed'
    BY <1>1, <2>1, <2>2, <2>5, LocalBefore DEF IInv, CopyFollows, Counted, Routed, Abandoned
  <2>9. Walked'
    <3> SUFFICES ASSUME stack # <<>>, NEW k \in 1 .. m PROVE Faithful(k)'
      BY <1>1, <2>1, LocalBefore DEF Walked
    <3>1. archive' = archive \union {e} /\ at' = "walk"
      BY <2>1, <2>2 DEF Archived
    <3>2. /\ name \in Names /\ name \in Nat /\ name \notin Here.todo
          /\ Still(Here) => entry[<<Here.dir, name>>] = seen.now
          /\ at \notin Abandoned
      BY <1>1, HeldBelow DEF InHand
    <3>3. /\ Member(name)[m + 1] = name
          /\ \A j \in 1 .. m - 1 : Member(name)[j + 1] = stack[j].name
      BY <1>1, <3>2, MemberPath
    <3>4. m \in Nat \ {0} /\ Here = stack[m] /\ m \in DOMAIN stack /\ DOMAIN stack = 1 .. m
      BY <1>1, Innermost, LocalBefore DEF IInv
    <3>5. CASE k < m
      <4>1. k \in 1 .. m - 1
        <5>1. m \in Nat
          BY <3>4
        <5> HIDE DEF m
        <5> QED BY <3>5, <5>1
      <4>2. k \in DOMAIN stack /\ stack' = stack /\ GrowsAt(k)
        BY <2>1, <3>1, <3>3, <3>4, <4>1 DEF GrowsAt
      <4> QED BY <1>1, <3>2, <3>5, <4>2, LowerLevel
    <3>6. CASE k = m
      <4>1. /\ Listed(k)' /\ ~ Busy(k)' /\ Listed(k) /\ entry' = entry /\ info' = info
            /\ stack' = stack /\ Faithful(k)
        BY <1>1, <2>1, <3>1, <3>2, <3>4, <3>6 DEF Listed, Busy, InHand, tree, IInv, Walked
      <4>2. (Still(stack[k])' <=> Still(Here)) /\ stack[k] = Here
        BY <3>4, <3>6, <4>1 DEF Still
      <4>3. Unbegun(k)' /\ InWork(k)'
        BY <4>1 DEF Unbegun, InWork
      <4>4. Visited(k)'
        <5> SUFFICES ASSUME NEW a \in archive', Under(a.path, Here.path)
                     PROVE  /\ a.path[k + 1] \notin Here.todo
                            /\ Still(Here) => /\ a.path[k + 1] \in Names
                                              /\ entry[<<Here.dir, a.path[k + 1]>>] # Nothing
          BY <4>1, <4>2 DEF Visited
        <5>1. CASE a \in archive
          BY <4>1, <4>2, <5>1 DEF Faithful, Visited
        <5>2. CASE a = e
          BY <2>2, <3>2, <3>3, <3>6, <5>2, Kinds
        <5> QED BY <3>1, <5>1, <5>2
      <4>5. \A x \in Names : Taken(Here, x) => Taken(stack[k], x)'
        BY <2>1, <3>1, <4>1, <4>2 DEF Taken
      <4>6. Still(Here) => \A x : x = name => Taken(stack[k], x)'
        <5>1. Still(Here) => e \in archive' /\ e.path = Append(Here.path, name)
                             /\ e.inode = entry[<<Here.dir, name>>]
          BY <3>1, <3>2 DEF Member
        <5> HIDE DEF e, name
        <5> QED BY <4>1, <4>2, <5>1 DEF Taken
      <4>7. Covers(k)'
        BY <4>1, <4>2, <4>5, <4>6 DEF Faithful, Covers
      <4>8. Here.before <= info[Here.dir].stamp
        BY <4>1, <4>2 DEF Faithful
      <4>9. stack'[k].before <= info'[stack'[k].dir].stamp
        BY <4>1, <4>2, <4>8
      <4> QED BY <4>3, <4>4, <4>7, <4>9 DEF Faithful
    <3>7. k < m \/ k = m
      <4>1. m \in Nat
        BY <3>4
      <4> HIDE DEF m
      <4> QED BY <4>1
    <3> QED BY <3>5, <3>6, <3>7
  <2> QED BY <1>1, <2>5, <2>6, <2>7, <2>8, <2>9, LocalKeeps
<1> QED BY <1>2, <1>3

-----------------------------------------------------------------------------
(* Theorems                                                                *)

LEMMA StutterKeeps ==
    ASSUME IInv, UNCHANGED vars
    PROVE  IInv'
<1>1. /\ UNCHANGED <<location, paths, at, item, used, entry, info, changes>>
      /\ UNCHANGED <<seen, stack, copy, archive, skipped>>
      /\ UNCHANGED <<server, got, dirs, failing, expired, excused>>
  BY DEF vars, tree, walk, remote
<1>2. Types' /\ OnePlace' /\ Located' /\ CopyFollows' /\ OneVersion'
  BY <1>1 DEF IInv, Types, OnePlace, Located, CopyFollows, OneVersion
<1>3. Counted' /\ Numbered' /\ Routed' /\ Fenced'
  BY <1>1 DEF IInv, Counted, Numbered, Untaken, Routed, Fenced, MayStay
<1>4. Walked'
  BY <1>1 DEF IInv, Walked, Faithful, Unbegun, Visited, InWork, Covers, Listed, Busy, Still, Taken
<1> QED BY <1>2, <1>3, <1>4 DEF IInv

LEMMA StepKeeps ==
    ASSUME IInv, [Next]_vars
    PROVE  IInv'
<1>1. CASE Rewrite \/ Protect \/ Relocate
  BY <1>1, RewriteKeeps, ProtectKeeps, RelocateKeeps
<1>2. CASE Validate \/ StatRoot \/ OpenRoot \/ VerifyPath \/ Complete \/ Stops
  BY <1>2, ValidateKeeps, StatRootKeeps, OpenRootKeeps, VerifyPathKeeps, CompleteKeeps, StopsKeeps
<1>3. CASE Snapshot \/ CopyBegins \/ Reads \/ CopyEnds
  BY <1>3, SnapshotKeeps, CopyBeginsKeeps, ReadsKeeps, CopyEndsKeeps
<1>4. CASE EnterDirectory \/ List \/ StatEntry \/ OpenEntry \/ LeaveDirectory
  BY <1>4, EnterDirectoryKeeps, ListKeeps, StatEntryKeeps, OpenEntryKeeps, LeaveDirectoryKeeps
<1>5. CASE RemoteStep
  BY <1>5, RemoteStepKeeps
<1>6. CASE ScriptWrites \/ ScriptEnds \/ ConnectionLost
  BY <1>6, ServerKeeps
<1>7. CASE UNCHANGED vars
  BY <1>7, StutterKeeps
<1> QED BY <1>1, <1>2, <1>3, <1>4, <1>5, <1>6, <1>7 DEF Next, RemoteStep

\* The inductive invariant holds throughout: the state of the walk agrees with the tree as
\* the inodes' stamps allow, whatever other processes change (local_files.py).
THEOREM Invariant == Spec => []IInv
<1>1. Init => IInv
  BY InitIInv
<1>2. IInv /\ [Next]_vars => IInv'
  BY StepKeeps
<1> QED BY <1>1, <1>2, PTL DEF Spec

\* State is well formed; a completed acquisition is within max_source_bytes and
\* max_source_files and has counted each file it took (SourceBudget); and however an
\* acquisition ends, a snapshot on the server is one whose rm failed or was given up, which
\* _remote_sqlite_snapshot ignores, or one that the rm came too early or too late for.
THEOREM BudgetAndFence == Spec => [](FilesTypeOK /\ WithinBudget /\ SnapshotIsFenced)
<1>1. IInv => FilesTypeOK
  <2> SUFFICES ASSUME IInv PROVE FilesTypeOK
    OBVIOUS
  <2>1. /\ at \in {"item", "validated", "stated", "file", "copying", "snapshot", "enter", "list",
                   "walk", "opening", "verify", "prepare", "connecting", "checking", "asking",
                   "snapshotting", "rsync", "removing", "closing", "packing", "cleaning",
                   "succeeded", "failed", "killed"}
        /\ location \in {"LOCAL", "REMOTE_SERVER"} /\ paths \in Selections
        /\ item \in 1 .. Len(paths) + 1
    BY DEF IInv, Types, LocalSteps, RemoteSteps
  <2>2. used \in [bytes : Nat, files : Nat]
    BY Limits DEF IInv, Types
  <2>3. /\ at \in {"enter", "list", "walk", "opening"} => stack # <<>>
        /\ at \in {"item", "validated", "stated", "snapshot", "verify"} => stack = <<>>
    BY DEF IInv, Located, Walking, Outside
  <2>4. ASSUME NEW k \in DOMAIN stack
        PROVE  /\ stack[k].dir \in Dir /\ stack[k].todo \subseteq Names
               /\ stack[k].name \in Names \union {0} /\ stack[k].before \in Nat
    <3>1. stack[k] \in Frame
      BY DEF IInv, Types
    <3> QED BY <3>1 DEF Frame
  <2>5. copy.reads \in 0 .. 2 /\ copy.stamps \subseteq Nat
    BY DEF IInv, Types, CopyState
  <2>6. \A a \in archive : a.inode \in Inode /\ a.size \in Nat
    BY DEF IInv, Types, Archivable
  <2>7. \A f \in {"validated", "opened", "now"} : seen[f] \in Inode \union {Nothing}
    BY DEF IInv, Types
  <2> QED BY <2>1, <2>2, <2>3, <2>4, <2>5, <2>6, <2>7 DEF IInv, Types, OnePlace, FilesTypeOK
<1>2. IInv => WithinBudget
  <2> SUFFICES ASSUME IInv, at = "succeeded" PROVE WithinBudget
    BY DEF WithinBudget
  <2>1. used.bytes \in 0 .. MaxBytes /\ used.files \in 0 .. MaxFiles
    BY DEF IInv, Types
  <2>2. used.bytes <= MaxBytes /\ used.files <= MaxFiles
    BY <2>1, Limits
  <2>3. location = "LOCAL" => used.files = Cardinality(archive)
    <3> SUFFICES ASSUME location = "LOCAL" PROVE used.files = Cardinality(archive)
      OBVIOUS
    <3>1. used.files = Cardinality(archive) + 0 /\ Cardinality(archive) \in Nat
      BY LocalBefore DEF IInv, Counted, Abandoned
    <3> QED BY <3>1
  <2> QED BY <2>2, <2>3 DEF WithinBudget
<1>3. IInv => SnapshotIsFenced
  BY DEF IInv, Types, Fenced, MayStay, SnapshotIsFenced
<1>4. IInv => FilesTypeOK /\ WithinBudget /\ SnapshotIsFenced
  BY <1>1, <1>2, <1>3
<1> QED BY <1>4, Invariant, PTL

\* What a completed archive holds of a file is one version of it: the comparison of size,
\* mtime and ctime after the copy refuses every mixture (_archive_open_file).
THEOREM VersionIsOne == Spec => []CopiedIsOneVersion
<1>1. IInv => CopiedIsOneVersion
  <2> SUFFICES ASSUME IInv, NEW a \in archive PROVE Cardinality(a.stamps) = 1
    BY DEF CopiedIsOneVersion
  <2>1. PICK s \in Nat : a.stamps = {s}
    BY DEF IInv, OneVersion
  <2> QED BY <2>1, FS_Singleton
<1> QED BY <1>1, Invariant, PTL

\* A directory that is left unchanged is archived whole: every name it has is in the
\* archive with its inode, recorded as skipped, or a directory, and no other name is
\* (_archive_directory_fd).
THEOREM DirectoriesAreWhole == Spec => DirectoryIsWhole
<1> DEFINE Whole ==
      at = "walk" /\ at' \in {"walk", "verify"} /\ Len(stack') < Len(stack) =>
       \A n \in Names :
          LET i == entry[<<Here.dir, n>>]
              copied == {a \in archive : a.path = Member(n)} IN
          IF i = Nothing THEN copied = {}
          ELSE \/ \E a \in copied : a.inode = i
               \/ Member(n) \in skipped
               \/ i \in Dir
<1>1. ASSUME IInv, [Next]_vars PROVE [Whole]_vars
  <2> SUFFICES ASSUME at = "walk", at' \in {"walk", "verify"}, Len(stack') < Len(stack),
                      NEW n \in Names
               PROVE  LET i == entry[<<Here.dir, n>>]
                          copied == {a \in archive : a.path = Member(n)} IN
                      IF i = Nothing THEN copied = {}
                      ELSE \/ \E a \in copied : a.inode = i
                           \/ Member(n) \in skipped
                           \/ i \in Dir
    OBVIOUS
  <2>1. location = "LOCAL" /\ stack # <<>> /\ stack \in Seq(Frame) /\ Len(stack) \in Nat
    BY <1>1 DEF IInv, Types, Located, Walking, RemoteSteps
  <2>2. stack' # stack
    BY <2>1
  <2>3. StatEntry \/ LeaveDirectory
    <3>1. ~(Rewrite \/ Protect \/ Relocate)
      BY <2>2 DEF Rewrite, Protect, Relocate, Change, walk
    <3>2. ~(Validate \/ StatRoot \/ OpenRoot \/ VerifyPath \/ Complete \/ Stops)
      BY DEF Validate, StatRoot, OpenRoot, VerifyPath, Complete, Stops, Local, Fail, To
    <3>3. ~(Snapshot \/ CopyBegins \/ Reads \/ CopyEnds \/ EnterDirectory \/ List \/ OpenEntry)
      BY DEF Snapshot, CopyBegins, Reads, CopyEnds, EnterDirectory, List, OpenEntry, Local
    <3>4. ~ RemoteStep
      BY <2>1 DEF RemoteStep, Prepare, Connect, CheckRsync, BeginPath, AskSnapshot, SnapshotTaken,
                  Grows, Downloaded, StepRaises, RemoveSnapshot, RemovalFails,
                  RemovalTooLate, PathEnds, CloseConnection, Pack, Clean, DeadlinePasses, Killed,
                  Remote
    <3>5. ~(ScriptWrites \/ ScriptEnds \/ ConnectionLost) /\ ~ UNCHANGED vars
      BY <2>2 DEF ScriptWrites, ScriptEnds, ConnectionLost, walk, vars
    <3> QED BY <1>1, <3>1, <3>2, <3>3, <3>4, <3>5 DEF Next, RemoteStep
  <2>4. ~ StatEntry
    <3> SUFFICES ASSUME StatEntry PROVE FALSE
      OBVIOUS
    <3>1. stack' = stack \/ \E f : stack' = [stack EXCEPT ![Len(stack)] = f]
      BY DEF StatEntry, Fail, WithHere, walk
    <3>2. Len(stack') = Len(stack)
      BY <2>1, <3>1
    <3> QED BY <2>1, <3>2
  <2>5. LeaveDirectory /\ UnchangedDirectory(Here) /\ Here.todo = {}
    BY <2>3, <2>4 DEF LeaveDirectory, Fail, To
  <2>6. /\ Len(stack) \in Nat \ {0} /\ Here = stack[Len(stack)] /\ Faithful(Len(stack))
        /\ Listed(Len(stack)) /\ ~ Busy(Len(stack)) /\ Still(Here)
    BY <1>1, <2>1, <2>5, Innermost
       DEF IInv, Walked, Abandoned, Listed, Busy, InHand, Still, UnchangedDirectory
  <2>7. n \in Nat
    BY Limits
  <2>8. \A q \in Seq(Nat) : q = Member(n) =>
           Under(q, Here.path) /\ q[Len(stack) + 1] = n
    BY <1>1, <2>1, <2>7, MemberPath
  <2>9. ASSUME entry[<<Here.dir, n>>] = Nothing, NEW a \in archive, a.path = Member(n)
        PROVE  FALSE
    <3>1. Under(a.path, Here.path) /\ a.path[Len(stack) + 1] = n
      BY <1>1, <2>1, <2>8, <2>9, LocalBefore
    <3> QED BY <2>6, <2>9, <3>1 DEF Faithful, Visited
  <2>10. ASSUME entry[<<Here.dir, n>>] # Nothing PROVE Taken(Here, n)
    BY <2>5, <2>6, <2>10 DEF Faithful, Covers
  <2> QED BY <2>9, <2>10 DEF Taken, Member
<1>2. IInv /\ [Next]_vars => [Whole]_vars
  BY <1>1
<1>3. DirectoryIsWhole <=> [][Whole]_vars
  BY DEF DirectoryIsWhole
<1> HIDE DEF Whole
<1> QED BY <1>2, <1>3, Invariant, PTL DEF Spec

\* What is archived of a source comes from the inode that was validated, which is still at
\* its path when the acquisition goes on to the next one (_verify_path_identity).
THEOREM SourceIsChecked == Spec => SourceIsTheValidated
<1> DEFINE Checked ==
      item' # item /\ location = "LOCAL" =>
       /\ Root = seen.validated
       /\ \A a \in archive : a.path = <<item>> => a.inode = Root
<1>1. ASSUME IInv, [Next]_vars PROVE [Checked]_vars
  <2> SUFFICES ASSUME item' # item, location = "LOCAL"
               PROVE  /\ Root = seen.validated
                      /\ \A a \in archive : a.path = <<item>> => a.inode = Root
    OBVIOUS
  <2>1. VerifyPath
    <3>1. ~(Rewrite \/ Protect \/ Relocate)
      BY DEF Rewrite, Protect, Relocate, Change
    <3>2. ~(Validate \/ StatRoot \/ OpenRoot \/ Complete \/ Stops)
      BY DEF Validate, StatRoot, OpenRoot, Complete, Stops, Fail
    <3>3. ~(Snapshot \/ CopyBegins \/ Reads \/ CopyEnds)
      BY DEF Snapshot, CopyBegins, Reads, CopyEnds, Fail
    <3>4. ~(EnterDirectory \/ List \/ StatEntry \/ OpenEntry \/ LeaveDirectory)
      BY DEF EnterDirectory, List, StatEntry, OpenEntry, LeaveDirectory, Fail
    <3>5. ~ RemoteStep
      BY DEF RemoteStep, Prepare, Connect, CheckRsync, BeginPath, AskSnapshot, SnapshotTaken,
             Grows, Downloaded, StepRaises, RemoveSnapshot, RemovalFails, RemovalTooLate,
             CloseConnection, Pack, Clean, DeadlinePasses, Killed, Remote
    <3>6. ~(ScriptWrites \/ ScriptEnds \/ ConnectionLost) /\ ~ UNCHANGED vars
      BY DEF ScriptWrites, ScriptEnds, ConnectionLost, vars
    <3> QED BY <1>1, <3>1, <3>2, <3>3, <3>4, <3>5, <3>6 DEF Next, RemoteStep
  <2>2. at = "verify" /\ Root = seen.opened
    BY <2>1 DEF VerifyPath, Local, Fail
  <2>3. seen.opened = seen.validated
    BY <1>1, <2>2 DEF IInv, Located, Opened
  <2> QED BY <1>1, <2>2, <2>3 DEF IInv, Numbered, Abandoned
<1>2. IInv /\ [Next]_vars => [Checked]_vars
  BY <1>1
<1>3. SourceIsTheValidated <=> [][Checked]_vars
  BY DEF SourceIsTheValidated
<1> HIDE DEF Checked
<1> QED BY <1>2, <1>3, Invariant, PTL DEF Spec
=============================================================================
