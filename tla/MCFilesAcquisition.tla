------------------------- MODULE MCFilesAcquisition -------------------------
(* A small instance of FilesAcquisition for TLC. *)
EXTENDS FilesAcquisition

CONSTANTS base, d1, d2, f1, f2, l1, nothing

MCDir == {d1, d2}
MCFile == {f1, f2}
MCOther == {l1}
MCNames == 1 .. 2
\* d1 holds a file and the directory d2, which is empty; f2 is beside d1, l1 is nowhere.
MCTree == [p \in ({base} \union MCDir) \X MCNames |->
             CASE p = <<base, 1>> -> d1 [] p = <<base, 2>> -> f2
               [] p = <<d1, 1>> -> f1 [] p = <<d1, 2>> -> d2
               [] OTHER -> nothing]
MCSelections ==
    {<<[name |-> 1, sqlite |-> FALSE]>>,
     <<[name |-> 2, sqlite |-> TRUE], [name |-> 2, sqlite |-> FALSE]>>,
     <<[name |-> 2, sqlite |-> TRUE], [name |-> 2, sqlite |-> TRUE]>>}
MCSizes == 1 .. 2
=============================================================================
