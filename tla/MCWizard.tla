------------------------------ MODULE MCWizard -------------------------------
(* A small instance of Wizard for TLC: one server and two administrators,    *)
(* numbered in tables of their own, and two profiles to reconfigure.         *)
EXTENDS Wizard

Profiles ==
    {[source |-> "DATABASE", engine |-> "MSSQL", encryption |-> "PASSPHRASE"],
     [source |-> "FILES", engine |-> Nothing, encryption |-> "NONE"]}
=============================================================================
