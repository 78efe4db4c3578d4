-------------------------- MODULE MCMssqlArtifacts --------------------------
(* A small instance of MssqlArtifacts for TLC. *)
EXTENDS MssqlArtifacts
=============================================================================
