------------------------ MODULE MCGitlabAcquisition -------------------------
(* A small instance of GitlabAcquisition for TLC. *)
EXTENDS GitlabAcquisition
=============================================================================
