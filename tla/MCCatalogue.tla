---------------------------- MODULE MCCatalogue -----------------------------
(* A small instance of Catalogue for TLC. *)
EXTENDS Catalogue
=============================================================================
