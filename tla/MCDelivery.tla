----------------------------- MODULE MCDelivery -----------------------------
(* Small instances of Delivery for TLC. *)
EXTENDS Delivery, TLC

CONSTANTS r1, prof

OneProfile == [r \in Run |-> prof]
NoProcess  == {}
=============================================================================
