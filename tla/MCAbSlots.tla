------------------------------ MODULE MCAbSlots ------------------------------
(* AbSlots with the bounds its configurations give. *)
EXTENDS AbSlots
=============================================================================
