------------------------------ MODULE MCMblock ------------------------------
(* Mblock for two small ranks, the protected memory inside the first. *)
EXTENDS Mblock

MCRanks == <<[start |-> 4, size |-> 3], [start |-> 7, size |-> 3]>>
MCProtected == [start |-> 5, size |-> 1]
=============================================================================
