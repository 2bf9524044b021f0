------------------------------ MODULE MCBusiness ------------------------------
(***************************************************************************)
(* Instance of BusinessServer for the model checker.                       *)
(***************************************************************************)
EXTENDS BusinessServer

MCDecisions == {"APPROVED", "FROZEN"}
MCKeyed == {"approveContract"}
Symmetry == Permutations(Slots)
=============================================================================
