------------------------------ MODULE MCEngine ------------------------------
(* Host with addresses that nothing orders.                                 *)
EXTENDS Host, TLC

Symmetry == Permutations(Engines) \cup Permutations(Vms)

=============================================================================
