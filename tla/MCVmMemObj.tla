---------------------------- MODULE MCVmMemObj ----------------------------
(* Small instances of VmMemObj for TLC.  No operator orders these values:  *)
(* names, nodes, slots and arrays are interchangeable.                     *)
EXTENDS VmMemObj, TLC

Symmetry == Permutations(Names) \cup Permutations(Nodes)
               \cup Permutations(Slots) \cup Permutations(Arrays)
=============================================================================
