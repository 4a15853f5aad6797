----------------------------- MODULE MCForeach -----------------------------
(* Small instances of Foreach for TLC.  Statements, arrays and elements    *)
(* are interchangeable.                                                    *)
EXTENDS Foreach

Symmetry == Permutations(Statements) \cup Permutations(Arrays)
               \cup Permutations(Elems)
=============================================================================
