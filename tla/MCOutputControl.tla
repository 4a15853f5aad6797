--------------------------- MODULE MCOutputControl ---------------------------
(* OutputControl and the mutants of its properties.                         *)
EXTENDS OutputControl

=============================================================================
