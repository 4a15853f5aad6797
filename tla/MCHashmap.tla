----------------------------- MODULE MCHashmap -----------------------------
(* Small instances of Hashmap for TLC.  The hashes are those the low bits  *)
(* of IntHash give: -1 collides with 0, and the blob with 1.  The nodes    *)
(* are interchangeable: any free node may be the one the pool returns.     *)
EXTENDS Hashmap

CONSTANT a

Symmetry == Permutations(Nodes)

MCIntKeys == -1 .. 3
MCHash(k) == IF k = a THEN 1 ELSE IF k = -1 THEN 0 ELSE k % 4
=============================================================================
