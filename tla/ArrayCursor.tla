---------------------------- MODULE ArrayCursor ----------------------------
(***************************************************************************)
(* The entries of an array, in order, and the one internal cursor of the   *)
(* array (pCur of a ph7_hashmap), as the script sees them.                 *)
(*                                                                         *)
(* A map M is a record with the sequence M.seq of its entries and M.left,  *)
(* the number of entries still ahead of the cursor, the current one        *)
(* included: Len(M.seq) is the first entry, 0 is past the end.  Removing   *)
(* an entry that is ahead of the cursor, the current one included, then    *)
(* leaves one entry fewer ahead.                                           *)
(***************************************************************************)
EXTENDS Integers, SequencesExt

Passed(M)  == Len(M.seq) - M.left      \* how many entries are behind
Current(M) == M.seq[Passed(M) + 1]
Behind(M)  == {M.seq[i] : i \in 1 .. Passed(M)}
Ahead(M)   == {M.seq[i] : i \in Passed(M) + 1 .. Len(M.seq)}

\* The first entry of an empty array becomes the current one.  A cursor that
\* is past the end of other entries stays there.
Extended(M, e) ==
    [M EXCEPT !.seq = Append(@, e),
              !.left = IF @ > 0 \/ M.seq = <<>> THEN @ + 1 ELSE 0]

\* Mutant: the entry before a removed current one becomes the current one.
WithoutBackwards(M, i) ==
    [M EXCEPT !.seq = RemoveAt(@, i),
              !.left = IF i > Passed(M) + 1 \/ @ = Len(M.seq) THEN @ - 1 ELSE @]
Without(M, i) ==
    [M EXCEPT !.seq = RemoveAt(@, i),
              !.left = IF i > Passed(M) THEN @ - 1 ELSE @]

NotRewound(M) == M     \* mutant: the cursor stays where it was
Rewound(M)  == [M EXCEPT !.left = Len(M.seq)]
ToEnd(M)    == [M EXCEPT !.left = IF M.seq = <<>> THEN 0 ELSE 1]
Advance(M)  == [M EXCEPT !.left = @ - 1]
\* Mutant: no test for the first entry.
StepBackBlindly(M) == [M EXCEPT !.left = @ + 1]
StepBack(M) == [M EXCEPT !.left = IF @ < Len(M.seq) THEN @ + 1 ELSE 0]
=============================================================================
