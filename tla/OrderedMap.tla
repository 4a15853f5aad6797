----------------------------- MODULE OrderedMap -----------------------------
(***************************************************************************)
(* What a script may expect of an array: entries in the order of their     *)
(* insertion, no two with the same key, one internal cursor, and the key   *)
(* the next keyless insertion takes.                                       *)
(***************************************************************************)
EXTENDS ArrayCursor

CONSTANTS IntKeys, BlobKeys, Values

VARIABLE map          \* [seq, left, idx]

Keys == IntKeys \cup BlobKeys
IsInt(e) == e.key \in IntKeys
Entry(k, v) == [key |-> k, val |-> v]
-----------------------------------------------------------------------------
(* What each operation makes of the map M *)

Put(M, k, v) ==
    IF \E i \in 1 .. Len(M.seq) : M.seq[i].key = k
    THEN [M EXCEPT !.seq = [i \in 1 .. Len(@) |->
              IF @[i].key = k THEN Entry(k, v) ELSE @[i]]]
    ELSE [Extended(M, Entry(k, v)) EXCEPT
              !.idx = IF k \in IntKeys /\ k >= @ THEN k + 1 ELSE @]

Push(M, v) == [Extended(M, Entry(M.idx, v)) EXCEPT !.idx = @ + 1]

\* The integer keys ahead of position i.
IntsAhead(M, i) == Cardinality({j \in 1 .. i - 1 : IsInt(M.seq[j])})

\* Integer keys become 0, 1, 2, ... in the order of the entries.
Renumbered(M) ==
    [M EXCEPT !.seq = [i \in 1 .. Len(M.seq) |->
                  IF IsInt(M.seq[i]) THEN Entry(IntsAhead(M, i), M.seq[i].val)
                  ELSE M.seq[i]],
              !.idx = IntsAhead(M, Len(M.seq) + 1)]

Pop(M)   == Rewound(Without(M, Len(M.seq)))
Shift(M) == Rewound(Renumbered(Without(M, 1)))
Turn(M)  == Rewound(Renumbered([M EXCEPT !.seq = Reverse(@)]))

\* The keys stay; none of them is to reach the index, which starts again.
TurnKeepingKeys(M) == Rewound([M EXCEPT !.seq = Reverse(@), !.idx = 0])

Ordered(seq, up) == \A i \in 1 .. Len(seq) - 1 :
    IF up THEN seq[i].val <= seq[i + 1].val ELSE seq[i].val >= seq[i + 1].val

\* asort(), arsort(): N has the entries of M, in the order of their values.
SortEntries(M, N, up) ==
    /\ Ordered(N.seq, up)
    /\ Len(N.seq) = Len(M.seq) /\ ToSet(N.seq) = ToSet(M.seq)
    /\ N.left = Len(M.seq) /\ N.idx = M.idx

ValueBag(M) == ToBag([i \in 1 .. Len(M.seq) |-> M.seq[i].val])

\* sort(), rsort(): N has the values of M, in order, under 0, 1, 2, ...
SortValues(M, N, up) ==
    /\ Ordered(N.seq, up) /\ ValueBag(N) = ValueBag(M)
    /\ \A i \in 1 .. Len(N.seq) : N.seq[i].key = i - 1
    /\ N.left = Len(M.seq) /\ N.idx = Len(M.seq)
-----------------------------------------------------------------------------
Step(M, N) ==
    \/ \E v \in Values : N = Push(M, v) \/ \E k \in Keys : N = Put(M, k, v)
    \/ \E i \in 1 .. Len(M.seq) : N = Without(M, i)
    \/ M.seq # <<>> /\ N \in {Pop(M), Shift(M)}
    \/ N \in {Turn(M), TurnKeepingKeys(M), Rewound(M), ToEnd(M)}
    \/ M.left > 0 /\ N \in {Advance(M), StepBack(M)}
    \/ \E up \in BOOLEAN : SortEntries(M, N, up) \/ SortValues(M, N, up)

Init == map = [seq |-> <<>>, left |-> 0, idx |-> 0]

\* The maps are bound, so that TLC evaluates a refinement mapping once.
Next == \E M \in {map}, N \in {map'} : Step(M, N)

Spec == Init /\ [][Next]_map
=============================================================================
