---------------------------- MODULE ForeachProofs ----------------------------
(***************************************************************************)
(* Proofs about foreach, for any number of statements, arrays, elements    *)
(* and running loops: a loop that nothing disturbs visits what it should,  *)
(* once, and its array outlives it.                                        *)
(***************************************************************************)
EXTENDS Foreach, SequenceTheorems, TLAPS

Cursors == {M \in [seq : Seq(Elems), left : Nat] : M.left <= Len(M.seq)}

\* No array holds an element twice.
NoRepeats(M) == \A i, j \in 1 .. Len(M.seq) : M.seq[i] = M.seq[j] => i = j
EntriesDistinct == \A m \in Arrays : NoRepeats(arr[m])

\* A loop is lost as soon as a loop inside it has its statement, or walks its
\* array; so the steps of the innermost loop cannot disturb another one.
InnerApart == \A i \in Kept, j \in 1 .. Depth : i < j =>
    /\ loops[j].stmt # loops[i].stmt
    /\ pMap[loops[j].stmt] # loops[i].array

\* The statement of a loop that runs has been entered.
Entered == \A i \in 1 .. Depth : pMap[loops[i].stmt] \in Arrays

IInv ==
    /\ TypeOK
    /\ EntriesDistinct
    /\ Entered
    /\ InnerApart
    /\ OwnsArray
    /\ VisitsOnce
    /\ VisitsAll
-----------------------------------------------------------------------------
(* The cursor *)

\* Removing an entry moves no other entry across the cursor.
LEMMA WithoutCursor ==
    ASSUME NEW M \in Cursors, NEW i \in 1 .. Len(M.seq), NoRepeats(M)
    PROVE  /\ Without(M, i) \in Cursors
           /\ NoRepeats(Without(M, i))
           /\ Ahead(Without(M, i)) \subseteq Ahead(M)
           /\ Behind(Without(M, i)) \subseteq Behind(M)
<1> DEFINE N == Without(M, i)
           n == Len(M.seq)
<1>1. /\ M.seq \in Seq(Elems) /\ n \in Nat
      /\ M.left \in Nat /\ M.left <= n
  BY DEF Cursors
<1>2. /\ N.seq = RemoveAt(M.seq, i)
      /\ N.left = IF i > n - M.left THEN M.left - 1 ELSE M.left
  BY DEF Without, Passed, Cursors
<1>3. /\ N.seq \in Seq(Elems)
      /\ Len(N.seq) = n - 1
      /\ \A k \in 1 .. n - 1 : N.seq[k] = IF k < i THEN M.seq[k] ELSE M.seq[k + 1]
  <2> DEFINE a == SubSeq(M.seq, 1, i - 1)
             b == SubSeq(M.seq, i + 1, n)
  <2>1. /\ a \in Seq(Elems) /\ Len(a) = i - 1
        /\ \A k \in 1 .. i - 1 : a[k] = M.seq[k]
    BY <1>1, SubSeqProperties
  <2>2. /\ b \in Seq(Elems) /\ Len(b) = n - i
        /\ \A k \in 1 .. n - i : b[k] = M.seq[k + i]
    BY <1>1, SubSeqProperties
  <2> HIDE DEF a, b
  <2>3. N.seq = a \o b
    BY <1>2 DEF a, b, RemoveAt
  <2>4. /\ a \o b \in Seq(Elems)
        /\ Len(a \o b) = Len(a) + Len(b)
        /\ \A k \in 1 .. Len(a) + Len(b) :
              (a \o b)[k] = IF k <= Len(a) THEN a[k] ELSE b[k - Len(a)]
    BY <2>1, <2>2, ConcatProperties
  <2>5. /\ N.seq \in Seq(Elems)
        /\ Len(N.seq) = n - 1
        /\ \A k \in 1 .. n - 1 :
              N.seq[k] = IF k <= i - 1 THEN a[k] ELSE b[k - (i - 1)]
    BY <1>1, <2>1, <2>2, <2>3, <2>4
  <2>6. ASSUME NEW k \in 1 .. n - 1
        PROVE  N.seq[k] = IF k < i THEN M.seq[k] ELSE M.seq[k + 1]
    <3>1. CASE k < i
      <4>1. k \in 1 .. i - 1 /\ k <= i - 1
        BY <1>1, <3>1
      <4> QED
        BY <2>1, <2>5, <3>1, <4>1
    <3>2. CASE ~(k < i)
      <4>1. k - (i - 1) \in 1 .. n - i /\ k - (i - 1) + i = k + 1
        BY <1>1, <3>2
      <4>2. ~(k <= i - 1)
        BY <1>1, <3>2
      <4> QED
        BY <2>2, <2>5, <3>2, <4>1, <4>2
    <3> QED
      BY <3>1, <3>2
  <2> QED
    BY <2>5, <2>6
<1>4. N.left \in Nat /\ N.left <= n - 1
  BY <1>1, <1>2
<1>5. N \in Cursors
  BY <1>2, <1>3, <1>4 DEF Cursors, Without, Passed
<1> HIDE DEF N
<1>6. NoRepeats(N)
  <2>1. ASSUME NEW k \in 1 .. n - 1, NEW l \in 1 .. n - 1, N.seq[k] = N.seq[l]
        PROVE  k = l
    <3> DEFINE at(j) == IF j < i THEN j ELSE j + 1
    <3>1. /\ at(k) \in 1 .. n /\ at(l) \in 1 .. n
          /\ at(k) = at(l) => k = l
      BY <1>1
    <3>2. N.seq[k] = M.seq[at(k)] /\ N.seq[l] = M.seq[at(l)]
      BY <1>3
    <3> HIDE DEF at
    <3> QED
      BY <2>1, <3>1, <3>2 DEF NoRepeats
  <2> QED
    BY <1>3, <2>1 DEF NoRepeats
<1>7. ASSUME NEW x \in Ahead(N)
      PROVE  x \in Ahead(M)
  <2>1. PICK k \in Passed(N) + 1 .. Len(N.seq) : x = N.seq[k]
    BY <1>7 DEF Ahead
  <2>2. k \in 1 .. n - 1 /\ k >= n - N.left
    BY <1>1, <1>3, <1>4 DEF Passed
  <2>3. N.seq[k] = IF k < i THEN M.seq[k] ELSE M.seq[k + 1]
    BY <1>3, <2>2
  <2>4. k < i => k \in n - M.left + 1 .. n
    BY <1>1, <1>2, <2>2
  <2>5. ~(k < i) => k + 1 \in n - M.left + 1 .. n
    BY <1>1, <1>2, <2>2
  <2> QED
    BY <2>1, <2>3, <2>4, <2>5 DEF Ahead, Passed
<1>8. ASSUME NEW x \in Behind(N)
      PROVE  x \in Behind(M)
  <2>1. PICK k \in 1 .. Passed(N) : x = N.seq[k]
    BY <1>8 DEF Behind
  <2>2. k \in 1 .. n - 1 /\ k <= n - 1 - N.left
    BY <1>1, <1>3, <1>4 DEF Passed
  <2>3. N.seq[k] = IF k < i THEN M.seq[k] ELSE M.seq[k + 1]
    BY <1>3, <2>2
  <2>4. k < i => k \in 1 .. n - M.left
    BY <1>1, <1>2, <2>2
  <2>5. ~(k < i) => k + 1 \in 1 .. n - M.left
    BY <1>1, <1>2, <2>2
  <2> QED
    BY <2>1, <2>3, <2>4, <2>5 DEF Behind, Passed
<1> QED
  BY <1>5, <1>6, <1>7, <1>8 DEF N

\* An insertion puts nothing but the new entry ahead of the cursor or behind.
LEMMA ExtendedCursor ==
    ASSUME NEW M \in Cursors, NEW e \in Elems, e \notin ToSet(M.seq),
           NoRepeats(M)
    PROVE  /\ Extended(M, e) \in Cursors
           /\ NoRepeats(Extended(M, e))
           /\ Ahead(Extended(M, e)) \subseteq Ahead(M) \cup {e}
           /\ Behind(Extended(M, e)) \subseteq Behind(M) \cup {e}
<1> DEFINE N == Extended(M, e)
           n == Len(M.seq)
<1>1. /\ M.seq \in Seq(Elems) /\ n \in Nat
      /\ M.left \in Nat /\ M.left <= n
      /\ \A k \in 1 .. n : M.seq[k] # e
  BY DEF Cursors, ToSet
<1>2. /\ N.seq = Append(M.seq, e)
      /\ N.left = IF M.left > 0 \/ M.seq = <<>> THEN M.left + 1 ELSE 0
  BY DEF Extended, Cursors
<1>3. /\ N.seq \in Seq(Elems)
      /\ Len(N.seq) = n + 1
      /\ \A k \in 1 .. n : N.seq[k] = M.seq[k]
      /\ N.seq[n + 1] = e
  BY <1>1, <1>2
<1>4. N.left \in Nat /\ N.left <= n + 1
  BY <1>1, <1>2
<1>5. N \in Cursors
  BY <1>2, <1>3, <1>4 DEF Cursors, Extended
<1>6. NoRepeats(N)
  <2>1. \A k \in 1 .. n + 1 : k \in 1 .. n \/ k = n + 1
    BY <1>1
  <2> QED
    BY <1>1, <1>3, <2>1 DEF NoRepeats
<1> HIDE DEF N
<1>7. ASSUME NEW x \in Ahead(N), x # e
      PROVE  x \in Ahead(M)
  <2>1. PICK k \in Passed(N) + 1 .. Len(N.seq) : x = N.seq[k]
    BY <1>7 DEF Ahead
  <2>2. Passed(N) = (n + 1) - N.left /\ Len(N.seq) = n + 1
    BY <1>3 DEF Passed
  <2>3. k \in Int /\ n + 1 - N.left < k /\ k <= n + 1 /\ 1 <= k
    BY <1>1, <1>4, <2>2
  <2>4. k # n + 1
    BY <1>3, <1>7, <2>1
  <2>5. N.left = M.left + 1
    <3>1. CASE N.left = 0
      BY <1>1, <2>3, <2>4, <3>1
    <3> QED
      BY <1>2, <3>1
  <2>6. k \in 1 .. n /\ n - M.left < k
    BY <1>1, <2>3, <2>4, <2>5
  <2>7. x = M.seq[k]
    BY <1>3, <2>1, <2>6
  <2> QED
    BY <1>1, <2>6, <2>7 DEF Ahead, Passed
<1>8. ASSUME NEW x \in Behind(N), x # e
      PROVE  x \in Behind(M)
  <2>1. PICK k \in 1 .. Passed(N) : x = N.seq[k]
    BY <1>8 DEF Behind
  <2>2. k \in 1 .. n + 1 - N.left /\ k # n + 1
    <3>1. k \in 1 .. n + 1 - N.left
      BY <1>1, <1>3, <1>4, <2>1 DEF Passed
    <3>2. k # n + 1
      BY <1>3, <1>8, <2>1
    <3> QED
      BY <3>1, <3>2
  <2>3. N.left = M.left + 1 \/ (N.left = 0 /\ M.left = 0)
    BY <1>1, <1>2
  <2>4. k \in 1 .. n /\ k \in 1 .. n - M.left
    BY <1>1, <1>4, <2>2, <2>3
  <2>5. x = M.seq[k]
    BY <1>3, <2>1, <2>4
  <2> QED
    BY <2>4, <2>5 DEF Behind, Passed
<1> QED
  BY <1>5, <1>6, <1>7, <1>8 DEF N

\* Advancing takes the current entry, and no other, from ahead to behind.
LEMMA AdvanceCursor ==
    ASSUME NEW M \in Cursors, M.left > 0, NoRepeats(M)
    PROVE  /\ Advance(M) \in Cursors
           /\ NoRepeats(Advance(M))
           /\ Current(M) \in Elems
           /\ Ahead(Advance(M)) \subseteq Ahead(M) \ {Current(M)}
           /\ Behind(Advance(M)) \subseteq Behind(M) \cup {Current(M)}
<1> DEFINE N == Advance(M)
           n == Len(M.seq)
<1>1. /\ M.seq \in Seq(Elems) /\ n \in Nat
      /\ M.left \in Nat /\ M.left <= n
  BY DEF Cursors
<1>2. N.seq = M.seq /\ N.left = M.left - 1
  BY DEF Advance, Cursors
<1>3. N \in Cursors
  BY <1>1 DEF Advance, Cursors
<1>4. NoRepeats(N)
  BY <1>2 DEF NoRepeats
<1>5. /\ n - M.left + 1 \in 1 .. n
      /\ Current(M) = M.seq[n - M.left + 1]
  BY <1>1 DEF Current, Passed
<1>6. Current(M) \in Elems
  BY <1>1, <1>5
<1>7. Ahead(N) \subseteq Ahead(M) \ {Current(M)}
  BY <1>1, <1>2, <1>5 DEF Ahead, Passed, NoRepeats
<1>8. Behind(N) \subseteq Behind(M) \cup {Current(M)}
  BY <1>1, <1>2, <1>5 DEF Behind, Passed
<1> QED
  BY <1>3, <1>4, <1>6, <1>7, <1>8

\* A reset leaves nothing behind the cursor; no builtin leaves the array.
LEMMA MovedCursor ==
    ASSUME NEW M \in Cursors, NoRepeats(M), NEW op \in CursorOpKinds
    PROVE  /\ Rewound(M) \in Cursors
           /\ NoRepeats(Rewound(M))
           /\ Behind(Rewound(M)) = {}
           /\ Moved(M, op) \in Cursors
           /\ NoRepeats(Moved(M, op))
<1>1. /\ M.seq \in Seq(Elems) /\ Len(M.seq) \in Nat
      /\ M.left \in Nat /\ M.left <= Len(M.seq)
      /\ M.seq # <<>> => Len(M.seq) > 0
  BY DEF Cursors
<1>2. /\ Rewound(M).seq = M.seq /\ Rewound(M).left = Len(M.seq)
      /\ Rewound(M) \in Cursors /\ NoRepeats(Rewound(M))
  BY DEF Rewound, Cursors, NoRepeats
<1>3. Behind(Rewound(M)) = {}
  BY <1>1, <1>2 DEF Behind, Passed
<1>4. /\ ToEnd(M) \in Cursors /\ NoRepeats(ToEnd(M))
      /\ StepBack(M) \in Cursors /\ NoRepeats(StepBack(M))
      /\ M.left > 0 => Advance(M) \in Cursors /\ NoRepeats(Advance(M))
  BY <1>1 DEF ToEnd, StepBack, Advance, Cursors, NoRepeats
<1>5. /\ Moved(M, op) \in Cursors
      /\ NoRepeats(Moved(M, op))
  BY <1>2, <1>4 DEF Moved, CursorOpKinds
<1> QED
  BY <1>2, <1>3, <1>5
-----------------------------------------------------------------------------
(* The loops that go on *)

LoopRecords == [stmt : Statements, array : Arrays, body : BOOLEAN,
                lost : BOOLEAN, start : SUBSET Elems, seen : SUBSET Elems]

LEMMA ArraysAreCursors ==
    ASSUME TypeOK, EntriesDistinct, NEW m \in Arrays
    PROVE  arr[m] \in Cursors /\ NoRepeats(arr[m])
BY DEF TypeOK, EntriesDistinct, Cursors

\* What the loops outside the innermost one have on the stack.
LEMMA OuterLoops ==
    ASSUME TypeOK, loops # <<>>
    PROVE  /\ Depth \in Nat \ {0}
           /\ Top \in LoopRecords
           /\ Outer \in Seq(LoopRecords)
           /\ Len(Outer) = Depth - 1
           /\ \A i \in 1 .. Depth - 1 : Outer[i] = loops[i]
<1>1. loops \in Seq(LoopRecords)
  BY DEF TypeOK, LoopRecords
<1>2. Depth \in Nat \ {0}
  BY <1>1 DEF Depth
<1>3. Top \in LoopRecords
  BY <1>1, <1>2 DEF Depth, Top
<1>4. /\ Outer \in Seq(LoopRecords)
      /\ Len(Outer) = Depth - 1
      /\ \A i \in 1 .. Depth - 1 : Outer[i] = loops[i]
  <2>1. /\ Depth - 1 \in Nat
        /\ \A i \in 1 .. Depth - 1 : loops[i] \in LoopRecords
    BY <1>1, <1>2 DEF Depth
  <2> QED
    BY <2>1, SubSeqProperties DEF Outer
<1> QED
  BY <1>2, <1>3, <1>4

\* The loops of the next state are loops of this one, at the same place.
SameLoops ==
    /\ Depth' \in Nat /\ Depth' <= Depth
    /\ \A i \in 1 .. Depth' :
          /\ loops[i].lost => loops'[i].lost
          /\ loops'[i].stmt = loops[i].stmt
          /\ loops'[i].array = loops[i].array
          /\ loops'[i].start = loops[i].start

LEMMA NarrowedLoops ==
    ASSUME TypeOK, Entered, InnerApart, SameLoops, pMap' = pMap
    PROVE  Entered' /\ InnerApart' /\ Kept' \subseteq Kept
<1>1. Depth \in Nat
  BY DEF TypeOK, Depth
<1>2. Kept' \subseteq Kept
  BY <1>1 DEF SameLoops, Kept
<1>3. InnerApart'
  BY <1>1, <1>2 DEF InnerApart, SameLoops, Kept
<1>4. Entered'
  BY <1>1 DEF Entered, SameLoops
<1> QED
  BY <1>2, <1>3, <1>4

\* What is left to show of a step that starts no loop and advances none.
LEMMA LoopsGoOn ==
    ASSUME IInv, SameLoops, pMap' = pMap,
           \A i \in 1 .. Depth' : loops'[i].seen = loops[i].seen,
           \A i \in Kept' : LET m == loops[i].array IN
               /\ iRef'[m] > IF m \in bound' THEN 1 ELSE 0
               /\ Ahead(arr'[m]) \cap loops[i].seen = {}
               /\ Behind(arr'[m]) \cap loops[i].start \subseteq loops[i].seen
    PROVE  Entered' /\ InnerApart' /\ OwnsArray' /\ VisitsOnce' /\ VisitsAll'
<1>1. Entered' /\ InnerApart' /\ Kept' \subseteq Kept
  BY NarrowedLoops DEF IInv
<1>2. ASSUME NEW i \in Kept'
      PROVE  /\ i \in Kept
             /\ loops'[i].stmt = loops[i].stmt
             /\ loops'[i].array = loops[i].array
             /\ loops'[i].start = loops[i].start
             /\ loops'[i].seen = loops[i].seen
  BY <1>1, <1>2 DEF SameLoops, Kept
<1>3. OwnsArray'
  BY <1>2 DEF IInv, OwnsArray
<1>4. VisitsOnce'
  BY <1>2 DEF VisitsOnce
<1>5. VisitsAll'
  BY <1>2 DEF VisitsAll
<1> QED
  BY <1>1, <1>3, <1>4, <1>5

\* What a loop that nothing disturbed may rely on.
LEMMA KeptLoop ==
    ASSUME IInv, NEW i \in Kept
    PROVE  /\ i \in 1 .. Depth /\ loops[i] \in LoopRecords
           /\ loops[i].array \in Arrays
           /\ Live(loops[i].array)
           /\ iRef[loops[i].array] > IF loops[i].array \in bound THEN 1 ELSE 0
           /\ Ahead(arr[loops[i].array]) \cap loops[i].seen = {}
           /\ Behind(arr[loops[i].array]) \cap loops[i].start
                 \subseteq loops[i].seen
<1>1. loops \in Seq(LoopRecords) /\ iRef \in [Arrays -> Nat]
  BY DEF IInv, TypeOK, LoopRecords
<1>2. i \in 1 .. Depth /\ loops[i] \in LoopRecords
  BY <1>1 DEF Kept, Depth
<1>3. loops[i].array \in Arrays
  BY <1>2 DEF LoopRecords
<1>4. /\ iRef[loops[i].array] > IF loops[i].array \in bound THEN 1 ELSE 0
      /\ iRef[loops[i].array] \in Nat
  BY <1>1, <1>3 DEF IInv, OwnsArray
<1>5. Live(loops[i].array)
  BY <1>4 DEF Live
<1> QED
  BY <1>2, <1>3, <1>4, <1>5 DEF IInv, VisitsOnce, VisitsAll

\* The innermost loop moves its own cursor, and no other kept loop has it.
LEMMA StepApart ==
    ASSUME IInv, loops # <<>>
    PROVE  /\ Map \in Arrays
           /\ \A i \in Kept : /\ i < Depth => loops[i].array # Map
                              /\ i = Depth => loops[i].array = Map
<1>1. Depth \in 1 .. Depth
  BY OuterLoops DEF IInv
<1>2. Map \in Arrays
  BY <1>1 DEF IInv, Entered, Map, Top
<1> QED
  BY <1>1, <1>2, KeptLoop DEF IInv, InnerApart, OwnsArray, Map, Top

LEMMA LeavingLoops ==
    ASSUME IInv, loops # <<>>, loops' = Outer
    PROVE  /\ SameLoops
           /\ Depth' = Depth - 1
           /\ loops' \in Seq(LoopRecords)
           /\ \A i \in 1 .. Depth' : loops'[i].seen = loops[i].seen
BY OuterLoops DEF IInv, SameLoops, Depth
-----------------------------------------------------------------------------
(* The invariant *)

LEMMA InitInv ==
    ASSUME Init
    PROVE  IInv
<1>1. /\ \A m \in Arrays : arr[m].seq = <<>> /\ arr[m].left = 0
      /\ loops = <<>> /\ Depth = 0
  BY DEF Init, Depth
<1>2. TypeOK
  BY <1>1 DEF Init, TypeOK
<1>3. EntriesDistinct
  BY <1>1 DEF EntriesDistinct, NoRepeats
<1>4. Kept = {}
  BY <1>1 DEF Kept
<1> QED
  BY <1>1, <1>2, <1>3, <1>4
     DEF IInv, Entered, InnerApart, OwnsArray, VisitsOnce, VisitsAll

\* A step that only drops the innermost loop.
LEMMA LeaveInv ==
    ASSUME IInv, loops # <<>>, loops' = Outer,
           UNCHANGED <<arr, iRef, bound, pMap>>
    PROVE  IInv'
<1>1. SameLoops /\ \A i \in 1 .. Depth' : loops'[i].seen = loops[i].seen
  BY LeavingLoops
<1>2. TypeOK' /\ EntriesDistinct'
  BY LeavingLoops DEF IInv, TypeOK, EntriesDistinct, LoopRecords
<1>3. Kept' \subseteq Kept
  BY <1>1, NarrowedLoops DEF IInv
<1>4. Entered' /\ InnerApart' /\ OwnsArray' /\ VisitsOnce' /\ VisitsAll'
  BY <1>1, <1>3, KeptLoop, LoopsGoOn
<1> QED
  BY <1>2, <1>4 DEF IInv

\* The array of a loop that is not lost is not a released one.
LEMMA StrayInv ==
    ASSUME IInv, Stray
    PROVE  IInv'
<1>1. CASE loops' = Outer
  BY <1>1, LeaveInv DEF Stray
<1>2. CASE loops' = Append(Outer, [Top EXCEPT !.body = TRUE])
  <2>1. /\ loops' \in Seq(LoopRecords)
        /\ Depth' = Depth
        /\ \A i \in 1 .. Depth : /\ loops'[i].stmt = loops[i].stmt
                                 /\ loops'[i].array = loops[i].array
                                 /\ loops'[i].start = loops[i].start
                                 /\ loops'[i].seen = loops[i].seen
                                 /\ loops'[i].lost = loops[i].lost
    <3>1. [Top EXCEPT !.body = TRUE] \in LoopRecords
      BY OuterLoops DEF IInv, Stray, LoopRecords
    <3>2. /\ loops' \in Seq(LoopRecords)
          /\ Len(loops') = Depth
          /\ \A i \in 1 .. Depth - 1 : loops'[i] = loops[i]
          /\ loops'[Depth] = [Top EXCEPT !.body = TRUE]
      BY <1>2, <3>1, OuterLoops, AppendProperties DEF IInv, Stray
    <3> QED
      BY <3>2, OuterLoops DEF IInv, Stray, Depth, Top, LoopRecords
  <2>2. SameLoops
    BY <2>1, OuterLoops DEF IInv, Stray, SameLoops
  <2>3. TypeOK' /\ EntriesDistinct'
    BY <2>1 DEF IInv, Stray, TypeOK, EntriesDistinct, LoopRecords
  <2>4. Kept' \subseteq Kept
    BY <2>2, NarrowedLoops DEF IInv, Stray
  <2>5. Entered' /\ InnerApart' /\ OwnsArray' /\ VisitsOnce' /\ VisitsAll'
    BY <2>1, <2>2, <2>4, KeptLoop, LoopsGoOn DEF Stray
  <2> QED
    BY <2>3, <2>5 DEF IInv
<1> QED
  BY <1>1, <1>2 DEF Stray

LEMMA FinishInv ==
    ASSUME IInv, Finish
    PROVE  IInv'
<1>1. /\ loops # <<>> /\ iRef[Map] > 0
      /\ loops' = Outer /\ pMap' = pMap /\ bound' = bound
      /\ arr' = [arr EXCEPT ![Map] = Rewound(@)]
      /\ iRef' = [iRef EXCEPT ![Map] = @ - 1]
  BY DEF Finish, Live
<1>2. /\ Map \in Arrays
      /\ iRef[Map] - 1 \in Nat
      /\ Rewound(arr[Map]) \in Cursors /\ NoRepeats(Rewound(arr[Map]))
  <2>1. Map \in Arrays
    BY <1>1, StepApart
  <2>2. arr[Map] \in Cursors /\ NoRepeats(arr[Map])
    BY <2>1, ArraysAreCursors DEF IInv
  <2>3. iRef[Map] - 1 \in Nat
    BY <1>1, <2>1 DEF IInv, TypeOK
  <2> QED
    BY <2>1, <2>2, <2>3, MovedCursor DEF CursorOpKinds
<1>3. TypeOK' /\ EntriesDistinct'
  BY <1>1, <1>2, LeavingLoops
     DEF IInv, TypeOK, EntriesDistinct, LoopRecords, Cursors
<1>4. ASSUME NEW i \in Kept'
      PROVE  i \in Kept /\ loops[i].array # Map
  <2>1. i \in Kept
    BY <1>1, <1>4, LeavingLoops, NarrowedLoops DEF IInv
  <2>2. i < Depth
    BY <1>1, <1>4, LeavingLoops, OuterLoops DEF IInv, Kept
  <2> QED
    BY <1>1, <2>1, <2>2, StepApart
<1>5. Entered' /\ InnerApart' /\ OwnsArray' /\ VisitsOnce' /\ VisitsAll'
  <2>1. ASSUME NEW i \in Kept'
        PROVE  /\ iRef'[loops[i].array] = iRef[loops[i].array]
               /\ arr'[loops[i].array] = arr[loops[i].array]
    BY <1>1, <1>4, <2>1, KeptLoop DEF IInv, TypeOK
  <2> QED
    BY <1>1, <1>4, <2>1, LeavingLoops, KeptLoop, LoopsGoOn
<1> QED
  BY <1>3, <1>5 DEF IInv

\* The script at work on one array, the loops as they are.
LEMMA ArrayInv ==
    ASSUME IInv, loops' = loops, pMap' = pMap,
           bound' \subseteq Arrays, iRef' \in [Arrays -> Nat],
           NEW m \in Arrays, NEW N \in Cursors, NoRepeats(N),
           arr' = [arr EXCEPT ![m] = N],
           \A i \in Kept : LET a == loops[i].array IN
              /\ iRef'[a] > IF a \in bound' THEN 1 ELSE 0
              /\ a = m => /\ Ahead(N) \cap loops[i].seen = {}
                         /\ Behind(N) \cap loops[i].start \subseteq loops[i].seen
    PROVE  IInv'
<1>1. SameLoops
  BY DEF IInv, TypeOK, SameLoops, Depth
<1>2. TypeOK' /\ EntriesDistinct'
  BY DEF IInv, TypeOK, EntriesDistinct, LoopRecords, Cursors
<1>3. Kept' \subseteq Kept
  BY <1>1, NarrowedLoops DEF IInv
<1>4. ASSUME NEW i \in Kept'
      PROVE  LET a == loops[i].array IN
             /\ iRef'[a] > IF a \in bound' THEN 1 ELSE 0
             /\ Ahead(arr'[a]) \cap loops[i].seen = {}
             /\ Behind(arr'[a]) \cap loops[i].start \subseteq loops[i].seen
  <2>1. i \in Kept /\ loops[i].array \in Arrays
    BY <1>3, KeptLoop
  <2>2. arr'[loops[i].array] =
           IF loops[i].array = m THEN N ELSE arr[loops[i].array]
    BY <2>1 DEF IInv, TypeOK
  <2> QED
    BY <2>1, <2>2, KeptLoop
<1>5. Entered' /\ InnerApart' /\ OwnsArray' /\ VisitsOnce' /\ VisitsAll'
  BY <1>1, <1>4, LoopsGoOn
<1> QED
  BY <1>2, <1>5 DEF IInv

\* A new array is at an address no kept loop walks.
LEMMA CreateInv ==
    ASSUME IInv, NEW m \in Arrays, Create(m)
    PROVE  IInv'
<1> DEFINE N == [seq |-> <<>>, left |-> 0]
<1>1. N \in Cursors /\ NoRepeats(N)
  BY DEF Cursors, NoRepeats
<1>2. /\ arr' = [arr EXCEPT ![m] = N] /\ ~Live(m)
      /\ loops' = loops /\ pMap' = pMap
      /\ bound' = bound \cup {m} /\ iRef' = [iRef EXCEPT ![m] = 1]
  BY DEF Create
<1>3. bound' \subseteq Arrays /\ iRef' \in [Arrays -> Nat]
  BY <1>2 DEF IInv, TypeOK
<1>4. ASSUME NEW i \in Kept
      PROVE  LET a == loops[i].array IN
             /\ iRef'[a] > IF a \in bound' THEN 1 ELSE 0
             /\ a # m
  BY <1>2, KeptLoop DEF IInv, TypeOK
<1> QED
  BY <1>1, <1>2, <1>3, <1>4, ArrayInv

\* The variable drops its count, a kept loop over the array has another.
LEMMA DropInv ==
    ASSUME IInv, NEW m \in Arrays, Drop(m)
    PROVE  IInv'
<1>1. /\ m \in bound /\ iRef[m] > 0
      /\ loops' = loops /\ pMap' = pMap /\ arr' = arr
      /\ bound' = bound \ {m} /\ iRef' = [iRef EXCEPT ![m] = @ - 1]
  BY DEF Drop, Live
<1>2. bound' \subseteq Arrays /\ iRef' \in [Arrays -> Nat]
  BY <1>1 DEF IInv, TypeOK
<1>3. /\ arr[m] \in Cursors /\ NoRepeats(arr[m])
      /\ arr' = [arr EXCEPT ![m] = arr[m]]
  BY <1>1, ArraysAreCursors DEF IInv, TypeOK
<1>4. ASSUME NEW i \in Kept
      PROVE  LET a == loops[i].array IN
             iRef'[a] > IF a \in bound' THEN 1 ELSE 0
  <2>1. /\ loops[i].array \in Arrays
        /\ iRef[loops[i].array] > IF loops[i].array \in bound THEN 1 ELSE 0
    BY KeptLoop
  <2>2. CASE loops[i].array = m
    BY <1>1, <2>1, <2>2 DEF IInv, TypeOK
  <2>3. CASE loops[i].array # m
    BY <1>1, <2>1, <2>3 DEF IInv, TypeOK
  <2> QED
    BY <2>2, <2>3
<1> QED
  BY <1>1, <1>2, <1>3, <1>4, KeptLoop, ArrayInv

\* The new entry was not there when any loop started.
LEMMA PushInv ==
    ASSUME IInv, NEW m \in Arrays, NEW e \in Elems, Push(m, e)
    PROVE  IInv'
<1>1. /\ arr' = [arr EXCEPT ![m] = Extended(arr[m], e)]
      /\ UNCHANGED <<iRef, bound, pMap, loops>>
      /\ e \notin ToSet(arr[m].seq)
      /\ \A i \in 1 .. Depth : e \notin loops[i].start \cup loops[i].seen
  BY DEF Push, Unused
<1>2. /\ Extended(arr[m], e) \in Cursors
      /\ NoRepeats(Extended(arr[m], e))
      /\ Ahead(Extended(arr[m], e)) \subseteq Ahead(arr[m]) \cup {e}
      /\ Behind(Extended(arr[m], e)) \subseteq Behind(arr[m]) \cup {e}
  BY <1>1, ArraysAreCursors, ExtendedCursor DEF IInv
<1>3. bound' \subseteq Arrays /\ iRef' \in [Arrays -> Nat]
  BY <1>1 DEF IInv, TypeOK
<1>4. ASSUME NEW i \in Kept, loops[i].array = m
      PROVE  /\ Ahead(Extended(arr[m], e)) \cap loops[i].seen = {}
             /\ Behind(Extended(arr[m], e)) \cap loops[i].start
                   \subseteq loops[i].seen
  BY <1>1, <1>2, <1>4, KeptLoop
<1> QED
  BY <1>1, <1>2, <1>3, <1>4, KeptLoop, ArrayInv

LEMMA UnsetInv ==
    ASSUME IInv, NEW m \in Arrays, NEW k \in 1 .. Len(arr[m].seq), Unset(m, k)
    PROVE  IInv'
<1>1. /\ arr' = [arr EXCEPT ![m] = Without(arr[m], k)]
      /\ UNCHANGED <<iRef, bound, pMap, loops>>
  BY DEF Unset
<1>2. /\ Without(arr[m], k) \in Cursors
      /\ NoRepeats(Without(arr[m], k))
      /\ Ahead(Without(arr[m], k)) \subseteq Ahead(arr[m])
      /\ Behind(Without(arr[m], k)) \subseteq Behind(arr[m])
  BY ArraysAreCursors, WithoutCursor DEF IInv
<1>3. bound' \subseteq Arrays /\ iRef' \in [Arrays -> Nat]
  BY <1>1 DEF IInv, TypeOK
<1>4. ASSUME NEW i \in Kept, loops[i].array = m
      PROVE  /\ Ahead(Without(arr[m], k)) \cap loops[i].seen = {}
             /\ Behind(Without(arr[m], k)) \cap loops[i].start
                   \subseteq loops[i].seen
  BY <1>2, <1>4, KeptLoop
<1> QED
  BY <1>1, <1>2, <1>3, <1>4, KeptLoop, ArrayInv

\* The loops over the array are lost; the others do not see its cursor.
LEMMA MoveCursorInv ==
    ASSUME IInv, NEW m \in Arrays, NEW op \in CursorOps, MoveCursor(m, op)
    PROVE  IInv'
<1>1. /\ arr' = [arr EXCEPT ![m] = Moved(arr[m], op)]
      /\ UNCHANGED <<iRef, bound, pMap>>
      /\ loops' = [i \in 1 .. Depth |->
                     [loops[i] EXCEPT !.lost = @ \/ loops[i].array = m]]
  BY DEF MoveCursor, Losing, Depth
<1>2. /\ Moved(arr[m], op) \in Cursors
      /\ NoRepeats(Moved(arr[m], op))
  BY ForeachAssumption, ArraysAreCursors, MovedCursor DEF IInv
<1>3. loops \in Seq(LoopRecords) /\ Depth \in Nat
  BY DEF IInv, TypeOK, LoopRecords, Depth
<1>4. ASSUME NEW i \in 1 .. Depth
      PROVE  /\ loops'[i] \in LoopRecords
             /\ loops'[i].stmt = loops[i].stmt
             /\ loops'[i].array = loops[i].array
             /\ loops'[i].start = loops[i].start
             /\ loops'[i].seen = loops[i].seen
             /\ loops[i].lost => loops'[i].lost
             /\ loops[i].array = m => loops'[i].lost
  <2>1. loops[i] \in LoopRecords
    BY <1>3 DEF Depth
  <2>2. loops'[i] = [loops[i] EXCEPT !.lost = @ \/ loops[i].array = m]
    BY <1>1
  <2> QED
    BY <2>1, <2>2 DEF LoopRecords
<1>5. loops' \in Seq(LoopRecords) /\ Depth' = Depth
  BY <1>1, <1>3, <1>4 DEF Depth
<1>6. SameLoops
  BY <1>3, <1>4, <1>5 DEF SameLoops
<1>7. TypeOK' /\ EntriesDistinct'
  BY <1>1, <1>2, <1>5
     DEF IInv, TypeOK, EntriesDistinct, LoopRecords, Cursors
<1>8. ASSUME NEW i \in Kept'
      PROVE  i \in Kept /\ arr'[loops[i].array] = arr[loops[i].array]
  <2>1. i \in Kept /\ loops[i].array # m
    BY <1>1, <1>4, <1>5, <1>6, <1>8, NarrowedLoops DEF IInv, Kept
  <2> QED
    BY <1>1, <2>1, KeptLoop DEF IInv, TypeOK
<1>9. Entered' /\ InnerApart' /\ OwnsArray' /\ VisitsOnce' /\ VisitsAll'
  BY <1>1, <1>4, <1>5, <1>6, <1>8, KeptLoop, LoopsGoOn
<1> QED
  BY <1>7, <1>9 DEF IInv

\* The innermost loop moves its own cursor over one entry, and has seen it.
LEMMA YieldInv ==
    ASSUME IInv, Yield
    PROVE  IInv'
<1> DEFINE c == Current(arr[Map])
           N == Advance(arr[Map])
           t == [Top EXCEPT !.body = TRUE, !.seen = @ \cup {c}]
<1>1. /\ loops # <<>> /\ arr[Map].left > 0
      /\ arr' = [arr EXCEPT ![Map] = N]
      /\ loops' = Append(Outer, t)
      /\ UNCHANGED <<iRef, bound, pMap>>
  BY DEF Yield
<1>2. Map \in Arrays /\ Top \in LoopRecords /\ Depth \in Nat \ {0}
  BY <1>1, StepApart, OuterLoops DEF IInv
<1>3. /\ N \in Cursors /\ NoRepeats(N) /\ c \in Elems
      /\ Ahead(N) \subseteq Ahead(arr[Map]) \ {c}
      /\ Behind(N) \subseteq Behind(arr[Map]) \cup {c}
  BY <1>1, <1>2, ArraysAreCursors, AdvanceCursor DEF IInv
<1> HIDE DEF c, N
<1>4. /\ t \in LoopRecords /\ t.stmt = Top.stmt /\ t.array = Top.array
      /\ t.start = Top.start /\ t.lost = Top.lost /\ t.seen = Top.seen \cup {c}
  BY <1>2, <1>3 DEF LoopRecords
<1> HIDE DEF t
<1>5. /\ loops' \in Seq(LoopRecords) /\ Depth' = Depth
      /\ \A i \in 1 .. Depth - 1 : loops'[i] = loops[i]
      /\ loops'[Depth] = t /\ Top = loops[Depth]
  <2>1. /\ Outer \in Seq(LoopRecords) /\ Len(Outer) = Depth - 1
        /\ \A i \in 1 .. Depth - 1 : Outer[i] = loops[i]
    BY <1>1, OuterLoops DEF IInv
  <2>2. /\ loops' \in Seq(LoopRecords) /\ Len(loops') = Depth
        /\ \A i \in 1 .. Depth - 1 : loops'[i] = loops[i]
        /\ loops'[Depth] = t
    BY <1>1, <1>2, <1>4, <2>1, AppendProperties
  <2> QED
    BY <2>2 DEF Depth, Top
<1>6. SameLoops
  BY <1>2, <1>4, <1>5 DEF SameLoops
<1>7. Entered' /\ InnerApart' /\ Kept' \subseteq Kept
  BY <1>1, <1>6, NarrowedLoops DEF IInv
<1>8. TypeOK' /\ EntriesDistinct'
  BY <1>1, <1>2, <1>3, <1>5
     DEF IInv, TypeOK, EntriesDistinct, LoopRecords, Cursors
<1>9. ASSUME NEW i \in Kept'
      PROVE  LET m == loops'[i].array IN
             /\ pMap'[loops'[i].stmt] = m
             /\ iRef'[m] > IF m \in bound' THEN 1 ELSE 0
             /\ Ahead(arr'[m]) \cap loops'[i].seen = {}
             /\ Behind(arr'[m]) \cap loops'[i].start \subseteq loops'[i].seen
  <2>1. /\ i \in Kept /\ i \in 1 .. Depth
        /\ loops'[i].array = loops[i].array /\ loops'[i].stmt = loops[i].stmt
        /\ loops'[i].start = loops[i].start
    BY <1>5, <1>6, <1>7 DEF SameLoops, Kept
  <2>2. /\ pMap'[loops'[i].stmt] = loops'[i].array
        /\ iRef'[loops'[i].array] > IF loops'[i].array \in bound' THEN 1 ELSE 0
    BY <1>1, <2>1 DEF IInv, OwnsArray
  <2>3. CASE i < Depth
    <3>1. loops[i].array # Map /\ loops'[i].seen = loops[i].seen
      <4>1. i \in 1 .. Depth - 1
        BY <1>2, <2>1, <2>3
      <4>2. loops[i].array # Map
        BY <1>1, <2>1, <2>3, StepApart
      <4> QED
        BY <1>5, <4>1, <4>2
    <3>2. arr'[loops[i].array] = arr[loops[i].array]
      BY <1>1, <2>1, <3>1, KeptLoop DEF IInv, TypeOK
    <3> QED
      BY <2>1, <2>2, <3>1, <3>2, KeptLoop
  <2>4. CASE i = Depth
    <3>1. /\ loops[i].array = Map /\ loops'[i].seen = loops[i].seen \cup {c}
      BY <1>1, <1>4, <1>5, <2>1, <2>4, StepApart
    <3>2. arr'[loops[i].array] = N
      BY <1>1, <1>2, <3>1 DEF IInv, TypeOK
    <3>3. /\ Ahead(arr[Map]) \cap loops[i].seen = {}
          /\ Behind(arr[Map]) \cap loops[i].start \subseteq loops[i].seen
      BY <2>1, <3>1, KeptLoop
    <3> QED
      BY <1>3, <2>1, <2>2, <3>1, <3>2, <3>3
  <2> QED
    BY <1>2, <2>1, <2>3, <2>4
<1>10. OwnsArray' /\ VisitsOnce' /\ VisitsAll'
  BY <1>9 DEF OwnsArray, VisitsOnce, VisitsAll
<1> QED
  BY <1>7, <1>8, <1>10 DEF IInv

\* The new loop has everything ahead of it, and a count of its own.  The
\* loops over its array, and those of its statement, are lost.
LEMMA StartInv ==
    ASSUME IInv, NEW l \in Statements, NEW m \in Arrays, Start(l, m)
    PROVE  IInv'
<1> DEFINE N == Rewound(arr[m])
           t == [stmt |-> l, array |-> m, body |-> FALSE, lost |-> FALSE,
                 start |-> ToSet(arr[m].seq), seen |-> {}]
           old == [i \in 1 .. Depth |->
                     [loops[i] EXCEPT
                        !.lost = @ \/ (loops[i].array = m \/ loops[i].stmt = l)]]
<1>1. /\ m \in bound /\ iRef[m] > 0
      /\ arr' = [arr EXCEPT ![m] = N]
      /\ iRef' = [iRef EXCEPT ![m] = @ + 1]
      /\ pMap' = [pMap EXCEPT ![l] = m]
      /\ loops' = Append(old, t)
      /\ bound' = bound
  BY DEF Start, Counted, Live, Losing, Depth
<1>2. /\ N \in Cursors /\ NoRepeats(N) /\ Behind(N) = {}
      /\ ToSet(arr[m].seq) \subseteq Elems
  BY ArraysAreCursors, MovedCursor DEF IInv, Cursors, ToSet, CursorOpKinds
<1>3. loops \in Seq(LoopRecords) /\ Depth \in Nat
  BY DEF IInv, TypeOK, LoopRecords, Depth
<1> HIDE DEF N
<1>4. t \in LoopRecords
  BY <1>2 DEF LoopRecords
<1>5. ASSUME NEW i \in 1 .. Depth
      PROVE  /\ old[i] \in LoopRecords
             /\ old[i].stmt = loops[i].stmt
             /\ old[i].array = loops[i].array
             /\ old[i].start = loops[i].start
             /\ old[i].seen = loops[i].seen
             /\ ~old[i].lost => /\ ~loops[i].lost
                              /\ loops[i].array # m /\ loops[i].stmt # l
  <2>1. loops[i] \in LoopRecords
    BY <1>3 DEF Depth
  <2>2. old[i] = [loops[i] EXCEPT
                    !.lost = @ \/ (loops[i].array = m \/ loops[i].stmt = l)]
    OBVIOUS
  <2> HIDE DEF old
  <2> QED
    BY <2>1, <2>2 DEF LoopRecords
<1>6. old \in Seq(LoopRecords) /\ Len(old) = Depth
  <2>1. old = [i \in 1 .. Depth |-> old[i]]
    OBVIOUS
  <2> HIDE DEF old
  <2> QED
    BY <1>3, <1>5, <2>1
<1> HIDE DEF old
<1>7. /\ loops' \in Seq(LoopRecords) /\ Depth' = Depth + 1
      /\ \A i \in 1 .. Depth : loops'[i] = old[i]
      /\ loops'[Depth + 1].stmt = l /\ loops'[Depth + 1].array = m
      /\ loops'[Depth + 1].seen = {}
  <2> HIDE DEF t
  <2>1. /\ loops' \in Seq(LoopRecords) /\ Len(loops') = Depth + 1
        /\ \A i \in 1 .. Depth : loops'[i] = old[i]
        /\ loops'[Depth + 1] = t
    BY <1>1, <1>3, <1>4, <1>6, AppendProperties
  <2> QED
    BY <2>1 DEF t, Depth
<1>8. TypeOK' /\ EntriesDistinct'
  BY <1>1, <1>2, <1>7
     DEF IInv, TypeOK, EntriesDistinct, LoopRecords, Cursors
<1>9. \A i \in 1 .. Depth' : i \in 1 .. Depth \/ i = Depth + 1
  BY <1>3, <1>7
<1>10. Entered'
  <2>1. ASSUME NEW i \in 1 .. Depth'
        PROVE  pMap'[loops'[i].stmt] \in Arrays
    <3>1. CASE i = Depth + 1
      <4>1. loops'[i].stmt = l /\ pMap'[l] = m
        BY <1>1, <1>7, <3>1 DEF IInv, TypeOK
      <4> QED
        BY <4>1
    <3>2. CASE i \in 1 .. Depth
      <4>1. /\ pMap[loops[i].stmt] \in Arrays
            /\ loops'[i].stmt = loops[i].stmt
            /\ loops[i].stmt \in Statements
        BY <1>3, <1>5, <1>7, <3>2 DEF IInv, Entered, LoopRecords, Depth
      <4>2. pMap'[loops[i].stmt] \in {m, pMap[loops[i].stmt]}
        BY <1>1, <4>1 DEF IInv, TypeOK
      <4> QED
        BY <4>1, <4>2
    <3> QED
      BY <1>9, <3>1, <3>2
  <2> QED
    BY <2>1 DEF Entered
<1>11. ASSUME NEW i \in Kept', i # Depth + 1
       PROVE  /\ i \in Kept
              /\ loops[i].array # m /\ loops[i].stmt # l
              /\ loops'[i].stmt = loops[i].stmt
              /\ loops'[i].array = loops[i].array
              /\ loops'[i].start = loops[i].start
              /\ loops'[i].seen = loops[i].seen
  BY <1>5, <1>7, <1>9, <1>11 DEF Kept
<1>12. InnerApart'
  <2>1. ASSUME NEW i \in Kept', NEW j \in 1 .. Depth', i < j
        PROVE  /\ loops'[j].stmt # loops'[i].stmt
               /\ pMap'[loops'[j].stmt] # loops'[i].array
    <3>1. i # Depth + 1
      BY <1>3, <1>7, <2>1
    <3>2. CASE j = Depth + 1
      <4>1. loops'[j].stmt = l /\ pMap'[l] = m
        BY <1>1, <1>7, <3>2 DEF IInv, TypeOK
      <4> QED
        BY <1>11, <3>1, <4>1
    <3>3. CASE j \in 1 .. Depth
      <4>1. /\ loops'[j].stmt = loops[j].stmt
            /\ loops[j].stmt \in Statements
            /\ loops[j].stmt # loops[i].stmt
            /\ pMap[loops[j].stmt] # loops[i].array
        BY <1>3, <1>5, <1>7, <1>11, <2>1, <3>1, <3>3
           DEF IInv, InnerApart, LoopRecords, Depth
      <4>2. pMap'[loops[j].stmt] \in {m, pMap[loops[j].stmt]}
        BY <1>1, <4>1 DEF IInv, TypeOK
      <4> QED
        BY <1>11, <3>1, <4>1, <4>2
    <3> QED
      BY <1>9, <3>2, <3>3
  <2> QED
    BY <2>1 DEF InnerApart
<1>13. ASSUME NEW i \in Kept'
       PROVE  LET a == loops'[i].array IN
              /\ pMap'[loops'[i].stmt] = a
              /\ iRef'[a] > IF a \in bound' THEN 1 ELSE 0
              /\ Ahead(arr'[a]) \cap loops'[i].seen = {}
              /\ Behind(arr'[a]) \cap loops'[i].start \subseteq loops'[i].seen
  <2>1. CASE i = Depth + 1
    <3>1. pMap'[l] = m /\ iRef'[m] = iRef[m] + 1 /\ arr'[m] = N /\ iRef[m] \in Nat
      BY <1>1 DEF IInv, TypeOK
    <3>2. loops'[i].stmt = l /\ loops'[i].array = m /\ loops'[i].seen = {}
      BY <1>7, <2>1
    <3>3. iRef'[m] > IF m \in bound' THEN 1 ELSE 0
      BY <1>1, <3>1
    <3> QED
      BY <1>2, <3>1, <3>2, <3>3
  <2>2. CASE i # Depth + 1
    <3>1. /\ i \in Kept /\ loops[i].array # m /\ loops[i].stmt # l
          /\ loops'[i].stmt = loops[i].stmt /\ loops'[i].array = loops[i].array
          /\ loops'[i].start = loops[i].start /\ loops'[i].seen = loops[i].seen
      BY <1>11, <2>2
    <3>2. /\ loops[i].array \in Arrays /\ loops[i].stmt \in Statements
          /\ pMap[loops[i].stmt] = loops[i].array
      BY <3>1, KeptLoop DEF IInv, OwnsArray, LoopRecords
    <3>3. /\ pMap'[loops[i].stmt] = pMap[loops[i].stmt]
          /\ iRef'[loops[i].array] = iRef[loops[i].array]
          /\ arr'[loops[i].array] = arr[loops[i].array]
      BY <1>1, <3>1, <3>2 DEF IInv, TypeOK
    <3> QED
      BY <1>1, <3>1, <3>2, <3>3, KeptLoop
  <2> QED
    BY <2>1, <2>2
<1>14. OwnsArray' /\ VisitsOnce' /\ VisitsAll'
  BY <1>13 DEF OwnsArray, VisitsOnce, VisitsAll
<1> QED
  BY <1>8, <1>10, <1>12, <1>14 DEF IInv

\* Every step of the script keeps the invariant.
THEOREM StepInv ==
    ASSUME IInv, [Next]_vars
    PROVE  IInv'
<1>1. CASE UNCHANGED vars
  <2>1. UNCHANGED <<arr, iRef, bound, pMap, loops>>
    BY <1>1 DEF vars
  <2>2. Depth' = Depth /\ Kept' = Kept
    BY <2>1 DEF Depth, Kept
  <2>3. TypeOK' /\ EntriesDistinct' /\ Entered' /\ InnerApart'
    BY <2>1, <2>2 DEF IInv, TypeOK, EntriesDistinct, Entered, InnerApart
  <2>4. OwnsArray' /\ VisitsOnce' /\ VisitsAll'
    BY <2>1, <2>2 DEF IInv, OwnsArray, VisitsOnce, VisitsAll
  <2> QED
    BY <2>3, <2>4 DEF IInv
<1>2. ASSUME NEW l \in Statements, NEW m \in Arrays, Start(l, m)
      PROVE  IInv'
  BY <1>2, StartInv
<1>3. ASSUME Leave PROVE IInv'
  BY <1>3, LeaveInv DEF Leave
<1>4. ASSUME NEW m \in Arrays,
             \/ Create(m) \/ Drop(m)
             \/ \E e \in Elems : Push(m, e)
             \/ \E i \in 1 .. Len(arr[m].seq) : Unset(m, i)
             \/ \E op \in CursorOps : MoveCursor(m, op)
      PROVE  IInv'
  BY <1>4, CreateInv, DropInv, PushInv, UnsetInv, MoveCursorInv
<1> QED
  BY <1>1, <1>2, <1>3, <1>4, YieldInv, FinishInv, StrayInv DEF Next
-----------------------------------------------------------------------------
(* The theorems *)

\* IInv holds in every reachable state: what the loops outside the innermost
\* one rely on survives every step of it and of the script.
THEOREM Invariant == Spec => []IInv
BY InitInv, StepInv, PTL DEF Spec

\* The cursor never leaves its array, a count never becomes negative, whatever
\* the loops and the script do to them (vm.c, hashmap.c).
THEOREM TypeCorrect == Spec => []TypeOK
BY Invariant, PTL DEF IInv

\* The array of a loop that nothing disturbed is not released under it: the
\* count that OP_FOREACH_INIT takes is the loop's until it is done.
THEOREM ArrayOwned == Spec => []OwnsArray
BY Invariant, PTL DEF IInv

\* No element is visited twice, though the body may insert and remove any:
\* PH7_HashmapUnlinkNode moves the cursor off a node it removes, forward.
THEOREM VisitedOnce == Spec => []VisitsOnce
BY Invariant, PTL DEF IInv

\* No element that was there at the start is passed over unseen.
THEOREM AllVisited == Spec => []VisitsAll
BY Invariant, PTL DEF IInv
=============================================================================
