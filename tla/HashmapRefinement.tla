------------------------- MODULE HashmapRefinement -------------------------
(***************************************************************************)
(* Hashmap implements OrderedMap: nodes, links, buckets and counters do to *)
(* the entries what the operations of an ordered map with one cursor do.   *)
(*                                                                         *)
(* View(m) is the map an array m shows.  HashmapProofs has the sequence of *)
(* nodes each operation leaves; from it follow the entries (Shown) and how *)
(* many of them are ahead of the cursor (Shows), and these are compared    *)
(* with what the operation of the map does to a record of three fields     *)
(* (Rec).                                                                  *)
(***************************************************************************)
EXTENDS HashmapProofs

-----------------------------------------------------------------------------
(* The map an array shows.                                                   *)

\* AbstractMap, of any array.
View(m) ==
    LET s == Entries(m)
    IN  [seq  |-> [i \in 1 .. Len(s) |-> [key |-> m.node[s[i]].key, val |-> m.node[s[i]].val]],
         left |-> IF m.pCur = Nil THEN 0 ELSE Len(Walk(m, m.pCur, "prev")),
         idx  |-> m.iNextIdx]

Rec(q, l, x) == [seq |-> q, left |-> l, idx |-> x]
Ent(m, p) == [key |-> m.node[p].key, val |-> m.node[p].val]
Shown(m, s) == [i \in 1 .. Len(s) |-> Ent(m, s[i])]

\* The entries of m are s, and l of them are ahead of the cursor.
Shows(m, s, l) == Whole(m, s) /\ l \in 0 .. Len(s) /\ m.pCur = At(s, Len(s) + 1 - l)

Ents == [key : Keys, val : Values]

\* The fields of an entry.
LEMMA EntFields ==
    ASSUME NEW m, NEW p
    PROVE  Ent(m, p).key = m.node[p].key /\ Ent(m, p).val = m.node[p].val
BY DEF Ent

\* A function on 1 .. n is a sequence of length n.
LEMMA SeqMade ==
    ASSUME NEW S, NEW n \in Nat, NEW f \in [1 .. n -> S]
    PROVE  f \in Seq(S) /\ Len(f) = n /\ DOMAIN f = 1 .. n
<1>1. f \in Seq(S) /\ DOMAIN f = 1 .. n
  BY SeqDef
<1> QED BY <1>1, LenProperties

\* The entries of an order of the nodes.
LEMMA ShownOrder ==
    ASSUME NEW m, Typed(m), NEW s, IsOrder(s, DOMAIN m.node)
    PROVE  /\ Len(s) \in Nat /\ Shown(m, s) \in Seq(Ents) /\ Len(Shown(m, s)) = Len(s)
           /\ \A i \in 1 .. Len(s) : Shown(m, s)[i] = Ent(m, s[i]) /\ s[i] \in DOMAIN m.node
<1> DEFINE D == DOMAIN m.node
           n == Len(s)
<1>1. n \in Nat /\ \A i \in 1 .. n : s[i] \in D
  BY OrderFacts
<1>2. m.node \in [D -> Cell]
  BY DEF Typed, Arrays
<1>3. ASSUME NEW i \in 1 .. n PROVE Ent(m, s[i]) \in Ents
  <2>1. m.node[s[i]] \in Cell
    BY <1>1, <1>2
  <2> QED BY <2>1 DEF Cell, Ents, Ent
<1>4. Shown(m, s) \in [1 .. n -> Ents]
  BY <1>3 DEF Shown
<1>5. \A i \in 1 .. n : Shown(m, s)[i] = Ent(m, s[i])
  BY DEF Shown
<1> HIDE DEF n
<1>6. Shown(m, s) \in Seq(Ents) /\ Len(Shown(m, s)) = n
  BY <1>1, <1>4, SeqMade
<1> QED BY <1>1, <1>5, <1>6 DEF n

\* The same for the order of the list.
LEMMA ShownSeq ==
    ASSUME NEW m, NEW s, Whole(m, s)
    PROVE  /\ Len(s) \in Nat /\ Shown(m, s) \in Seq(Ents) /\ Len(Shown(m, s)) = Len(s)
           /\ \A i \in 1 .. Len(s) : Shown(m, s)[i] = Ent(m, s[i]) /\ s[i] \in DOMAIN m.node
BY ShownOrder DEF Whole, Listed, Threaded

\* The map shows the list, the distance of the cursor from its end and the index.
LEMMA ViewShown ==
    ASSUME NEW m, NEW s, NEW l, Shows(m, s, l)
    PROVE  View(m) = Rec(Shown(m, s), l, m.iNextIdx)
<1> DEFINE D == DOMAIN m.node
           n == Len(s)
           k == n + 1 - l
           pr == "prev"
<1>1. /\ IsOrder(s, D) /\ n \in Nat /\ m.nEntry = n /\ Nil \notin D /\ l \in 0 .. n /\ m.pCur = At(s, k)
      /\ Strung(s, Col(m, pr), Col(m, "next")) /\ k \in 1 .. n + 1
  <2>1. /\ IsOrder(s, D) /\ m.nEntry = n /\ Nil \notin D /\ l \in 0 .. n /\ m.pCur = At(s, k)
        /\ Strung(s, Col(m, pr), Col(m, "next"))
    BY HashmapAssumption DEF Shows, Whole, Listed, Threaded, Typed
  <2>2. n \in Nat
    BY <2>1, OrderFacts
  <2> QED BY <2>1, <2>2
<1>2. Entries(m) = s
  BY EntriesListed DEF Shows, Whole, Listed
<1>3. CASE l = 0
  <2>1. m.pCur = Nil
    BY <1>1, <1>3 DEF At
  <2> QED BY <1>2, <1>3, <2>1 DEF View, Rec, Shown, Ent
<1>4. CASE l # 0
  <2>1. k \in 1 .. n /\ k \in Int
    BY <1>1, <1>4
  <2> HIDE DEF k
  <2>2. m.pCur # Nil
    BY <1>1, <2>1, AtTyped
  <2>3. \A i \in 1 .. Len(s) : m.node[s[i]][pr] = At(s, i + 1)
    BY <1>1, OrderFacts DEF Strung, Col
  <2>4. Walk(m, m.pCur, pr) = From(s, k)
    <3>1. Len(s) <= m.nEntry /\ m.nEntry \in Nat
      BY <1>1
    <3> HIDE DEF pr
    <3> QED BY <1>1, <2>3, <3>1, WalkOrder
  <2>5. Len(From(s, k)) = l
    <3>1. n - k + 1 = l /\ l \in Nat
      BY <1>1 DEF k
    <3>2. \A i \in 1 .. l : k + i - 1 \in 1 .. n
      BY <1>1 DEF k
    <3>3. From(s, k) \in [1 .. l -> D]
      <4>1. \A i \in 1 .. n : s[i] \in D
        BY <1>1, OrderFacts
      <4> QED BY <3>1, <3>2, <4>1 DEF From
    <3> HIDE DEF n, D
    <3> QED BY <3>1, <3>3, SeqMade
  <2> QED BY <1>2, <2>2, <2>4, <2>5 DEF View, Rec, Shown, Ent
<1> QED BY <1>3, <1>4

\* The cursor is at some distance from the end.
LEMMA SomeCursor ==
    ASSUME NEW m, NEW s, Whole(m, s)
    PROVE  \E l : Shows(m, s, l)
<1> DEFINE n == Len(s)
<1>1. IsOrder(s, DOMAIN m.node) /\ m.pCur \in DOMAIN m.node \cup {Nil} /\ n \in Nat
  BY OrderFacts DEF Whole, Listed, Threaded
<1>2. CASE m.pCur = Nil
  <2>1. 0 \in 0 .. n /\ n + 1 - 0 \notin 1 .. n
    BY <1>1
  <2> QED BY <1>2, <2>1 DEF Shows, At
<1>3. CASE m.pCur # Nil
  <2>1. PICK k \in 1 .. n : s[k] = m.pCur
    <3>1. m.pCur \in DOMAIN m.node
      BY <1>1, <1>3
    <3> DEFINE D == DOMAIN m.node
    <3>2. IsOrder(s, D)
      BY <1>1
    <3> HIDE DEF D
    <3>3. \A x \in D : \E k \in 1 .. Len(s) : s[k] = x
      BY <3>2, OrderFacts
    <3> QED BY <3>1, <3>3 DEF D
  <2> HIDE DEF n
  <2>2. n + 1 - k \in 0 .. n /\ n + 1 - (n + 1 - k) = k
    BY <1>1, <2>1
  <2>3. m.pCur = At(s, n + 1 - (n + 1 - k))
    BY <2>1, <2>2 DEF At, n
  <2> QED BY <2>2, <2>3 DEF Shows, n
<1> QED BY <1>2, <1>3
-----------------------------------------------------------------------------
(* The operations of the map.                                                *)

SetLeft(M, q, l) == [M EXCEPT !.seq = q, !.left = l]
SetIdx(M, q, x) == [M EXCEPT !.seq = q, !.idx = x]

\* Two fields of a map assigned.
LEMMA RecSet ==
    ASSUME NEW q, NEW l, NEW x, NEW a, NEW b
    PROVE  SetLeft(Rec(q, l, x), a, b) = Rec(a, b, x) /\ SetIdx(Rec(q, l, x), a, b) = Rec(a, l, b)
<1>1. [Rec(q, l, x) EXCEPT !.seq = a] = Rec(a, l, x)
  BY DEF Rec
<1>2. [Rec(a, l, x) EXCEPT !.left = b] = Rec(a, b, x) /\ [Rec(a, l, x) EXCEPT !.idx = b] = Rec(a, l, b)
  BY DEF Rec
<1>3. /\ SetLeft(Rec(q, l, x), a, b) = [[Rec(q, l, x) EXCEPT !.seq = a] EXCEPT !.left = b]
      /\ SetIdx(Rec(q, l, x), a, b) = [[Rec(q, l, x) EXCEPT !.seq = a] EXCEPT !.idx = b]
  BY DEF SetLeft, SetIdx
<1> QED BY <1>1, <1>2, <1>3

\* Extended, on a map given by its fields.
LEMMA MapExtended ==
    ASSUME NEW q, NEW l, NEW x, NEW e
    PROVE  Map!Extended(Rec(q, l, x), e) = Rec(Append(q, e), IF l > 0 \/ q = <<>> THEN l + 1 ELSE 0, x)
<1> DEFINE M == Rec(q, l, x)
           L == IF l > 0 \/ q = <<>> THEN l + 1 ELSE 0
<1>1. M.seq = q /\ M.left = l
  BY DEF Rec
<1>2. Map!Extended(M, e) = SetLeft(M, Append(q, e), L)
  <2> HIDE DEF M
  <2> QED BY <1>1 DEF Map!Extended, SetLeft
<1> QED BY <1>2, RecSet

\* The moves of the cursor.
LEMMA MapCursor ==
    ASSUME NEW q, NEW l, NEW x
    PROVE  /\ Map!Rewound(Rec(q, l, x)) = Rec(q, Len(q), x)
           /\ Map!ToEnd(Rec(q, l, x)) = Rec(q, IF q = <<>> THEN 0 ELSE 1, x)
           /\ Map!Advance(Rec(q, l, x)) = Rec(q, l - 1, x)
           /\ Map!StepBack(Rec(q, l, x)) = Rec(q, IF l < Len(q) THEN l + 1 ELSE 0, x)
BY DEF Map!Rewound, Map!ToEnd, Map!Advance, Map!StepBack, Rec

\* Without, and where that leaves the cursor.
LEMMA MapWithout ==
    ASSUME NEW q, NEW l, NEW x, NEW k
    PROVE  Map!Without(Rec(q, l, x), k) = Rec(RemoveAt(q, k), IF k > Len(q) - l THEN l - 1 ELSE l, x)
<1> DEFINE M == Rec(q, l, x)
           L == IF k > Len(q) - l THEN l - 1 ELSE l
<1>1. M.seq = q /\ M.left = l
  BY DEF Rec
<1>2. Map!Passed(M) = Len(q) - l
  BY <1>1 DEF Map!Passed
<1>3. Map!RemoveAt(q, k) = RemoveAt(q, k)
  BY DEF Map!RemoveAt, RemoveAt
<1>4. Map!Without(M, k) = SetLeft(M, RemoveAt(q, k), L)
  <2> HIDE DEF M
  <2> QED BY <1>1, <1>2, <1>3 DEF Map!Without, SetLeft
<1> QED BY <1>4, RecSet

\* Without its k-th item.
LEMMA ItemRemoved ==
    ASSUME NEW S, NEW q \in Seq(S), NEW k \in 1 .. Len(q)
    PROVE  /\ RemoveAt(q, k) \in Seq(S) /\ Len(RemoveAt(q, k)) = Len(q) - 1
           /\ \A i \in 1 .. Len(q) - 1 : RemoveAt(q, k)[i] = IF i < k THEN q[i] ELSE q[i + 1]
<1> DEFINE n == Len(q)
           a == SubSeq(q, 1, k - 1)
           b == SubSeq(q, k + 1, n)
<1>1. n \in Nat /\ \A i \in 1 .. n : q[i] \in S
  BY LenProperties
<1>2. /\ a \in Seq(S) /\ Len(a) = k - 1 /\ \A i \in 1 .. k - 1 : a[i] = q[i]
  <2>1. /\ a \in Seq(S) /\ Len(a) = IF 1 <= k - 1 THEN (k - 1) - 1 + 1 ELSE 0
        /\ \A i \in 1 .. (k - 1) - 1 + 1 : a[i] = q[1 + i - 1]
    <3>1. \A i \in 1 .. k - 1 : q[i] \in S
      BY <1>1
    <3> QED BY <1>1, <3>1, SubSeqProperties
  <2> HIDE DEF a
  <2>2. (k - 1) - 1 + 1 = k - 1 /\ Len(a) = k - 1
    BY <1>1, <2>1
  <2>3. \A i \in 1 .. k - 1 : 1 + i - 1 = i
    OBVIOUS
  <2> QED BY <2>1, <2>2, <2>3
<1>3. /\ b \in Seq(S) /\ Len(b) = n - k /\ \A i \in 1 .. n - k : b[i] = q[k + i]
  <2>1. /\ b \in Seq(S) /\ Len(b) = IF k + 1 <= n THEN n - (k + 1) + 1 ELSE 0
        /\ \A i \in 1 .. n - (k + 1) + 1 : b[i] = q[(k + 1) + i - 1]
    <3>1. \A i \in k + 1 .. n : q[i] \in S
      BY <1>1
    <3> QED BY <1>1, <3>1, SubSeqProperties
  <2> HIDE DEF b
  <2>2. n - (k + 1) + 1 = n - k /\ Len(b) = n - k
    BY <1>1, <2>1
  <2>3. \A i \in 1 .. n - k : (k + 1) + i - 1 = k + i
    BY <1>1
  <2> QED BY <2>1, <2>2, <2>3
<1> HIDE DEF a, b
<1>4. /\ a \o b \in Seq(S) /\ Len(a \o b) = Len(a) + Len(b)
      /\ \A i \in 1 .. Len(a) + Len(b) : (a \o b)[i] = IF i <= Len(a) THEN a[i] ELSE b[i - Len(a)]
  BY <1>2, <1>3, ConcatProperties
<1> DEFINE c == a \o b
<1>6. RemoveAt(q, k) = c
  BY DEF RemoveAt, a, b
<1> HIDE DEF c
<1>5. ASSUME NEW i \in 1 .. n - 1 PROVE c[i] = IF i < k THEN q[i] ELSE q[i + 1]
  <2>0. i \in 1 .. Len(a) + Len(b)
    BY <1>1, <1>2, <1>3
  <2>1. CASE i < k
    <3>1. i <= Len(a) /\ i \in 1 .. k - 1
      BY <1>2, <2>1
    <3> QED BY <1>2, <1>4, <2>0, <2>1, <3>1 DEF c
  <2>2. CASE ~(i < k)
    <3>1. ~(i <= Len(a)) /\ i - Len(a) \in 1 .. n - k /\ k + (i - Len(a)) = i + 1
      BY <1>1, <1>2, <2>2
    <3> QED BY <1>3, <1>4, <2>0, <2>2, <3>1 DEF c
  <2> QED BY <2>1, <2>2
<1>7. Len(c) = n - 1 /\ c \in Seq(S)
  BY <1>1, <1>2, <1>3, <1>4 DEF c
<1> QED BY <1>5, <1>6, <1>7

-----------------------------------------------------------------------------
(* A new entry, a removed one, the cursor.                                   *)

\* A list has the length of its order, and is empty with it.
LEMMA ShownEmpty ==
    ASSUME NEW m, NEW s, Whole(m, s)
    PROVE  Shown(m, s) = <<>> <=> Len(s) = 0
<1>1. Len(Shown(m, s)) = Len(s) /\ Shown(m, s) \in Seq(Ents)
  BY ShownSeq
<1> DEFINE q == Shown(m, s)
<1> HIDE DEF q
<1>2. q = <<>> <=> Len(q) = 0
  BY <1>1, EmptySeq DEF q
<1> QED BY <1>1, <1>2 DEF q

\* Where the cursor is after a new entry.
Extent(s, l) == IF l > 0 \/ Len(s) = 0 THEN l + 1 ELSE 0

\* The list after an insertion, and its cursor.
LEMMA GrownShows ==
    ASSUME NEW m, NEW s, NEW l, Shows(m, s, l), NEW r, NEW p, NEW k, NEW v, NEW x, Grown(m, r, s, p, k, v, x)
    PROVE  Shows(r, Append(s, p), Extent(s, l))
<1> DEFINE t == Append(s, p)
           n == Len(s)
           e == Extent(s, l)
<1>1. /\ n \in Nat /\ l \in 0 .. n /\ m.pCur = At(s, n + 1 - l) /\ s \in Seq(DOMAIN m.node)
  BY OrderFacts DEF Shows, Whole, Listed, Threaded
<1>2. Whole(r, t) /\ r.pCur = IF n = 0 THEN p ELSE m.pCur
  BY DEF Grown
<1>3. Len(t) = n + 1 /\ t[n + 1] = p /\ \A i \in 1 .. n : t[i] = s[i]
  <2>1. s \in Seq(DOMAIN m.node \cup {p})
    BY <1>1
  <2> QED BY <2>1, AppendProperties
<1> HIDE DEF t
<1>4. e \in 0 .. n + 1
  BY <1>1 DEF Extent
<1>5. r.pCur = At(t, (n + 1) + 1 - e)
  <2>1. CASE n = 0
    BY <1>1, <1>2, <1>3, <2>1 DEF Extent, At
  <2>2. CASE n # 0 /\ l = 0
    BY <1>1, <1>2, <1>3, <2>2 DEF Extent, At
  <2>3. CASE n # 0 /\ l # 0
    <3>1. e = l + 1 /\ (n + 1) + 1 - e = n + 1 - l /\ n + 1 - l \in 1 .. n /\ n + 1 - l \in 1 .. n + 1
      BY <1>1, <2>3 DEF Extent
    <3> QED BY <1>1, <1>2, <1>3, <2>3, <3>1 DEF At
  <2> QED BY <2>1, <2>2, <2>3
<1> QED BY <1>2, <1>3, <1>4, <1>5 DEF Shows, t

\* The map after an insertion.
LEMMA GrownView ==
    ASSUME NEW m, NEW s, NEW l, Shows(m, s, l), NEW r, NEW p, NEW k, NEW v, NEW x, Grown(m, r, s, p, k, v, x)
    PROVE  View(r) = Rec(Append(Shown(m, s), [key |-> k, val |-> v]), Extent(s, l), x)
<1> DEFINE t == Append(s, p)
           n == Len(s)
           D == DOMAIN m.node
           e == [key |-> k, val |-> v]
<1>0. Shows(r, t, Extent(s, l)) /\ Whole(r, t) /\ Whole(m, s)
  <2>1. Shows(r, Append(s, p), Extent(s, l))
    BY GrownShows
  <2> QED BY <2>1 DEF Shows
<1>1. n \in Nat /\ s \in Seq(D) /\ \A i \in 1 .. n : s[i] \in D
  BY <1>0, OrderFacts DEF Whole, Listed, Threaded
<1>2. Len(t) = n + 1 /\ t[n + 1] = p /\ \A i \in 1 .. n : t[i] = s[i]
  <2>1. s \in Seq(D \cup {p})
    BY <1>1
  <2> QED BY <2>1, AppendProperties
<1>3. /\ r.node[p].key = k /\ r.node[p].val = v /\ r.iNextIdx = x
      /\ \A q \in D : Ent(r, q) = Ent(m, q)
  BY DEF Grown, SameData, Ent
<1> HIDE DEF t
<1> DEFINE a == Shown(r, t)
           b == Shown(m, s)
           c == Append(b, e)
<1>4. /\ a \in Seq(Ents) /\ Len(a) = n + 1 /\ b \in Seq(Ents) /\ Len(b) = n
      /\ \A i \in 1 .. n + 1 : a[i] = Ent(r, t[i])
      /\ \A i \in 1 .. n : b[i] = Ent(m, s[i])
  <2>1. Len(Shown(r, t)) = n + 1 /\ Shown(r, t) \in Seq(Ents) /\ \A i \in 1 .. n + 1 : Shown(r, t)[i] = Ent(r, t[i])
    BY <1>0, <1>2, ShownSeq
  <2>2. Len(Shown(m, s)) = n /\ Shown(m, s) \in Seq(Ents) /\ \A i \in 1 .. n : Shown(m, s)[i] = Ent(m, s[i])
    BY <1>0, ShownSeq
  <2> QED BY <2>1, <2>2
<1> HIDE DEF a, b
<1>5. e = a[n + 1] /\ e \in Ents
  <2>1. n + 1 \in 1 .. n + 1
    BY <1>1
  <2>2. e = a[n + 1]
    BY <1>2, <1>3, <1>4, <2>1 DEF Ent
  <2>3. a[n + 1] \in Ents
    <3>1. a \in [1 .. n + 1 -> Ents]
      BY <1>4, LenProperties
    <3> QED BY <2>1, <3>1
  <2> QED BY <2>2, <2>3
<1> HIDE DEF e
<1>6. c \in Seq(Ents) /\ Len(c) = n + 1 /\ c[n + 1] = e /\ \A i \in 1 .. n : c[i] = b[i]
  BY <1>4, <1>5, AppendProperties
<1> HIDE DEF c
<1>7. \A i \in 1 .. n + 1 : a[i] = c[i]
  <2> SUFFICES ASSUME NEW i \in 1 .. n + 1 PROVE a[i] = c[i]
    OBVIOUS
  <2>1. CASE i = n + 1
    BY <1>5, <1>6, <2>1
  <2>2. CASE i # n + 1
    <3>1. i \in 1 .. n
      BY <1>1, <2>2
    <3> QED BY <1>1, <1>2, <1>3, <1>4, <1>6, <3>1
  <2> QED BY <2>1, <2>2
<1>8. a = c
  BY <1>4, <1>6, <1>7, SeqEqual
<1>9. View(r) = Rec(a, Extent(s, l), x)
  BY <1>0, <1>3, ViewShown DEF a
<1> QED BY <1>8, <1>9 DEF c, b, e

\* The list after a removal, and its cursor.
LEMMA RemovedShows ==
    ASSUME NEW m, NEW s, NEW l, Shows(m, s, l), NEW r, NEW k \in 1 .. Len(s), Removed(m, r, s, k)
    PROVE  Shows(r, Less(s, k), IF k > Len(s) - l THEN l - 1 ELSE l)
<1> DEFINE t == Less(s, k)
           n == Len(s)
           c == n + 1 - l
           e == IF k > n - l THEN l - 1 ELSE l
           D == DOMAIN m.node
<1>1. /\ n \in Nat /\ l \in 0 .. n /\ m.pCur = At(s, c) /\ IsOrder(s, D) /\ Nil \notin D
      /\ (\A i \in 1 .. n : s[i] \in D) /\ \A i, j \in 1 .. n : s[i] = s[j] => i = j
  BY OrderFacts, HashmapAssumption DEF Shows, Whole, Listed, Threaded, Typed
<1>2. Whole(r, t) /\ r.pCur = IF m.pCur = s[k] THEN At(s, k + 1) ELSE m.pCur
  BY DEF Removed
<1>3. Len(t) = n - 1 /\ \A i \in Nat : At(t, i) = IF i < k THEN At(s, i) ELSE At(s, i + 1)
  BY <1>1, LessOrder
<1> HIDE DEF t
<1>4. m.pCur = s[k] <=> c = k
  BY <1>1 DEF At
<1>5. e \in 0 .. n - 1
  BY <1>1
<1>6. r.pCur = At(t, (n - 1) + 1 - e)
  <2>1. CASE k > n - l
    <3>1. (n - 1) + 1 - e = c /\ c \in Nat /\ ~(k < c)
      BY <1>1, <2>1
    <3>2. c < k \/ c = k
      BY <1>1, <3>1
    <3> HIDE DEF c, e
    <3> QED BY <1>1, <1>2, <1>3, <1>4, <3>1, <3>2
  <2>2. CASE ~(k > n - l)
    <3>1. (n - 1) + 1 - e = c - 1 /\ c - 1 \in Nat /\ ~(c - 1 < k) /\ (c - 1) + 1 = c /\ c # k
      BY <1>1, <2>2
    <3> HIDE DEF c, e
    <3> QED BY <1>1, <1>2, <1>3, <1>4, <3>1
  <2> QED BY <2>1, <2>2
<1> QED BY <1>2, <1>3, <1>5, <1>6 DEF Shows, t

\* The entries after a removal.
LEMMA RemovedShown ==
    ASSUME NEW m, NEW s, Whole(m, s), NEW r, NEW k \in 1 .. Len(s), Removed(m, r, s, k)
    PROVE  Shown(r, Less(s, k)) = RemoveAt(Shown(m, s), k)
<1> DEFINE t == Less(s, k)
           n == Len(s)
           D == DOMAIN m.node
           a == Shown(r, t)
           b == Shown(m, s)
           c == RemoveAt(b, k)
<1>1. /\ n \in Nat /\ IsOrder(s, D) /\ (\A i \in 1 .. n : s[i] \in D)
      /\ \A i, j \in 1 .. n : s[i] = s[j] => i = j
  BY OrderFacts DEF Whole, Listed, Threaded
<1>2. Whole(r, t) /\ \A q \in D \ {s[k]} : Ent(r, q) = Ent(m, q)
  BY DEF Removed, SameData, Ent
<1>3. Len(t) = n - 1 /\ \A i \in 1 .. n - 1 : t[i] = IF i < k THEN s[i] ELSE s[i + 1]
  BY <1>1, LessOrder DEF Less
<1>4. /\ a \in Seq(Ents) /\ Len(a) = n - 1 /\ b \in Seq(Ents) /\ Len(b) = n
      /\ \A i \in 1 .. n - 1 : a[i] = Ent(r, t[i])
      /\ \A i \in 1 .. n : b[i] = Ent(m, s[i])
  <2>1. Len(Shown(r, t)) = n - 1 /\ Shown(r, t) \in Seq(Ents) /\ \A i \in 1 .. n - 1 : Shown(r, t)[i] = Ent(r, t[i])
    <3>1. Whole(r, t) /\ Len(t) = n - 1
      BY <1>2, <1>3
    <3> HIDE DEF t
    <3> QED BY <3>1, ShownSeq
  <2>2. Len(Shown(m, s)) = n /\ Shown(m, s) \in Seq(Ents) /\ \A i \in 1 .. n : Shown(m, s)[i] = Ent(m, s[i])
    BY ShownSeq
  <2> QED BY <2>1, <2>2
<1> HIDE DEF a, b, t
<1>5. c \in Seq(Ents) /\ Len(c) = n - 1 /\ \A i \in 1 .. n - 1 : c[i] = IF i < k THEN b[i] ELSE b[i + 1]
  <2>1. b \in Seq(Ents) /\ k \in 1 .. Len(b)
    BY <1>4
  <2> QED BY <1>4, <2>1, ItemRemoved
<1> HIDE DEF c
<1>6. ASSUME NEW i \in 1 .. n - 1 PROVE a[i] = c[i]
  <2>0. i \in 1 .. n /\ i + 1 \in 1 .. n /\ i + 1 # i
    BY <1>1
  <2>1. CASE i < k
    <3>1. t[i] = s[i] /\ s[i] \in D \ {s[k]}
      BY <1>1, <1>3, <2>0, <2>1
    <3> QED BY <1>2, <1>4, <1>5, <2>0, <2>1, <3>1
  <2>2. CASE ~(i < k)
    <3>0. i + 1 # k
      BY <1>1, <2>2
    <3>1. t[i] = s[i + 1] /\ s[i + 1] \in D \ {s[k]}
      BY <1>1, <1>3, <2>0, <2>2, <3>0
    <3> QED BY <1>2, <1>4, <1>5, <2>0, <2>2, <3>1
  <2> QED BY <2>1, <2>2
<1>7. a = c
  BY <1>4, <1>5, <1>6, SeqEqual
<1> QED BY <1>7 DEF a, b, c, t

\* Unlinking a node removes its entry from the map (PH7_HashmapUnlinkNode).
LEMMA RemovedView ==
    ASSUME NEW m, NEW s, NEW l, Shows(m, s, l), NEW r, NEW k \in 1 .. Len(s), Removed(m, r, s, k)
    PROVE  View(r) = Map!Without(View(m), k)
<1> DEFINE e == IF k > Len(s) - l THEN l - 1 ELSE l
<1>1. Whole(m, s) /\ Len(Shown(m, s)) = Len(s) /\ r.iNextIdx = m.iNextIdx
  BY ShownSeq DEF Shows, Removed
<1>2. View(m) = Rec(Shown(m, s), l, m.iNextIdx)
  BY ViewShown
<1>3. Map!Without(View(m), k) = Rec(RemoveAt(Shown(m, s), k), e, m.iNextIdx)
  BY <1>1, <1>2, MapWithout
<1>4. Shows(r, Less(s, k), e)
  BY RemovedShows
<1> HIDE DEF e
<1>5. View(r) = Rec(Shown(r, Less(s, k)), e, r.iNextIdx)
  BY <1>4, ViewShown
<1> QED BY <1>1, <1>3, <1>5, RemovedShown

\* The cursor put on an entry, or past the end.
LEMMA CursorView ==
    ASSUME NEW m, NEW s, Whole(m, s), NEW l \in 0 .. Len(s), NEW q, q = At(s, Len(s) + 1 - l)
    PROVE  View([m EXCEPT !.pCur = q]) = Rec(Shown(m, s), l, m.iNextIdx)
<1> DEFINE g == [m EXCEPT !.pCur = q]
<1>1. IsOrder(s, DOMAIN m.node) /\ Len(s) \in Nat
  BY OrderFacts DEF Whole, Listed, Threaded
<1>2. q \in DOMAIN m.node \cup {Nil}
  BY <1>1, OrderFacts DEF At
<1>3. Whole(g, s) /\ g.node = m.node /\ g.iNextIdx = m.iNextIdx /\ g.pCur = q
  BY <1>2, CursorSet
<1> HIDE DEF g
<1>4. View(g) = Rec(Shown(g, s), l, g.iNextIdx)
  BY <1>3, ViewShown DEF Shows
<1>5. Shown(g, s) = Shown(m, s)
  BY <1>3 DEF Shown, Ent
<1> QED BY <1>3, <1>4, <1>5 DEF g

-----------------------------------------------------------------------------
(* Insertions.                                                               *)

\* Push, on a map given by its fields.
LEMMA MapPush ==
    ASSUME NEW q, NEW l, NEW x, NEW v
    PROVE  Map!Push(Rec(q, l, x), v)
             = Rec(Append(q, [key |-> x, val |-> v]), IF l > 0 \/ q = <<>> THEN l + 1 ELSE 0, x + 1)
<1> DEFINE M == Rec(q, l, x)
           e == [key |-> x, val |-> v]
           a == Append(q, e)
           L == IF l > 0 \/ q = <<>> THEN l + 1 ELSE 0
           N == Rec(a, L, x)
<1>1. M.idx = x /\ N.idx = x
  BY DEF Rec
<1>2. Map!Extended(M, e) = N
  BY MapExtended
<1>3. Map!Push(M, v) = [Map!Extended(M, e) EXCEPT !.idx = @ + 1]
  <2> HIDE DEF M
  <2> QED BY <1>1 DEF Map!Push, Map!Entry
<1> HIDE DEF a, L
<1>4. [N EXCEPT !.idx = x + 1] = Rec(a, L, x + 1)
  BY DEF Rec
<1> HIDE DEF N, M
<1>5. Map!Push(M, v) = [N EXCEPT !.idx = x + 1]
  BY <1>1, <1>2, <1>3
<1> QED BY <1>4, <1>5 DEF M, N, a, L

\* Put under a new key.
LEMMA MapPutNew ==
    ASSUME NEW q, NEW l, NEW x, NEW k, NEW v, \A i \in 1 .. Len(q) : q[i].key # k
    PROVE  Map!Put(Rec(q, l, x), k, v)
             = Rec(Append(q, [key |-> k, val |-> v]), IF l > 0 \/ q = <<>> THEN l + 1 ELSE 0,
                   IF k \in IntKeys /\ k >= x THEN k + 1 ELSE x)
<1> DEFINE M == Rec(q, l, x)
           e == [key |-> k, val |-> v]
           a == Append(q, e)
           L == IF l > 0 \/ q = <<>> THEN l + 1 ELSE 0
           N == Rec(a, L, x)
           X == IF k \in IntKeys /\ k >= x THEN k + 1 ELSE x
<1>1. M.seq = q /\ N.idx = x
  BY DEF Rec
<1>2. Map!Extended(M, e) = N
  BY MapExtended
<1> HIDE DEF a, L
<1>4. \A y : [N EXCEPT !.idx = y] = Rec(a, L, y)
  BY DEF Rec
<1> HIDE DEF N, M
<1>3. Map!Put(M, k, v) = [N EXCEPT !.idx = IF k \in IntKeys /\ k >= N.idx THEN k + 1 ELSE N.idx]
  BY <1>1, <1>2 DEF Map!Put, Map!Entry
<1>5. Map!Put(M, k, v) = [N EXCEPT !.idx = X]
  BY <1>1, <1>3
<1> HIDE DEF X
<1>6. Map!Put(M, k, v) = Rec(a, L, X)
  BY <1>4, <1>5
<1> QED BY <1>6 DEF M, a, L, X

Overwritten(q, k, e) == [i \in 1 .. Len(q) |-> IF q[i].key = k THEN e ELSE q[i]]

\* Put under a key the map has.
LEMMA MapPutOld ==
    ASSUME NEW q, NEW l, NEW x, NEW k, NEW v, \E i \in 1 .. Len(q) : q[i].key = k
    PROVE  Map!Put(Rec(q, l, x), k, v) = Rec(Overwritten(q, k, [key |-> k, val |-> v]), l, x)
<1> DEFINE M == Rec(q, l, x)
           a == Overwritten(q, k, [key |-> k, val |-> v])
<1>1. M.seq = q
  BY DEF Rec
<1>2. \A y : [M EXCEPT !.seq = y] = Rec(y, l, x)
  BY DEF Rec
<1> HIDE DEF M
<1>3. Map!Put(M, k, v) = [M EXCEPT !.seq = a]
  BY <1>1 DEF Map!Put, Map!Entry, Overwritten
<1> QED BY <1>2, <1>3 DEF M

\* The automatic index after key k.
NextIdx(m, k) == IF k \in IntKeys /\ k >= m.iNextIdx THEN k + 1 ELSE m.iNextIdx

\* The map a new entry is put into.
LEMMA PutNewView ==
    ASSUME NEW m, NEW s, NEW l, Shows(m, s, l), NEW r, NEW p, NEW k, NEW v, Grown(m, r, s, p, k, v, NextIdx(m, k)),
           \A q \in DOMAIN m.node : m.node[q].key # k
    PROVE  View(r) = Map!Put(View(m), k, v)
<1> DEFINE q == Shown(m, s)
           e == [key |-> k, val |-> v]
           x == NextIdx(m, k)
<1>1. Whole(m, s) /\ View(m) = Rec(q, l, m.iNextIdx)
  BY ViewShown DEF Shows
<1>2. \A i \in 1 .. Len(s) : s[i] \in DOMAIN m.node
  BY <1>1, OrderFacts DEF Whole, Listed, Threaded
<1>3. Len(q) = Len(s) /\ \A i \in 1 .. Len(s) : q[i] = Ent(m, s[i])
  BY <1>1, ShownSeq
<1>4. q = <<>> <=> Len(s) = 0
  BY <1>1, ShownEmpty
<1>5. View(r) = Rec(Append(q, e), Extent(s, l), x)
  BY GrownView
<1> HIDE DEF q, x
<1>6. \A i \in 1 .. Len(q) : q[i].key # k
  BY <1>2, <1>3, EntFields
<1> HIDE DEF e
<1>7. Map!Put(Rec(q, l, m.iNextIdx), k, v) = Rec(Append(q, e), IF l > 0 \/ q = <<>> THEN l + 1 ELSE 0, x)
  BY <1>6, MapPutNew DEF e, x, NextIdx
<1>8. Extent(s, l) = IF l > 0 \/ q = <<>> THEN l + 1 ELSE 0
  BY <1>4 DEF Extent
<1> QED BY <1>1, <1>5, <1>7, <1>8

\* The value of a node set overwrites its entry.
LEMMA PutOldView ==
    ASSUME NEW m, Good(m), NEW p \in DOMAIN m.node, NEW v \in Values
    PROVE  View([m EXCEPT !.node[p].val = v]) = Map!Put(View(m), m.node[p].key, v)
<1> DEFINE g == [m EXCEPT !.node[p].val = v]
           D == DOMAIN m.node
           k == m.node[p].key
           e == [key |-> k, val |-> v]
<1>1. PICK s, l : Whole(m, s) /\ Shows(m, s, l)
  BY GoodWhole, SomeCursor
<1>2. /\ Whole(g, s) /\ g.iNextIdx = m.iNextIdx /\ g.pCur = m.pCur
      /\ \A q \in D : g.node[q].key = m.node[q].key /\ g.node[q].val = IF q = p THEN v ELSE m.node[q].val
  BY <1>1, ValueSet
<1> HIDE DEF g
<1>3. /\ Len(s) \in Nat /\ (\A i \in 1 .. Len(s) : s[i] \in D) /\ \E i \in 1 .. Len(s) : s[i] = p
  BY <1>1, OrderFacts DEF Whole, Listed, Threaded
<1> DEFINE q == Shown(m, s)
           t == Shown(g, s)
<1>4. View(m) = Rec(q, l, m.iNextIdx) /\ View(g) = Rec(t, l, g.iNextIdx)
  <2>1. Shows(g, s, l)
    BY <1>1, <1>2 DEF Shows
  <2> QED BY <1>1, <2>1, ViewShown
<1>5. Len(q) = Len(s) /\ \A i \in 1 .. Len(s) : q[i] = Ent(m, s[i])
  BY <1>1, ShownSeq
<1>6. t = [i \in 1 .. Len(s) |-> Ent(g, s[i])]
  BY DEF Shown
<1> HIDE DEF q, t
<1>7. \A i \in 1 .. Len(s) : q[i].key = k <=> s[i] = p
  BY <1>3, <1>5, EntFields DEF Good, Unique
<1>8. \A i \in 1 .. Len(s) : Ent(g, s[i]) = IF q[i].key = k THEN e ELSE q[i]
  BY <1>2, <1>3, <1>5, <1>7 DEF Ent
<1> HIDE DEF e
<1>9. t = Overwritten(q, k, e)
  BY <1>5, <1>6, <1>8 DEF Overwritten
<1>10. \E i \in 1 .. Len(q) : q[i].key = k
  BY <1>3, <1>5, <1>7
<1> HIDE DEF k
<1>11. Map!Put(Rec(q, l, m.iNextIdx), k, v) = Rec(t, l, m.iNextIdx)
  BY <1>9, <1>10, MapPutOld DEF e
<1> QED BY <1>2, <1>4, <1>11 DEF g, k

\* HashmapInsert puts, or does nothing if the first table is refused.
LEMMA InsertView ==
    ASSUME NEW m, Good(m), DOMAIN m.node # Nodes, NEW k \in Keys, NEW v \in Values, NEW mem
    PROVE  LET r == HashmapInsert(m, k, v, mem) IN View(r) = View(m) \/ View(r) = Map!Put(View(m), k, v)
<1> DEFINE p == HashmapLookup(m, k)
           g == InsertKey(m, k, v, mem)
           free == {i \in k + 1 .. k + 1 + g.nEntry : HashmapLookup(g, i) = Nil}
           r == HashmapInsert(m, k, v, mem)
<1>1. r = IF p # Nil THEN [m EXCEPT !.node[p].val = v]
          ELSE IF g # m /\ Reserves(m, k) THEN [g EXCEPT !.iNextIdx = Min(free)] ELSE g
  BY DEF HashmapInsert
<1>2. /\ p # Nil => p \in DOMAIN m.node /\ m.node[p].key = k
      /\ p = Nil => \A q \in DOMAIN m.node : m.node[q].key # k
  BY HashNat, LookupProper DEF Good
<1>3. g = m \/ Added(m, g, k)
  BY KeyAdded DEF Good
<1>4. PICK s, l : Whole(m, s) /\ Shows(m, s, l)
  BY GoodWhole, SomeCursor
<1>5. (g = m /\ mem # TRUE) \/ \E c : Inserted(m, g, s, c, k, v)
  BY <1>4, KeyInserted
<1>6. Reserves(m, k) /\ Added(m, g, k) => k + 1 \in Int /\ Min(free) = k + 1
  BY FreeIndex DEF Good
<1>7. m.iNextIdx \in Int
  BY ProperTyped DEF Good
<1> HIDE DEF g, p, r, free
<1>8. CASE p # Nil
  BY <1>1, <1>2, <1>8, PutOldView DEF r
<1>9. CASE p = Nil /\ g = m
  BY <1>1, <1>9 DEF r
<1>10. CASE p = Nil /\ g # m
  <2>1. PICK c : Inserted(m, g, s, c, k, v)
    BY <1>5, <1>10
  <2>2. CASE Reserves(m, k)
    <3>1. r = [g EXCEPT !.iNextIdx = k + 1] /\ k + 1 \in Int
      BY <1>1, <1>3, <1>6, <1>10, <2>2
    <3>2. Grown(m, r, s, c, k, v, k + 1)
      BY <2>1, <3>1, GrownIndex
    <3>3. View(r) = Map!Put(View(m), k, v)
      <4>1. k + 1 = NextIdx(m, k)
        BY <2>2 DEF Reserves, NextIdx
      <4> QED BY <1>2, <1>4, <1>10, <3>2, <4>1, PutNewView
    <3> QED BY <3>3 DEF r
  <2>3. CASE ~Reserves(m, k)
    <3>1. r = g /\ Grown(m, g, s, c, k, v, m.iNextIdx)
      BY <1>1, <1>10, <2>1, <2>3, GrownSame
    <3>2. View(r) = Map!Put(View(m), k, v)
      <4>1. m.iNextIdx = NextIdx(m, k)
        BY <2>3 DEF Reserves, NextIdx
      <4> QED BY <1>2, <1>4, <1>10, <3>1, <4>1, PutNewView
    <3> QED BY <3>2 DEF r
  <2> QED BY <2>2, <2>3
<1> QED BY <1>8, <1>9, <1>10

\* array + array with one entry puts it, or has the key already.
LEMMA UnionView ==
    ASSUME NEW m, Good(m), DOMAIN m.node # Nodes, NEW k \in Keys, NEW v \in Values,
           ~IndexBehind(PH7_HashmapUnion(m, k, v))
    PROVE  LET r == PH7_HashmapUnion(m, k, v) IN View(r) = View(m) \/ View(r) = Map!Put(View(m), k, v)
<1> DEFINE p == HashmapLookup(m, k)
           g == InsertKey(m, k, v, TRUE)
           r == PH7_HashmapUnion(m, k, v)
<1>1. r = IF p = Nil THEN g ELSE m
  BY DEF PH7_HashmapUnion
<1>2. p = Nil => \A q \in DOMAIN m.node : m.node[q].key # k
  BY HashNat, LookupProper DEF Good
<1>4. PICK s, l : Whole(m, s) /\ Shows(m, s, l)
  BY GoodWhole, SomeCursor
<1>5. \E c : Inserted(m, g, s, c, k, v)
  BY <1>4, KeyInserted
<1>6. ~IndexBehind(r) /\ m.iNextIdx \in Int
  BY ProperTyped DEF Good
<1> HIDE DEF g, p, r
<1>7. CASE p # Nil
  BY <1>1, <1>7 DEF r
<1>8. CASE p = Nil
  <2>1. PICK c : Inserted(m, g, s, c, k, v)
    BY <1>5
  <2>2. r = g /\ Grown(m, g, s, c, k, v, m.iNextIdx)
    BY <1>1, <1>8, <2>1, GrownSame
  <2>3. ~(k \in IntKeys /\ k >= m.iNextIdx)
    <3>1. c \in DOMAIN g.node /\ g.node[c].key = k /\ g.iNextIdx = m.iNextIdx
      BY <2>1 DEF Inserted
    <3> QED BY <1>6, <2>2, <3>1 DEF IndexBehind
  <2>4. m.iNextIdx = NextIdx(m, k)
    BY <2>3 DEF NextIdx
  <2>5. View(r) = Map!Put(View(m), k, v)
    BY <1>2, <1>4, <1>8, <2>2, <2>4, PutNewView
  <2> QED BY <2>5 DEF r
<1> QED BY <1>7, <1>8

\* A keyless insertion pushes.
LEMMA PushView ==
    ASSUME NEW m, Good(m), DOMAIN m.node # Nodes, m.iNextIdx \in IntKeys, NEW v \in Values, NEW mem
    PROVE  LET r == InsertAuto(m, v, mem) IN View(r) = View(m) \/ View(r) = Map!Push(View(m), v)
<1> DEFINE r == InsertAuto(m, v, mem)
           x == m.iNextIdx
<1>1. PICK s, l : Whole(m, s) /\ Shows(m, s, l)
  BY GoodWhole, SomeCursor
<1>2. (r = m /\ mem # TRUE) \/ \E p : Grown(m, r, s, p, x, v, x + 1)
  BY <1>1, AutoInserted
<1> HIDE DEF r
<1>3. ASSUME NEW p, Grown(m, r, s, p, x, v, x + 1) PROVE View(r) = Map!Push(View(m), v)
  <2> DEFINE q == Shown(m, s)
             e == [key |-> x, val |-> v]
  <2>1. View(m) = Rec(q, l, x)
    BY <1>1, ViewShown
  <2>2. View(r) = Rec(Append(q, e), Extent(s, l), x + 1)
    BY <1>1, <1>3, GrownView
  <2>3. q = <<>> <=> Len(s) = 0
    BY <1>1, ShownEmpty
  <2> HIDE DEF q, e
  <2>4. Map!Push(Rec(q, l, x), v) = Rec(Append(q, e), IF l > 0 \/ q = <<>> THEN l + 1 ELSE 0, x + 1)
    BY MapPush DEF e
  <2>5. Extent(s, l) = IF l > 0 \/ q = <<>> THEN l + 1 ELSE 0
    BY <2>3 DEF Extent
  <2> QED BY <2>1, <2>2, <2>4, <2>5
<1> QED BY <1>2, <1>3 DEF r

-----------------------------------------------------------------------------
(* Removals, and the entries numbered anew.                                  *)

\* reset().
LEMMA RewoundView ==
    ASSUME NEW m, NEW s, Whole(m, s)
    PROVE  View([m EXCEPT !.pCur = m.pFirst]) = Map!Rewound(View(m))
<1> DEFINE n == Len(s)
           q == Shown(m, s)
<1>1. n \in Nat /\ m.pFirst = At(s, 1) /\ Len(q) = n
  BY ShownSeq DEF Whole, Listed, Threaded
<1>2. n \in 0 .. n /\ n + 1 - n = 1
  BY <1>1
<1>3. View([m EXCEPT !.pCur = m.pFirst]) = Rec(q, n, m.iNextIdx)
  BY <1>1, <1>2, CursorView
<1>4. PICK l : Shows(m, s, l)
  BY SomeCursor
<1>5. View(m) = Rec(q, l, m.iNextIdx)
  BY <1>4, ViewShown
<1> HIDE DEF q, n
<1>6. Map!Rewound(Rec(q, l, m.iNextIdx)) = Rec(q, n, m.iNextIdx)
  BY <1>1, MapCursor
<1> QED BY <1>3, <1>5, <1>6

\* unset() removes one entry.
LEMMA UnsetView ==
    ASSUME NEW m, Good(m), NEW p \in DOMAIN m.node
    PROVE  \E i \in 1 .. Len(View(m).seq) : View(PH7_HashmapUnlinkNode(m, p)) = Map!Without(View(m), i)
<1>1. PICK s, l : Whole(m, s) /\ Shows(m, s, l)
  BY GoodWhole, SomeCursor
<1>2. PICK k \in 1 .. Len(s) : s[k] = p
  BY <1>1, OrderFacts DEF Whole, Listed, Threaded
<1> DEFINE r == PH7_HashmapUnlinkNode(m, p)
<1>3. Removed(m, r, s, k)
  BY <1>1, <1>2, NodeUnlinked
<1> HIDE DEF r
<1>4. View(r) = Map!Without(View(m), k)
  BY <1>1, <1>3, RemovedView
<1>5. View(m).seq = Shown(m, s)
  BY <1>1, ViewShown DEF Rec
<1>6. Len(View(m).seq) = Len(s)
  BY <1>1, <1>5, ShownSeq
<1> QED BY <1>4, <1>6 DEF r

\* The array g is m without the k-th of its entries s.
EndOff(m, g, s, k) ==
    /\ Whole(g, Less(s, k)) /\ Good(g) /\ View(g) = Map!Without(View(m), k) /\ View(m).seq # <<>>
    /\ Len(View(m).seq) = Len(s)

\* The first or the last entry removed.
LEMMA EndRemoved ==
    ASSUME NEW m, Good(m), m.nEntry > 0, NEW k, NEW s, NEW l, Shows(m, s, l), k = 1 \/ k = Len(s),
           NEW g, g = PH7_HashmapUnlinkNode(m, s[k])
    PROVE  EndOff(m, g, s, k)
<1>1. Whole(m, s)
  BY DEF Shows
<1>2. k \in 1 .. Len(s)
  BY <1>1, LastOf
<1>3. Removed(m, g, s, k)
  BY <1>1, <1>2, NodeUnlinked
<1>4. s[k] \in DOMAIN m.node
  BY <1>1, <1>2, ShownSeq
<1>5. Good(g)
  BY <1>4, UnlinkGood
<1>6. View(g) = Map!Without(View(m), k)
  BY <1>2, <1>3, RemovedView
<1>7. View(m).seq = Shown(m, s)
  BY ViewShown DEF Rec
<1>8. Len(View(m).seq) = Len(s) /\ View(m).seq # <<>>
  BY <1>1, <1>2, <1>7, ShownSeq, ShownEmpty
<1> QED BY <1>3, <1>5, <1>6, <1>8 DEF Removed, EndOff

\* array_pop().
LEMMA PopView ==
    ASSUME NEW m, Good(m), m.nEntry > 0, NEW g, g = PH7_HashmapUnlinkNode(m, m.pLast)
    PROVE  View([g EXCEPT !.pCur = g.pFirst]) = Map!Pop(View(m)) /\ View(m).seq # <<>>
<1>1. PICK s, l : Whole(m, s) /\ Shows(m, s, l)
  BY GoodWhole, SomeCursor
<1> DEFINE k == Len(s)
<1>2. m.pLast = s[k]
  BY <1>1, LastOf
<1>3. EndOff(m, g, s, k)
  <2>1. g = PH7_HashmapUnlinkNode(m, s[k])
    BY <1>2
  <2>2. k = 1 \/ k = Len(s)
    OBVIOUS
  <2> HIDE DEF k
  <2> QED BY <1>1, <2>1, <2>2, EndRemoved
<1>4. View([g EXCEPT !.pCur = g.pFirst]) = Map!Rewound(View(g))
  BY <1>3, RewoundView DEF EndOff
<1> QED BY <1>3, <1>4 DEF Map!Pop, EndOff

\* The entries t, with the ranks for the integer keys.
RankedEnt(m, t, i) ==
    [key |-> IF m.node[t[i]].key \in IntKeys THEN Rank(m, t, i) ELSE m.node[t[i]].key, val |-> m.node[t[i]].val]
Ranks(m, t) == [i \in 1 .. Len(t) |-> RankedEnt(m, t, i)]

RankIn(q, i) == Cardinality({j \in 1 .. i - 1 : Map!IsInt(q[j])})
RankSeq(q) == [i \in 1 .. Len(q) |-> IF Map!IsInt(q[i]) THEN Map!Entry(RankIn(q, i), q[i].val) ELSE q[i]]

\* Renumbered, with its ranks as operators of this module.
LEMMA MapRanked ==
    ASSUME NEW M
    PROVE  Map!Renumbered(M) = SetIdx(M, RankSeq(M.seq), RankIn(M.seq, Len(M.seq) + 1))
<1>1. \A i : Map!IntsAhead(M, i) = RankIn(M.seq, i)
  BY DEF Map!IntsAhead, RankIn, Map!Cardinality, Cardinality, Map!IsInt
<1>2. [i \in 1 .. Len(M.seq) |-> IF Map!IsInt(M.seq[i]) THEN Map!Entry(Map!IntsAhead(M, i), M.seq[i].val)
                                 ELSE M.seq[i]] = RankSeq(M.seq)
  BY <1>1 DEF RankSeq
<1>3. Map!IntsAhead(M, Len(M.seq) + 1) = RankIn(M.seq, Len(M.seq) + 1)
  BY <1>1
<1> QED BY <1>2, <1>3 DEF Map!Renumbered, SetIdx

\* Renumbered, on the entries of an array.
LEMMA MapRenumbered ==
    ASSUME NEW m, Typed(m), NEW t, IsOrder(t, DOMAIN m.node), NEW l, NEW x
    PROVE  Map!Renumbered(Rec(Shown(m, t), l, x)) = Rec(Ranks(m, t), l, Rank(m, t, Len(t) + 1))
<1> DEFINE q == Shown(m, t)
           n == Len(t)
           M == Rec(q, l, x)
           a == RankSeq(q)
<1>1. n \in Nat /\ Len(q) = n /\ \A i \in 1 .. n : q[i] = Ent(m, t[i])
  BY ShownOrder
<1>2. M.seq = q
  BY DEF Rec
<1> HIDE DEF q
<1>3. Map!Renumbered(M) = SetIdx(M, a, RankIn(q, Len(q) + 1))
  <2> HIDE DEF M
  <2> QED BY <1>2, MapRanked
<1>4. \A j \in 1 .. n : Map!IsInt(q[j]) <=> m.node[t[j]].key \in IntKeys
  BY <1>1, EntFields DEF Map!IsInt
<1>5. ASSUME NEW i \in 1 .. n + 1 PROVE RankIn(q, i) = Rank(m, t, i)
  <2>1. \A j \in 1 .. i - 1 : j \in 1 .. n
    BY <1>1
  <2>2. {j \in 1 .. i - 1 : Map!IsInt(q[j])} = {j \in 1 .. i - 1 : m.node[t[j]].key \in IntKeys}
    BY <1>4, <2>1
  <2> QED BY <2>2 DEF Rank, RankIn
<1>6. ASSUME NEW i \in 1 .. n
      PROVE  (IF Map!IsInt(q[i]) THEN Map!Entry(RankIn(q, i), q[i].val) ELSE q[i]) = RankedEnt(m, t, i)
  <2>1. RankIn(q, i) = Rank(m, t, i)
    BY <1>1, <1>5
  <2>2. q[i].val = m.node[t[i]].val
    BY <1>1, EntFields
  <2>3. CASE m.node[t[i]].key \in IntKeys
    BY <1>4, <2>1, <2>2, <2>3 DEF RankedEnt, Map!Entry
  <2>4. CASE m.node[t[i]].key \notin IntKeys
    BY <1>1, <1>4, <2>4 DEF RankedEnt, Ent
  <2> QED BY <2>3, <2>4
<1>7. a = Ranks(m, t)
  BY <1>1, <1>6 DEF Ranks, RankSeq
<1>8. RankIn(q, Len(q) + 1) = Rank(m, t, n + 1)
  <2>1. n + 1 \in 1 .. n + 1
    BY <1>1
  <2> QED BY <1>1, <1>5, <2>1
<1> HIDE DEF a
<1>9. SetIdx(M, a, RankIn(q, Len(q) + 1)) = Rec(a, l, RankIn(q, Len(q) + 1))
  BY RecSet
<1> QED BY <1>3, <1>7, <1>8, <1>9 DEF q

\* array_shift().
LEMMA ShiftView ==
    ASSUME NEW m, Good(m), m.nEntry > 0, NEW g, g = PH7_HashmapUnlinkNode(m, m.pFirst)
    PROVE  View([Rehashed(g, FALSE) EXCEPT !.pCur = g.pFirst]) = Map!Shift(View(m)) /\ View(m).seq # <<>>
<1> DEFINE k == Rehashed(g, FALSE)
<1>1. PICK s, l : Whole(m, s) /\ Shows(m, s, l)
  BY GoodWhole, SomeCursor
<1>2. m.pFirst = s[1]
  BY <1>1, LastOf
<1> DEFINE t == Less(s, 1)
           n == Len(t)
<1>3. Whole(g, t) /\ Good(g) /\ View(g) = Map!Without(View(m), 1) /\ View(m).seq # <<>>
  <2>1. EndOff(m, g, s, 1)
    BY <1>1, <1>2, EndRemoved
  <2> QED BY <2>1 DEF EndOff
<1> HIDE DEF t
<1>4. /\ Typed(g) /\ IsOrder(t, DOMAIN g.node) /\ Sewn(g, t) /\ n \in Nat
      /\ g.pFirst = At(t, 1) /\ g.pLast = At(t, n) /\ \A i \in 1 .. n : t[i] \in DOMAIN g.node
  BY <1>3, SewnWhole, OrderFacts DEF Whole, Listed, Threaded
<1>5. Renumbered(k, g, t, 1 .. n, FALSE)
  BY <1>3, <1>4, NodesRehashed DEF Good, Proper
<1> HIDE DEF k
<1>6. Sewn(k, t) /\ k.pLast = g.pLast /\ k.pCur = g.pCur /\ SameVals(g, k) /\ Ranked(k, g, t, n, FALSE)
  <2>1. n \in 0 .. Len(t) /\ 1 .. n = 1 .. n
    BY <1>4
  <2>2. \A c \in 0 .. Len(t) : 1 .. n = 1 .. c => Ranked(k, g, t, c, FALSE)
    BY <1>5 DEF Renumbered
  <2> QED BY <1>4, <1>5, <2>1, <2>2 DEF Renumbered
<1>7. Whole(k, t) /\ k.pFirst = g.pFirst
  BY <1>4, <1>6, SewnWhole DEF Sewn, Threaded
<1>8. PICK e : Shows(g, t, e)
  BY <1>3, SomeCursor
<1>9. Shows(k, t, e)
  BY <1>6, <1>7, <1>8 DEF Shows
<1>10. View(k) = Rec(Shown(k, t), e, k.iNextIdx) /\ View(g) = Rec(Shown(g, t), e, g.iNextIdx)
  BY <1>8, <1>9, ViewShown
<1>11. Shown(k, t) = Ranks(g, t)
  <2>1. \A i \in 1 .. n : Ent(k, t[i]) = RankedEnt(g, t, i)
    BY <1>4, <1>6 DEF SameVals, Ranked, NewKey, Ent, RankedEnt
  <2> QED BY <2>1 DEF Shown, Ranks
<1>12. k.iNextIdx = Rank(g, t, n + 1)
  BY <1>6 DEF Ranked, NewKey
<1>13. View(k) = Map!Renumbered(View(g))
  BY <1>4, <1>10, <1>11, <1>12, MapRenumbered
<1>14. View([k EXCEPT !.pCur = k.pFirst]) = Map!Rewound(View(k))
  BY <1>7, RewoundView
<1>15. [k EXCEPT !.pCur = g.pFirst] = [k EXCEPT !.pCur = k.pFirst]
  BY <1>7
<1> QED BY <1>3, <1>13, <1>14, <1>15 DEF Map!Shift, k

-----------------------------------------------------------------------------
(* Copies, and the cursor.                                                   *)

\* The entry a copy makes of t[i].
CopiedEnt(m, t, i, b) == IF b THEN Ent(m, t[i]) ELSE RankedEnt(m, t, i)
Copied(m, t, b) == [i \in 1 .. Len(t) |-> CopiedEnt(m, t, i, b)]

\* With their keys the copies are the entries, without they are numbered.
LEMMA CopiedShown ==
    ASSUME NEW m, NEW t
    PROVE  Copied(m, t, TRUE) = Shown(m, t) /\ Copied(m, t, FALSE) = Ranks(m, t)
BY DEF Copied, CopiedEnt, Shown, Ranks

\* g shows copies of the entries t, and r those with the automatic index x.
CopiesSeen(m, t, b, g, r, x) ==
    /\ View(g) = Rec(Copied(m, t, b), Len(t), g.iNextIdx)
    /\ g.iNextIdx = IF b THEN 0 ELSE Rank(m, t, Len(t) + 1)
    /\ View(r) = Rec(Copied(m, t, b), Len(t), x)

\* The map a copy shows.
LEMMA ClonesView ==
    ASSUME NEW m, Good(m), NEW t, IsOrder(t, DOMAIN m.node), NEW b \in BOOLEAN, NEW g, Clones(g, m, t, Len(t), b),
           NEW x \in Int, NEW r, r = [g EXCEPT !.iNextIdx = x]
    PROVE  CopiesSeen(m, t, b, g, r, x)
<1> DEFINE n == Len(t)
<1>1. PICK w : /\ Whole(g, w) /\ Len(w) = n /\ g.pCur = At(w, 1)
               /\ g.iNextIdx = IF b THEN 0 ELSE Rank(m, t, n + 1)
               /\ \A i \in 1 .. n :
                     /\ g.node[w[i]].val = m.node[t[i]].val
                     /\ g.node[w[i]].key = IF m.node[t[i]].key \in BlobKeys \/ b
                                           THEN m.node[t[i]].key ELSE Rank(m, t, i)
  BY DEF Clones
<1>2. n \in Nat /\ \A i \in 1 .. n : t[i] \in DOMAIN m.node
  BY OrderFacts
<1>3. n \in 0 .. n /\ n + 1 - n = 1
  BY <1>2
<1>4. \A i \in 1 .. n : m.node[t[i]].key \in BlobKeys <=> m.node[t[i]].key \notin IntKeys
  <2> SUFFICES ASSUME NEW i \in 1 .. n PROVE m.node[t[i]].key \in BlobKeys <=> m.node[t[i]].key \notin IntKeys
    OBVIOUS
  <2>1. m.node[t[i]].key \in Keys
    BY <1>2, ProperTyped DEF Good
  <2> QED BY <2>1, KeyKinds
<1>5. \A i \in 1 .. n : Ent(g, w[i]) = CopiedEnt(m, t, i, b)
  <2> SUFFICES ASSUME NEW i \in 1 .. n PROVE Ent(g, w[i]) = CopiedEnt(m, t, i, b)
    OBVIOUS
  <2>1. g.node[w[i]].val = m.node[t[i]].val
    BY <1>1
  <2>2. CASE b
    BY <1>1, <2>1, <2>2 DEF Ent, CopiedEnt
  <2>3. CASE ~b
    <3>1. g.node[w[i]].key = IF m.node[t[i]].key \in IntKeys THEN Rank(m, t, i) ELSE m.node[t[i]].key
      BY <1>1, <1>4, <2>3
    <3> QED BY <2>1, <2>3, <3>1 DEF Ent, CopiedEnt, RankedEnt
  <2> QED BY <2>2, <2>3
<1>6. Shown(g, w) = Copied(m, t, b)
  BY <1>1, <1>5 DEF Shown, Copied
<1>7. Whole(r, w) /\ r.node = g.node /\ r.iNextIdx = x /\ r.pCur = g.pCur
  BY <1>1, IndexSet
<1> HIDE DEF n
<1>8. Shows(g, w, n) /\ Shows(r, w, n)
  BY <1>1, <1>3, <1>7 DEF Shows
<1>9. Shown(r, w) = Shown(g, w)
  BY <1>7 DEF Shown, Ent
<1>10. View(g) = Rec(Copied(m, t, b), n, g.iNextIdx) /\ View(r) = Rec(Copied(m, t, b), n, x)
  BY <1>6, <1>7, <1>8, <1>9, ViewShown
<1> QED BY <1>1, <1>10 DEF n, CopiesSeen

\* The entries turned are those of the turned list.
LEMMA ReversedShown ==
    ASSUME NEW m, NEW s, Whole(m, s)
    PROVE  Map!Reverse(Shown(m, s)) = Shown(m, Reverse(s)) /\ Len(Reverse(s)) = Len(s)
<1> DEFINE n == Len(s)
           q == Shown(m, s)
           t == Reverse(s)
<1>1. n \in Nat /\ Len(q) = n /\ \A i \in 1 .. n : q[i] = Ent(m, s[i])
  BY ShownSeq
<1>2. s \in Seq(DOMAIN m.node)
  BY OrderFacts DEF Whole, Listed, Threaded
<1>3. t = [i \in 1 .. n |-> s[(n - i) + 1]]
  BY DEF Reverse
<1>4. t \in [1 .. n -> DOMAIN m.node]
  <2>1. \A i \in 1 .. n : s[i] \in DOMAIN m.node
    BY <1>2, LenProperties
  <2>2. \A i \in 1 .. n : (n - i) + 1 \in 1 .. n
    BY <1>1
  <2> QED BY <1>3, <2>1, <2>2
<1> HIDE DEF t, q
<1>5. Len(t) = n
  <2> DEFINE D == DOMAIN m.node
  <2> HIDE DEF n, D
  <2> QED BY <1>1, <1>4, SeqMade DEF D
<1>6. Map!Reverse(q) = [i \in 1 .. n |-> q[(n - i) + 1]]
  BY <1>1 DEF Map!Reverse
<1>7. \A i \in 1 .. n : q[(n - i) + 1] = Ent(m, t[i])
  <2>1. \A i \in 1 .. n : (n - i) + 1 \in 1 .. n
    BY <1>1
  <2> QED BY <1>1, <1>3, <2>1
<1>8. Shown(m, t) = [i \in 1 .. n |-> Ent(m, t[i])]
  BY <1>5 DEF Shown
<1> QED BY <1>5, <1>6, <1>7, <1>8 DEF q, t

MapTurned(M) == [M EXCEPT !.seq = Map!Reverse(M.seq)]

\* Turn and TurnKeepingKeys, on a map given by its fields.
LEMMA MapTurn ==
    ASSUME NEW q, NEW l, NEW x
    PROVE  /\ Map!Turn(Rec(q, l, x)) = Map!Rewound(Map!Renumbered(Rec(Map!Reverse(q), l, x)))
           /\ Map!TurnKeepingKeys(Rec(q, l, x)) = Map!Rewound(Rec(Map!Reverse(q), l, 0))
<1> DEFINE M == Rec(q, l, x)
<1>1. M.seq = q /\ [M EXCEPT !.seq = Map!Reverse(q)] = Rec(Map!Reverse(q), l, x)
  <2> DEFINE y == Map!Reverse(q)
  <2> HIDE DEF y
  <2>1. M.seq = q /\ [M EXCEPT !.seq = y] = Rec(y, l, x)
    BY DEF Rec
  <2> QED BY <2>1 DEF y
<1>2. SetIdx(M, Map!Reverse(q), 0) = Rec(Map!Reverse(q), l, 0)
  BY RecSet
<1> HIDE DEF M
<1>3. Map!Turn(M) = Map!Rewound(Map!Renumbered([M EXCEPT !.seq = Map!Reverse(q)]))
  BY <1>1 DEF Map!Turn
<1>4. Map!TurnKeepingKeys(M) = Map!Rewound(SetIdx(M, Map!Reverse(q), 0))
  BY <1>1 DEF Map!TurnKeepingKeys, SetIdx
<1> QED BY <1>1, <1>2, <1>3, <1>4 DEF M

\* array_reverse().
LEMMA TurnedView ==
    ASSUME NEW m, Good(m), NEW b \in BOOLEAN, NEW r,
           r = HashmapInsertNodes(m, PH7_NewHashmap, Walk(m, m.pLast, "next"), b)
    PROVE  View(r) = IF b THEN Map!TurnKeepingKeys(View(m)) ELSE Map!Turn(View(m))
<1>1. PICK s, l : Whole(m, s) /\ Shows(m, s, l)
  BY GoodWhole, SomeCursor
<1> DEFINE t == Reverse(s)
           n == Len(t)
           q == Shown(m, t)
           x == m.iNextIdx
<1>2. Walk(m, m.pLast, "next") = t /\ IsOrder(t, DOMAIN m.node)
  BY <1>1, WalkBack
<1>3. View(m) = Rec(Shown(m, s), l, x) /\ Map!Reverse(Shown(m, s)) = q
  BY <1>1, ViewShown, ReversedShown
<1> HIDE DEF t
<1>4. n \in Nat /\ Len(q) = n /\ Typed(m)
  BY <1>2, ProperTyped, ShownOrder DEF Good
<1>5. Fits(r, m, t, 1 .. n, b)
  BY <1>2, NodesInserted
<1>6. Clones(r, m, t, n, b)
  BY <1>4, <1>5 DEF Fits
<1>7. /\ View(r) = Rec(Copied(m, t, b), n, r.iNextIdx)
      /\ r.iNextIdx = IF b THEN 0 ELSE Rank(m, t, n + 1)
  <2> DEFINE k == [r EXCEPT !.iNextIdx = x]
  <2>1. x \in Int /\ k = k
    BY ProperTyped DEF Good
  <2>2. CopiesSeen(m, t, b, r, k, x)
    BY <1>2, <1>6, <2>1, ClonesView
  <2> HIDE DEF k
  <2> QED BY <2>2 DEF CopiesSeen
<1>8. CASE b
  <2>1. Copied(m, t, b) = q
    BY <1>8, CopiedShown
  <2>2. Map!TurnKeepingKeys(View(m)) = Map!Rewound(Rec(q, l, 0))
    BY <1>3, MapTurn
  <2> HIDE DEF q
  <2>3. Map!Rewound(Rec(q, l, 0)) = Rec(q, n, 0)
    BY <1>4, MapCursor
  <2> QED BY <1>7, <1>8, <2>1, <2>2, <2>3
<1>9. CASE ~b
  <2> DEFINE k == Rank(m, t, n + 1)
             a == Ranks(m, t)
  <2>1. Copied(m, t, b) = a
    BY <1>9, CopiedShown
  <2>2. Map!Turn(View(m)) = Map!Rewound(Map!Renumbered(Rec(q, l, x)))
    BY <1>3, MapTurn
  <2>3. Map!Renumbered(Rec(q, l, x)) = Rec(a, l, k)
    BY <1>2, <1>4, MapRenumbered
  <2>4. Len(a) = n
    <3>1. \A i \in 1 .. n : a[i] = RankedEnt(m, t, i)
      BY DEF Ranks
    <3>2. a \in [1 .. n -> {RankedEnt(m, t, i) : i \in 1 .. n}]
      BY DEF Ranks
    <3> DEFINE S == {RankedEnt(m, t, i) : i \in 1 .. n}
    <3> HIDE DEF a, n, S
    <3> QED BY <1>4, <3>2, SeqMade DEF S
  <2> HIDE DEF a, k
  <2>5. Map!Rewound(Rec(a, l, k)) = Rec(a, n, k)
    BY <2>4, MapCursor
  <2> QED BY <1>7, <1>9, <2>1, <2>2, <2>3, <2>5 DEF k
<1> QED BY <1>8, <1>9

\* PH7_HashmapDup: the same entries and index, and a cursor on the first.
LEMMA CopyView ==
    ASSUME NEW m, Good(m)
    PROVE  View(PH7_HashmapDup(m)) = Map!Rewound(View(m))
<1>1. PICK s : Whole(m, s) /\ Sewn(m, s) /\ IsOrder(s, DOMAIN m.node)
  BY GoodWhole
<1>2. PICK l : Shows(m, s, l)
  BY <1>1, SomeCursor
<1> DEFINE b == TRUE
           g == HashmapInsertNodes(m, PH7_NewHashmap, s, b)
           x == m.iNextIdx
           r == [g EXCEPT !.iNextIdx = x]
           n == Len(s)
           q == Shown(m, s)
<1>3. PH7_HashmapDup(m) = r
  BY <1>1, EntriesListed DEF PH7_HashmapDup, Sewn
<1>4. b \in BOOLEAN /\ x \in Int /\ Copied(m, s, b) = q
  BY ProperTyped, CopiedShown DEF Good
<1>5. n \in Nat /\ Len(q) = n
  BY <1>1, ShownSeq
<1> HIDE DEF b
<1>6. Fits(g, m, s, 1 .. n, b)
  BY <1>1, <1>4, NodesInserted
<1> HIDE DEF g
<1>7. Clones(g, m, s, n, b)
  BY <1>5, <1>6 DEF Fits
<1>8. CopiesSeen(m, s, b, g, r, x)
  BY <1>1, <1>4, <1>7, ClonesView
<1> HIDE DEF r
<1>9. View(m) = Rec(q, l, x)
  BY <1>2, ViewShown
<1>11. View(r) = Rec(q, n, x)
  BY <1>4, <1>8 DEF CopiesSeen
<1> HIDE DEF q, n
<1>10. Map!Rewound(Rec(q, l, x)) = Rec(q, n, x)
  BY <1>5, MapCursor
<1> QED BY <1>3, <1>9, <1>10, <1>11

\* end(), next() and prev().
LEMMA CursorMoves ==
    ASSUME NEW m, Good(m)
    PROVE  /\ View([m EXCEPT !.pCur = m.pLast]) = Map!ToEnd(View(m))
           /\ m.pCur # Nil => /\ View(m).left > 0
                              /\ View([m EXCEPT !.pCur = m.node[m.pCur].prev]) = Map!Advance(View(m))
                              /\ View([m EXCEPT !.pCur = m.node[m.pCur].next]) = Map!StepBack(View(m))
<1>1. PICK s, l : Whole(m, s) /\ Shows(m, s, l)
  BY GoodWhole, SomeCursor
<1> DEFINE n == Len(s)
           q == Shown(m, s)
           x == m.iNextIdx
<1>2. /\ l \in 0 .. n /\ n \in Nat /\ m.pCur = At(s, n + 1 - l) /\ m.pLast = At(s, n) /\ Len(q) = n
      /\ IsOrder(s, DOMAIN m.node) /\ Strung(s, Col(m, "prev"), Col(m, "next"))
  BY <1>1, ShownSeq DEF Shows, Whole, Listed, Threaded
<1>3. View(m) = Rec(q, l, x) /\ (q = <<>> <=> n = 0)
  BY <1>1, ViewShown, ShownEmpty
<1>4. View([m EXCEPT !.pCur = m.pLast]) = Map!ToEnd(View(m))
  <2> DEFINE e == IF n = 0 THEN 0 ELSE 1
  <2>1. e \in 0 .. n
    BY <1>2
  <2>2. At(s, n + 1 - e) = At(s, n)
    BY <1>2 DEF At
  <2> HIDE DEF e
  <2>3. View([m EXCEPT !.pCur = m.pLast]) = Rec(q, e, x)
    BY <1>1, <1>2, <2>1, <2>2, CursorView
  <2> HIDE DEF q
  <2>4. Map!ToEnd(Rec(q, l, x)) = Rec(q, e, x)
    BY <1>3, MapCursor DEF e
  <2> QED BY <1>3, <2>3, <2>4
<1>5. ASSUME m.pCur # Nil
      PROVE  /\ View(m).left > 0
             /\ View([m EXCEPT !.pCur = m.node[m.pCur].prev]) = Map!Advance(View(m))
             /\ View([m EXCEPT !.pCur = m.node[m.pCur].next]) = Map!StepBack(View(m))
  <2> DEFINE k == n + 1 - l
  <2>1. l > 0 /\ k \in 1 .. n
    BY <1>2, <1>5 DEF At
  <2>2. m.pCur = s[k] /\ s[k] \in DOMAIN m.node
    BY <1>2, <2>1, OrderFacts DEF At
  <2> HIDE DEF k
  <2>3. m.node[m.pCur].prev = At(s, k + 1) /\ m.node[m.pCur].next = At(s, k - 1)
    BY <1>2, <2>1, <2>2 DEF Strung, Col
  <2> DEFINE e == IF l < n THEN l + 1 ELSE 0
  <2>4. l - 1 \in 0 .. n /\ n + 1 - (l - 1) = k + 1
    BY <1>2, <2>1 DEF k
  <2>5. e \in 0 .. n
    BY <1>2
  <2>6. At(s, n + 1 - e) = At(s, k - 1)
    <3>1. CASE l < n
      <4>1. n + 1 - (l + 1) = k - 1
        BY <1>2 DEF k
      <4> QED BY <3>1, <4>1
    <3>2. CASE ~(l < n)
      <4>1. k - 1 \notin 1 .. n /\ n + 1 - 0 \notin 1 .. n
        BY <1>2, <3>2 DEF k
      <4> QED BY <3>2, <4>1 DEF At
    <3> QED BY <3>1, <3>2
  <2> HIDE DEF e
  <2>7. View([m EXCEPT !.pCur = m.node[m.pCur].prev]) = Rec(q, l - 1, x)
    <3>1. m.node[m.pCur].prev = At(s, n + 1 - (l - 1))
      BY <2>3, <2>4
    <3> QED BY <1>1, <2>4, <3>1, CursorView
  <2>8. View([m EXCEPT !.pCur = m.node[m.pCur].next]) = Rec(q, e, x)
    BY <1>1, <2>3, <2>5, <2>6, CursorView
  <2> HIDE DEF q
  <2>9. Map!Advance(Rec(q, l, x)) = Rec(q, l - 1, x) /\ Map!StepBack(Rec(q, l, x)) = Rec(q, e, x)
    <3>1. e = IF l < Len(q) THEN l + 1 ELSE 0
      BY <1>2 DEF e
    <3> QED BY <3>1, MapCursor
  <2>10. Rec(q, l, x).left = l
    BY DEF Rec
  <2> QED BY <1>3, <2>1, <2>7, <2>8, <2>9, <2>10
<1> QED BY <1>4, <1>5

-----------------------------------------------------------------------------
(* The sorts.                                                                *)

\* As many positions of an order hold items of P as P has items.
LEMMA PositionsCounted ==
    ASSUME NEW t, NEW D, IsOrder(t, D), NEW P \in SUBSET D
    PROVE  Cardinality({i \in 1 .. Len(t) : t[i] \in P}) = Cardinality(P)
<1> DEFINE n == Len(t)
           I == {i \in 1 .. n : t[i] \in P}
           f == [i \in I |-> t[i]]
<1>1. /\ n \in Nat /\ \A i \in 1 .. n : t[i] \in D
      /\ \A x \in D : \E i \in 1 .. n : t[i] = x
      /\ \A i, j \in 1 .. n : t[i] = t[j] => i = j
  BY OrderFacts
<1>2. IsFiniteSet(I)
  <2>1. I \in SUBSET (1 .. n) /\ IsFiniteSet(1 .. n)
    BY <1>1, FS_Interval
  <2> QED BY <2>1, FS_Subset
<1>3. f \in [I -> P] /\ (\A i, j \in I : f[i] = f[j] => i = j) /\ \A x \in P : \E i \in I : f[i] = x
  BY <1>1
<1> HIDE DEF I, f
<1>4. f \in Bijection(I, P)
  BY <1>3 DEF Bijection, Injection, IsInjective, Surjection
<1>5. ExistsBijection(I, P)
  BY <1>4 DEF ExistsBijection
<1>6. Cardinality(P) = Cardinality(I)
  BY <1>2, <1>5, FS_Bijection
<1> QED BY <1>6 DEF I

\* Two arrays with the same nodes and values, and an order of each.
SameEntries(m, s, r, t) ==
    /\ Typed(m) /\ Typed(r) /\ DOMAIN r.node = DOMAIN m.node /\ SameVals(m, r)
    /\ IsOrder(s, DOMAIN m.node) /\ IsOrder(t, DOMAIN m.node)

\* As many entries, each in its place.
LEMMA SameLength ==
    ASSUME NEW m, NEW s, NEW r, NEW t, SameEntries(m, s, r, t)
    PROVE  /\ Len(s) \in Nat /\ Len(t) = Len(s) /\ Len(Shown(m, s)) = Len(s) /\ Len(Shown(r, t)) = Len(s)
           /\ \A i \in 1 .. Len(s) : /\ Shown(m, s)[i] = Ent(m, s[i]) /\ Shown(r, t)[i] = Ent(r, t[i])
                                     /\ s[i] \in DOMAIN m.node /\ t[i] \in DOMAIN m.node
<1>1. Len(s) \in Nat /\ Len(Shown(m, s)) = Len(s) /\ Len(Shown(r, t)) = Len(t)
      /\ (\A i \in 1 .. Len(s) : Shown(m, s)[i] = Ent(m, s[i]) /\ s[i] \in DOMAIN m.node)
      /\ \A i \in 1 .. Len(t) : Shown(r, t)[i] = Ent(r, t[i]) /\ t[i] \in DOMAIN m.node
  BY ShownOrder DEF SameEntries
<1>2. Len(t) = Len(s)
  BY OrderLength DEF SameEntries
<1> QED BY <1>1, <1>2

\* With the same keys the two have the same entries.
LEMMA SameEntrySet ==
    ASSUME NEW m, NEW s, NEW r, NEW t, SameEntries(m, s, r, t),
           \A q \in DOMAIN m.node : r.node[q].key = m.node[q].key
    PROVE  Map!ToSet(Shown(r, t)) = Map!ToSet(Shown(m, s))
<1> DEFINE D == DOMAIN m.node
           a == Shown(m, s)
           b == Shown(r, t)
           n == Len(s)
<1>1. /\ n \in Nat /\ Len(t) = n
      /\ \A i \in 1 .. n : /\ a[i] = Ent(m, s[i]) /\ b[i] = Ent(r, t[i])
                           /\ s[i] \in DOMAIN m.node /\ t[i] \in DOMAIN m.node
  BY SameLength
<1>2. DOMAIN a = 1 .. n /\ DOMAIN b = 1 .. n
  BY <1>1 DEF Shown
<1> HIDE DEF a, b
<1>3. \A q \in D : Ent(r, q) = Ent(m, q)
  BY DEF SameEntries, SameVals, Ent
<1>4. /\ \A x \in D : \E i \in 1 .. n : s[i] = x
      /\ \A x \in D : \E i \in 1 .. n : t[i] = x
  BY <1>1, OrderFacts DEF SameEntries
<1>5. {a[i] : i \in 1 .. n} = {Ent(m, q) : q \in D}
  <2>1. ASSUME NEW q \in D PROVE \E i \in 1 .. n : Ent(m, q) = a[i]
    <3>1. PICK i \in 1 .. n : s[i] = q
      BY <1>4
    <3> QED BY <1>1, <3>1
  <2>2. \A i \in 1 .. n : a[i] \in {Ent(m, q) : q \in D}
    BY <1>1
  <2> HIDE DEF D, n
  <2> QED BY <2>1, <2>2
<1>6. {b[i] : i \in 1 .. n} = {Ent(m, q) : q \in D}
  <2>1. \A i \in 1 .. n : b[i] = Ent(m, t[i]) /\ t[i] \in D
    BY <1>1, <1>3
  <2>2. ASSUME NEW q \in D PROVE \E i \in 1 .. n : Ent(m, q) = b[i]
    <3>1. PICK i \in 1 .. n : t[i] = q
      BY <1>4
    <3> QED BY <2>1, <3>1
  <2>3. \A i \in 1 .. n : b[i] \in {Ent(m, q) : q \in D}
    BY <2>1
  <2> HIDE DEF D, n
  <2> QED BY <2>2, <2>3
<1> QED BY <1>2, <1>5, <1>6 DEF Map!ToSet, a, b

\* The values of entries, as a sequence.
ValSeq(q) == [i \in 1 .. Len(q) |-> q[i].val]

\* Each value stands in the two as often as some node has it.
LEMMA SameValueBag ==
    ASSUME NEW m, NEW s, NEW r, NEW t, SameEntries(m, s, r, t)
    PROVE  Map!ToBag(ValSeq(Shown(r, t))) = Map!ToBag(ValSeq(Shown(m, s)))
<1> DEFINE D == DOMAIN m.node
           n == Len(s)
           a == ValSeq(Shown(m, s))
           b == ValSeq(Shown(r, t))
           P(x) == {q \in D : m.node[q].val = x}
<1>1. /\ n \in Nat /\ Len(t) = n /\ Len(Shown(m, s)) = n /\ Len(Shown(r, t)) = n
      /\ \A i \in 1 .. n : /\ Shown(m, s)[i] = Ent(m, s[i]) /\ Shown(r, t)[i] = Ent(r, t[i])
                           /\ s[i] \in D /\ t[i] \in D
  BY SameLength
<1>2. /\ DOMAIN a = 1 .. n /\ DOMAIN b = 1 .. n
      /\ \A i \in 1 .. n : a[i] = m.node[s[i]].val /\ b[i] = m.node[t[i]].val
  <2>1. \A i \in 1 .. n : a[i] = Ent(m, s[i]).val /\ b[i] = Ent(r, t[i]).val
    BY <1>1 DEF ValSeq
  <2>2. \A i \in 1 .. n : Ent(m, s[i]).val = m.node[s[i]].val /\ Ent(r, t[i]).val = m.node[t[i]].val
    BY <1>1, EntFields DEF SameEntries, SameVals
  <2>3. DOMAIN a = 1 .. n /\ DOMAIN b = 1 .. n
    BY <1>1 DEF ValSeq
  <2> QED BY <2>1, <2>2, <2>3
<1> HIDE DEF a, b
<1>3. ASSUME NEW x
      PROVE  /\ Cardinality({i \in 1 .. n : a[i] = x}) = Cardinality(P(x))
             /\ Cardinality({i \in 1 .. n : b[i] = x}) = Cardinality(P(x))
  <2> DEFINE Q == P(x)
  <2>1. {i \in 1 .. n : a[i] = x} = {i \in 1 .. n : s[i] \in Q} /\ {i \in 1 .. n : b[i] = x} = {i \in 1 .. n : t[i] \in Q}
    BY <1>1, <1>2
  <2>2. Q \in SUBSET D
    OBVIOUS
  <2> HIDE DEF Q
  <2>3. Cardinality({i \in 1 .. Len(s) : s[i] \in Q}) = Cardinality(Q)
    BY <2>2, PositionsCounted DEF SameEntries
  <2>4. Cardinality({i \in 1 .. Len(t) : t[i] \in Q}) = Cardinality(Q)
    BY <2>2, PositionsCounted DEF SameEntries
  <2> QED BY <1>1, <2>1, <2>3, <2>4 DEF Q
<1>4. {a[i] : i \in 1 .. n} = {b[i] : i \in 1 .. n}
  <2>1. /\ \A x \in D : \E i \in 1 .. n : s[i] = x
        /\ \A x \in D : \E i \in 1 .. n : t[i] = x
    BY <1>1, OrderFacts DEF SameEntries
  <2>2. ASSUME NEW i \in 1 .. n PROVE \E j \in 1 .. n : b[j] = a[i]
    <3>1. PICK j \in 1 .. n : t[j] = s[i]
      BY <1>1, <2>1
    <3> QED BY <1>2, <3>1
  <2>3. ASSUME NEW i \in 1 .. n PROVE \E j \in 1 .. n : a[j] = b[i]
    <3>1. PICK j \in 1 .. n : s[j] = t[i]
      BY <1>1, <2>1
    <3> QED BY <1>2, <3>1
  <2> DEFINE A == {a[i] : i \in 1 .. n}
             B == {b[i] : i \in 1 .. n}
  <2>4. A \subseteq B
    BY <2>2
  <2>5. B \subseteq A
    BY <2>3
  <2>6. A = B
    <3> HIDE DEF A, B
    <3> QED BY <2>4, <2>5
  <2> QED BY <2>6
<1> DEFINE R == {a[i] : i \in 1 .. n}
           C(y, x) == Cardinality({i \in 1 .. n : y[i] = x})
<1>5. Map!ToBag(a) = [x \in R |-> C(a, x)] /\ Map!ToBag(b) = [x \in R |-> C(b, x)]
  <2>1. \A y : Map!Range(y) = {y[i] : i \in DOMAIN y}
    BY DEF Map!Range
  <2>2. Map!Range(a) = R /\ Map!Range(b) = R
    BY <1>2, <1>4, <2>1
  <2>3. \A x : /\ Map!Cardinality({i \in DOMAIN a : a[i] = x}) = C(a, x)
               /\ Map!Cardinality({i \in DOMAIN b : b[i] = x}) = C(b, x)
    BY <1>2 DEF Map!Cardinality, Cardinality
  <2> HIDE DEF R, C
  <2> QED BY <2>2, <2>3 DEF Map!ToBag
<1>6. \A x \in R : C(a, x) = C(b, x)
  BY <1>3
<1> HIDE DEF R, C
<1> QED BY <1>5, <1>6 DEF a, b

\* Rising nodes are ordered entries.
LEMMA OrderSeen ==
    ASSUME NEW m, NEW s, NEW r, NEW t, SameEntries(m, s, r, t), NEW up \in BOOLEAN, Rising(m, up, t)
    PROVE  Map!Ordered(Shown(r, t), up)
<1> DEFINE n == Len(s)
           q == Shown(r, t)
<1>1. /\ n \in Nat /\ Len(t) = n /\ Len(q) = n
      /\ \A i \in 1 .. n : q[i] = Ent(r, t[i]) /\ t[i] \in DOMAIN m.node
  BY SameLength
<1>2. \A i \in 1 .. n : q[i].val = m.node[t[i]].val
  BY <1>1, EntFields DEF SameEntries, SameVals
<1>3. \A p \in DOMAIN m.node : m.node[p].val \in Int
  <2>1. m.node \in [DOMAIN m.node -> Cell]
    BY DEF SameEntries, Typed, Arrays
  <2> SUFFICES ASSUME NEW p \in DOMAIN m.node PROVE m.node[p].val \in Int
    OBVIOUS
  <2>2. m.node[p] \in Cell
    BY <2>1
  <2> QED BY <2>2, HashmapAssumption DEF Cell
<1> HIDE DEF q
<1>4. ASSUME NEW i \in 1 .. n - 1
      PROVE  IF up THEN q[i].val <= q[i + 1].val ELSE q[i].val >= q[i + 1].val
  <2>1. i \in 1 .. n /\ i + 1 \in 1 .. n /\ i < i + 1
    BY <1>1
  <2> DEFINE x == m.node[t[i]].val
             y == m.node[t[i + 1]].val
  <2>2. x \in Int /\ y \in Int /\ q[i].val = x /\ q[i + 1].val = y
    BY <1>1, <1>2, <1>3, <2>1
  <2>3. ~LessVal(m, up, t[i + 1], t[i])
    BY <1>1, <2>1 DEF Rising
  <2>4. ~(IF up THEN y < x ELSE y > x)
    BY <2>3 DEF LessVal
  <2> HIDE DEF x, y
  <2> QED BY <2>2, <2>4
<1> QED BY <1>1, <1>4 DEF Map!Ordered, q
-----------------------------------------------------------------------------
\* The map a sort leaves.
LEMMA SortShown ==
    ASSUME NEW m, NEW s, Whole(m, s), m.nEntry > 0, NEW r, NEW t, NEW up, SortOf(m, r, up, t)
    PROVE  /\ SameEntries(m, s, r, t) /\ Rising(m, up, t)
           /\ View(r) = Rec(Shown(r, t), Len(s), r.iNextIdx)
<1>1. SameEntries(m, s, r, t) /\ Whole(r, t) /\ Rising(m, up, t) /\ r.pCur = t[1]
  BY DEF SortOf, SameEntries, Sorted, Whole, Listed, Threaded
<1>2. Len(s) \in Nat /\ Len(t) = Len(s) /\ 1 \in 1 .. Len(s)
  BY <1>1, SameLength, LastOf
<1>3. r.pCur = At(t, 1) /\ Len(t) \in 0 .. Len(t) /\ Len(t) + 1 - Len(t) = 1
  BY <1>1, <1>2 DEF At
<1>4. Shows(r, t, Len(t))
  BY <1>1, <1>3 DEF Shows
<1> QED BY <1>1, <1>2, <1>4, ViewShown

\* asort(), arsort().
LEMMA SortEntriesView ==
    ASSUME NEW m, Good(m), m.nEntry > 0, NEW up \in BOOLEAN, NEW r, r = LastFixed(HashmapMergeSort(m, up))
    PROVE  Map!SortEntries(View(m), View(r), up)
<1>1. PICK s, l : Whole(m, s) /\ Shows(m, s, l)
  BY GoodWhole, SomeCursor
<1>2. PICK t : SortOf(m, r, up, t) /\ r.iNextIdx = m.iNextIdx
               /\ \A q \in DOMAIN m.node : r.node[q].key = m.node[q].key
  BY SortEntriesGood
<1>3. SameEntries(m, s, r, t) /\ Rising(m, up, t) /\ View(r) = Rec(Shown(r, t), Len(s), m.iNextIdx)
  BY <1>1, <1>2, SortShown
<1>4. View(m) = Rec(Shown(m, s), l, m.iNextIdx)
  BY <1>1, ViewShown
<1> DEFINE a == Shown(m, s)
           b == Shown(r, t)
<1>5. Len(a) = Len(s) /\ Len(b) = Len(s) /\ Map!ToSet(b) = Map!ToSet(a) /\ Map!Ordered(b, up)
  BY <1>2, <1>3, SameLength, SameEntrySet, OrderSeen
<1> HIDE DEF a, b
<1>6. View(m).seq = a /\ View(r).seq = b /\ View(r).left = Len(s) /\ View(r).idx = View(m).idx
  BY <1>3, <1>4 DEF Rec, a, b
<1> QED BY <1>5, <1>6 DEF Map!SortEntries

\* sort(), rsort().
LEMMA SortValuesView ==
    ASSUME NEW m, Good(m), m.nEntry > 0, NEW up \in BOOLEAN, NEW r, r = HashmapSortRehash(HashmapMergeSort(m, up))
    PROVE  Map!SortValues(View(m), View(r), up)
<1>1. PICK s, l : Whole(m, s) /\ Shows(m, s, l)
  BY GoodWhole, SomeCursor
<1>2. PICK t : SortOf(m, r, up, t) /\ Ranked(r, m, t, Len(t), TRUE)
  BY SortValuesGood
<1>3. SameEntries(m, s, r, t) /\ Rising(m, up, t) /\ View(r) = Rec(Shown(r, t), Len(s), r.iNextIdx)
  BY <1>1, <1>2, SortShown
<1>4. View(m) = Rec(Shown(m, s), l, m.iNextIdx)
  BY <1>1, ViewShown
<1> DEFINE a == Shown(m, s)
           b == Shown(r, t)
           n == Len(s)
<1>5. /\ n \in Nat /\ Len(a) = n /\ Len(b) = n /\ Len(t) = n /\ Map!Ordered(b, up)
      /\ \A i \in 1 .. n : b[i] = Ent(r, t[i])
  BY <1>3, SameLength, OrderSeen
<1>6. Map!ToBag(ValSeq(b)) = Map!ToBag(ValSeq(a))
  BY <1>3, SameValueBag
<1>7. r.iNextIdx = n /\ \A i \in 1 .. n : b[i].key = i - 1
  <2>1. r.iNextIdx = (n + 1) - 1 /\ \A i \in 1 .. n : r.node[t[i]].key = i - 1
    BY <1>2, <1>5 DEF Ranked, NewKey
  <2>2. \A i \in 1 .. n : b[i].key = r.node[t[i]].key
    BY <1>5, EntFields
  <2> HIDE DEF b, n
  <2> QED BY <1>5, <2>1, <2>2
<1> HIDE DEF a, b
<1>8. View(m).seq = a /\ View(r).seq = b /\ View(r).left = n /\ View(r).idx = n
  BY <1>3, <1>4, <1>7 DEF Rec, a, b
<1>9. Map!ValueBag(View(r)) = Map!ValueBag(View(m))
  BY <1>6, <1>8 DEF Map!ValueBag, ValSeq
<1> QED BY <1>5, <1>7, <1>8, <1>9 DEF Map!SortValues

-----------------------------------------------------------------------------
(* The refinement.                                                           *)

\* A new array shows the empty map.
LEMMA FreedView ==
    View(PH7_NewHashmap) = Rec(<<>>, 0, 0)
<1> DEFINE m == PH7_NewHashmap
<1>1. m.pCur = Nil /\ m.iNextIdx = 0
  BY DEF PH7_NewHashmap
<1>2. PICK s : Whole(m, s)
  BY NewHashmapGood, GoodWhole
<1>3. DOMAIN m.node = {} /\ IsOrder(s, DOMAIN m.node) /\ Entries(m) = s
  BY <1>2, EntriesListed DEF PH7_NewHashmap, Whole, Listed, Threaded
<1>4. Len(s) = 0
  BY <1>3, OrderFacts
<1> HIDE DEF m
<1>5. [i \in 1 .. Len(s) |-> [key |-> m.node[s[i]].key, val |-> m.node[s[i]].val]] = <<>>
  BY <1>4
<1> QED BY <1>1, <1>3, <1>5 DEF View, Rec, m

\* The steps of the map that take no argument.
LEMMA StepKinds ==
    ASSUME NEW M, NEW N
    PROVE  /\ N = Map!Turn(M) => Map!Step(M, N)
           /\ N = Map!TurnKeepingKeys(M) => Map!Step(M, N)
           /\ N = Map!Rewound(M) => Map!Step(M, N)
           /\ N = Map!ToEnd(M) => Map!Step(M, N)
           /\ M.left > 0 /\ N = Map!Advance(M) => Map!Step(M, N)
           /\ M.left > 0 /\ N = Map!StepBack(M) => Map!Step(M, N)
           /\ M.seq # <<>> /\ N = Map!Pop(M) => Map!Step(M, N)
           /\ M.seq # <<>> /\ N = Map!Shift(M) => Map!Step(M, N)
<1>1. /\ N \in {Map!Turn(M), Map!TurnKeepingKeys(M), Map!Rewound(M), Map!ToEnd(M)} => Map!Step(M, N)
      /\ M.left > 0 /\ N \in {Map!Advance(M), Map!StepBack(M)} => Map!Step(M, N)
      /\ M.seq # <<>> /\ N \in {Map!Pop(M), Map!Shift(M)} => Map!Step(M, N)
  BY Zenon DEF Map!Step
<1> QED BY <1>1, Zenon

\* Every operation of the array is a step of the map, or leaves it as it is.
LEMMA StepMapped ==
    ASSUME Good(h), Next
    PROVE  View(h') = View(h) \/ Map!Step(View(h), View(h'))
<1> DEFINE M == View(h)
           N == View(h')
           G == N = M \/ Map!Step(M, N)
<1> SUFFICES G
  OBVIOUS
<1> HIDE DEF G
<1>0. Map!Keys = Keys
  BY DEF Map!Keys, Keys
<1>1. ASSUME NEW v \in Values, NEW mem \in Memory, Push(v, mem) PROVE G
  <2>1. h' = InsertAuto(h, v, mem) /\ DOMAIN h.node # Nodes /\ h.iNextIdx \in IntKeys
    BY <1>1 DEF Push, Room, AtIndex
  <2>2. N = M \/ N = Map!Push(M, v)
    BY <2>1, PushView
  <2> HIDE DEF M, N
  <2> QED BY <2>2 DEF Map!Step, G
<1>2. ASSUME NEW v \in Values, NEW mem \in Memory, NEW k \in Keys, Insert(k, v, mem)
      PROVE  G
  <2>1. N = M \/ N = Map!Put(M, k, v)
    BY <1>2, InsertView DEF Insert, Room
  <2> HIDE DEF M, N
  <2> QED BY <1>0, <2>1 DEF Map!Step, G
<1>3. ASSUME NEW k \in Keys, NEW v \in Values, Union(k, v) PROVE G
  <2>1. N = M \/ N = Map!Put(M, k, v)
    BY <1>3, UnionView DEF Union, Room
  <2> HIDE DEF M, N
  <2> QED BY <1>0, <2>1 DEF Map!Step, G
<1>4. ASSUME NEW k \in Keys, Unset(k) PROVE G
  <2> DEFINE p == HashmapLookup(h, k)
  <2>1. p # Nil /\ h' = PH7_HashmapUnlinkNode(h, p)
    BY <1>4 DEF Unset
  <2>2. p \in DOMAIN h.node
    BY <2>1, HashNat, LookupProper DEF Good
  <2> HIDE DEF p
  <2>3. \E i \in 1 .. Len(M.seq) : N = Map!Without(M, i)
    BY <2>1, <2>2, UnsetView
  <2> HIDE DEF M, N
  <2> QED BY <2>3 DEF Map!Step, G
<1>5. CASE Pop
  <2> DEFINE g == PH7_HashmapUnlinkNode(h, h.pLast)
  <2>1. h.nEntry > 0 /\ h' = [g EXCEPT !.pCur = g.pFirst]
    BY <1>5 DEF Pop
  <2>2. N = Map!Pop(M) /\ M.seq # <<>>
    BY <2>1, PopView
  <2> HIDE DEF M, N, g
  <2> QED BY <2>2, StepKinds DEF G
<1>6. CASE Shift
  <2> DEFINE g == PH7_HashmapUnlinkNode(h, h.pFirst)
  <2>1. h.nEntry > 0 /\ h' = [Rehashed(g, FALSE) EXCEPT !.pCur = g.pFirst]
    BY <1>6 DEF Shift
  <2>2. N = Map!Shift(M) /\ M.seq # <<>>
    BY <2>1, ShiftView
  <2> HIDE DEF M, N, g
  <2> QED BY <2>2, StepKinds DEF G
<1>7. CASE Turn
  <2>1. h' = HashmapInsertNodes(h, PH7_NewHashmap, Walk(h, h.pLast, "next"), FALSE)
    BY <1>7 DEF Turn, Reversed
  <2>2. N = IF FALSE THEN Map!TurnKeepingKeys(M) ELSE Map!Turn(M)
    BY <2>1, TurnedView
  <2> HIDE DEF M, N
  <2> QED BY <2>2, StepKinds DEF G
<1>8. CASE TurnKeepingKeys
  <2>1. h' = HashmapInsertNodes(h, PH7_NewHashmap, Walk(h, h.pLast, "next"), TRUE)
    BY <1>8 DEF TurnKeepingKeys, Reversed
  <2>2. N = IF TRUE THEN Map!TurnKeepingKeys(M) ELSE Map!Turn(M)
    BY <2>1, TurnedView
  <2> HIDE DEF M, N
  <2> QED BY <2>2, StepKinds DEF G
<1>9. CASE Copy
  <2>1. N = Map!Rewound(M)
    BY <1>9, CopyView DEF Copy
  <2> HIDE DEF M, N
  <2> QED BY <2>1, StepKinds DEF G
<1>10. CASE Rewind
  <2>1. PICK s : Whole(h, s)
    BY GoodWhole
  <2>2. N = Map!Rewound(M)
    BY <1>10, <2>1, RewoundView DEF Rewind
  <2> HIDE DEF M, N
  <2> QED BY <2>2, StepKinds DEF G
<1>11. CASE ToEnd
  <2>1. N = Map!ToEnd(M)
    BY <1>11, CursorMoves DEF ToEnd
  <2> HIDE DEF M, N
  <2> QED BY <2>1, StepKinds DEF G
<1>12. CASE Advance
  <2>1. M.left > 0 /\ N = Map!Advance(M)
    BY <1>12, CursorMoves DEF Advance
  <2> HIDE DEF M, N
  <2> QED BY <2>1, StepKinds DEF G
<1>13. CASE StepBack
  <2>1. M.left > 0 /\ N = Map!StepBack(M)
    BY <1>13, CursorMoves DEF StepBack
  <2> HIDE DEF M, N
  <2> QED BY <2>1, StepKinds DEF G
<1>14. ASSUME NEW up \in BOOLEAN, SortEntries(up) PROVE G
  <2>1. h.nEntry > 0 /\ h' = LastFixed(HashmapMergeSort(h, up))
    BY <1>14, ProperTyped DEF SortEntries, Good, Typed, Arrays
  <2>2. Map!SortEntries(M, N, up)
    BY <2>1, SortEntriesView
  <2> HIDE DEF M, N
  <2> QED BY <2>2 DEF Map!Step, G
<1>15. ASSUME NEW up \in BOOLEAN, SortValues(up) PROVE G
  <2>1. h.nEntry > 0 /\ h' = HashmapSortRehash(HashmapMergeSort(h, up))
    BY <1>15, ProperTyped DEF SortValues, Good, Typed, Arrays
  <2>2. Map!SortValues(M, N, up)
    BY <2>1, SortValuesView
  <2> HIDE DEF M, N
  <2> QED BY <2>2 DEF Map!Step, G
<1> QED
  BY <1>1, <1>2, <1>3, <1>4, <1>5, <1>6, <1>7, <1>8, <1>9, <1>10, <1>11, <1>12, <1>13, <1>14, <1>15 DEF Next

\* The hash table with its lists, chains and counters does to the entries, the
\* cursor and the automatic index what the operation of an ordered map does, or
\* nothing when the table cannot grow (hashmap.c).
THEOREM ImplementsOrderedMap == Spec => ImplementsMap
<1>1. AbstractMap = View(h)
  BY DEF AbstractMap, View
<1>2. Init => Map!Init
  <2> SUFFICES ASSUME Init PROVE Map!Init
    OBVIOUS
  <2>1. View(h) = Rec(<<>>, 0, 0)
    BY FreedView DEF Init
  <2> QED BY <1>1, <2>1 DEF Map!Init, Rec
<1>3. IInv /\ [Next]_h => [Map!Next]_(AbstractMap)
  <2> SUFFICES ASSUME IInv, [Next]_h PROVE AbstractMap' = AbstractMap \/ Map!Next
    OBVIOUS
  <2>0. AbstractMap' = View(h')
    BY DEF AbstractMap, View
  <2>1. CASE h' = h
    BY <2>1, <1>1, <2>0
  <2>2. CASE Next
    <3>1. View(h') = View(h) \/ Map!Step(View(h), View(h'))
      BY <2>2, StepMapped DEF IInv
    <3> QED BY <3>1, <1>1, <2>0 DEF Map!Next
  <2> QED BY <2>1, <2>2
<1> QED BY <1>2, <1>3, Invariance, PTL DEF Spec, ImplementsMap, Map!Spec
=============================================================================
