------------------------------ MODULE Hashmap ------------------------------
(***************************************************************************)
(* One array of the script: a ph7_hashmap (engine/hashmap.c), with every   *)
(* operation that changes its links.                                       *)
(*                                                                         *)
(* A node is on two lists: the entries in insertion order, doubly linked   *)
(* from pFirst to pLast, and the collision chain of its bucket.  As in the *)
(* code the link to the *next* entry is called prev ("Reverse link").      *)
(* Only the live nodes are in the domain of h.node: following a link to a  *)
(* node that was given back to the pool is an error of the model.          *)
(*                                                                         *)
(* Abstractions.  A key is an integer or a blob; HashmapIsIntKey and the   *)
(* casts have already decided which, and "" is a keyless insertion.  The   *)
(* value of a node stands for the pool slot nValIdx names (see VmMemObj).  *)
(* HashmapMergeSort is modelled on sequences of nodes, its result linked   *)
(* at once.  Nodes are never refused by the pool; the bucket array is, if  *)
(* "mem" is FALSE.                                                         *)
(***************************************************************************)
EXTENDS Integers, FiniteSets, SequencesExt

CONSTANTS
    Nodes,        \* addresses of ph7_hashmap_node
    IntKeys,      \* an interval with 0 .. Cardinality(Nodes)
    BlobKeys,
    Values,       \* integers: the order the sorts compare with
    Hash(_),      \* xIntHash, xBlobHash
    FirstSize,    \* buckets of the first table: 16 in the code
    FillFactor,   \* HASHMAP_FILL_FACTOR: 3 in the code
    Nil

ASSUME HashmapAssumption ==
    /\ Nil \notin Nodes /\ IsFiniteSet(Nodes)
    /\ 0 .. Cardinality(Nodes) \subseteq IntKeys /\ IntKeys \subseteq Int
    /\ (\A k \in BlobKeys : k \notin Int) /\ Values \subseteq Int
    /\ FirstSize \in Nat \ {0} /\ FillFactor \in Nat \ {0}
    /\ \A k \in IntKeys : Hash(k) \in Nat /\ Hash(k + 1) \in Nat
    /\ \A k \in BlobKeys : Hash(k) \in Nat

VARIABLE h

Keys == IntKeys \cup BlobKeys

PH7_NewHashmap ==
    [node |-> <<>>, pFirst |-> Nil, pLast |-> Nil, pCur |-> Nil,
     apBucket |-> <<>>, nSize |-> 0, nEntry |-> 0, iNextIdx |-> 0]
-----------------------------------------------------------------------------
(* Links *)

Link(m, p, f) == IF p \in DOMAIN m.node THEN m.node[p][f] ELSE Nil
Set(m, p, f, q) == IF p = Nil THEN m ELSE [m EXCEPT !.node[p][f] = q]
Bucket(m, hash) == hash % m.nSize       \* nHash & (nSize - 1)

\* At most nEntry nodes, from p along the links f.
Walk(m, p, f) ==
    LET at[i \in 1 .. m.nEntry] == IF i = 1 THEN p ELSE Link(m, at[i - 1], f)
    IN  SubSeq(at, 1, Cardinality({i \in 1 .. m.nEntry : at[i] # Nil}))

Entries(m) == Walk(m, m.pFirst, "prev")

\* Put p at the head of the collision chain of bucket b.
Chained(m, p, b) ==
    [Set(m, m.apBucket[b], "prevC", p) EXCEPT
        !.node[p].nextC = m.apBucket[b], !.apBucket[b] = p]

\* Take p out of its collision chain.
Unchained(m, p) ==
    LET n == m.node[p]
        g == IF n.prevC = Nil
             THEN [m EXCEPT !.apBucket[Bucket(m, n.hash)] = n.nextC]
             ELSE Set(m, n.prevC, "nextC", n.nextC)
    IN  Set(g, n.nextC, "prevC", n.prevC)

HashmapNodeLink(m, p) ==
    LET g == Chained(m, p, Bucket(m, m.node[p].hash))
    IN  IF g.pFirst = Nil
        THEN [g EXCEPT !.pFirst = p, !.pLast = p, !.pCur = p, !.nEntry = @ + 1]
        ELSE [Set(g, g.pLast, "prev", p) EXCEPT
                !.node[p].next = g.pLast, !.pLast = p, !.nEntry = @ + 1]

\* A removed current entry makes the one after it current.
PreviousEntry(n) == n.next     \* mutant: the one before it
EntryAfter(n)    == n.prev

TableFreed(m) == [PH7_NewHashmap EXCEPT !.iNextIdx = m.iNextIdx]

PH7_HashmapUnlinkNode(m, p) ==
    LET n == m.node[p]
        g == Set(Set(Unchained(m, p), n.prev, "next", n.next),
                 n.next, "prev", n.prev)
        u == [g EXCEPT !.pFirst = IF @ = p THEN n.prev ELSE @,
                       !.pCur   = IF @ = p THEN EntryAfter(n) ELSE @,
                       !.pLast  = IF @ = p THEN n.next ELSE @,
                       !.node   = Restrict(@, DOMAIN @ \ {p}),
                       !.nEntry = @ - 1]
    IN  IF u.nEntry < 1 THEN TableFreed(u) ELSE u

StillChained(m, p) == m     \* mutant: the links of the old chain stay
OffChain(m, p) == [m EXCEPT !.node[p].nextC = Nil, !.node[p].prevC = Nil]

Rechained(m, p) == Chained(OffChain(m, p), p, Bucket(m, m.node[p].hash))

NewTable(m) ==
    LET size == IF m.nSize < 1 THEN FirstSize ELSE 2 * m.nSize
    IN  [m EXCEPT !.nSize = size, !.apBucket = [b \in 0 .. size - 1 |-> Nil]]

HashmapGrowBucket(m, mem) ==
    IF m.nEntry < m.nSize * FillFactor \/ ~mem
    THEN m
    ELSE FoldLeft(Rechained, NewTable(m), Entries(m))
-----------------------------------------------------------------------------
(* Lookup and insertion *)

HashmapLookup(m, k) ==
    LET chain == IF m.nEntry < 1 THEN <<>>
                 ELSE Walk(m, m.apBucket[Bucket(m, Hash(k))], "nextC")
        hits  == {i \in DOMAIN chain : /\ m.node[chain[i]].hash = Hash(k)
                                       /\ m.node[chain[i]].key = k}
    IN  IF hits = {} THEN Nil ELSE chain[Min(hits)]

\* HashmapNewIntNode, HashmapNewBlobNode
WithNode(m, p, k, v) ==
    LET n == [key |-> k, hash |-> Hash(k), val |-> v,
              next |-> Nil, prev |-> Nil, nextC |-> Nil, prevC |-> Nil]
    IN  [m EXCEPT !.node = [q \in DOMAIN @ \cup {p} |-> IF q = p THEN n ELSE @[q]]]

\* HashmapInsertIntKey, HashmapInsertBlobKey: no lookup, iNextIdx untouched.
\* Without a first table the insertion fails (SXERR_MEM).
InsertKey(m, k, v, mem) ==
    LET g == HashmapGrowBucket(m, mem)
        p == CHOOSE q \in Nodes : q \notin DOMAIN m.node
    IN  IF g.nSize = 0 THEN m ELSE HashmapNodeLink(WithNode(g, p, k, v), p)

InsertAuto(m, v, mem) ==
    LET g == InsertKey(m, m.iNextIdx, v, mem)
    IN  IF g = m THEN m ELSE [g EXCEPT !.iNextIdx = @ + 1]

\* The automatic index must move off a key that is given.
Overtakes(m, k) == k \in IntKeys /\ k > m.iNextIdx     \* mutant: off by one
Reserves(m, k)  == k \in IntKeys /\ k >= m.iNextIdx

HashmapInsert(m, k, v, mem) ==
    LET p    == HashmapLookup(m, k)
        g    == InsertKey(m, k, v, mem)
        free == {i \in k + 1 .. k + 1 + g.nEntry : HashmapLookup(g, i) = Nil}
    IN  IF p # Nil THEN [m EXCEPT !.node[p].val = v]
        ELSE IF g # m /\ Reserves(m, k)
             THEN [g EXCEPT !.iNextIdx = Min(free)]
             ELSE g

HashmapInsertNode(dest, n, bPreserve) ==
    IF n.key \in BlobKeys \/ bPreserve
    THEN InsertKey(dest, n.key, n.val, TRUE)
    ELSE InsertAuto(dest, n.val, TRUE)

\* The entries of "nodes", nodes of m, inserted in that order into dest.
HashmapInsertNodes(m, dest, nodes, bPreserve) ==
    FoldLeft(LAMBDA g, p : HashmapInsertNode(g, m.node[p], bPreserve), dest, nodes)

PH7_HashmapDup(m) ==
    [HashmapInsertNodes(m, PH7_NewHashmap, Entries(m), TRUE) EXCEPT
        !.iNextIdx = m.iNextIdx]

\* PH7_HashmapUnion with a right operand of one entry.
PH7_HashmapUnion(m, k, v) ==
    IF HashmapLookup(m, k) = Nil THEN InsertKey(m, k, v, TRUE) ELSE m
-----------------------------------------------------------------------------
(* Renumbering and sorting *)

HashmapRehashIntNode(m, p) ==
    LET g == [OffChain(Unchained(m, p), p) EXCEPT
                !.node[p].hash = Hash(m.iNextIdx), !.node[p].key = m.iNextIdx]
    IN  [Chained(g, p, Bucket(g, Hash(m.iNextIdx))) EXCEPT !.iNextIdx = @ + 1]

\* All entries numbered, or those with an integer key.
Rehashed(m, all) ==
    FoldLeft(LAMBDA g, p : IF all \/ g.node[p].key \in IntKeys
                           THEN HashmapRehashIntNode(g, p) ELSE g,
             [m EXCEPT !.iNextIdx = 0], Entries(m))

LessVal(m, up, p, q) == IF up THEN m.node[p].val < m.node[q].val
                              ELSE m.node[p].val > m.node[q].val

HashmapNodeMerge(m, up, a, b) ==
    LET rest[p \in (1 .. Len(a) + 1) \X (1 .. Len(b) + 1)] ==
            LET i == p[1]
                j == p[2]
            IN  IF i > Len(a) THEN SubSeq(b, j, Len(b))
                ELSE IF j > Len(b) THEN SubSeq(a, i, Len(a))
                ELSE IF LessVal(m, up, a[i], b[j])
                     THEN <<a[i]>> \o rest[<<i + 1, j>>]
                     ELSE <<b[j]>> \o rest[<<i, j + 1>>]
    IN  rest[<<1, 1>>]

\* Slot i of the table holds no list or a sorted one of 2^(i-1) nodes.  A node
\* goes to the first slot j that is free, merged with the lists before it.
Carried(m, up, a, p, j) ==
    FoldLeft(LAMBDA x, y : HashmapNodeMerge(m, up, y, x), <<p>>, SubSeq(a, 1, j - 1))
Full(a, j) == \A i \in 1 .. j : a[i] # <<>>
HashmapSortNode(m, up, a, p) ==
    [j \in 1 .. Len(a) |-> IF Full(a, j) THEN <<>>
                           ELSE IF Full(a, j - 1) THEN Carried(m, up, a, p, j)
                           ELSE a[j]]

SortedNodes(m, up) ==
    LET slots == FoldLeft(LAMBDA a, p : HashmapSortNode(m, up, a, p),
                          [i \in 1 .. m.nEntry |-> <<>>], Entries(m))
    IN  FoldLeft(LAMBDA a, b : HashmapNodeMerge(m, up, a, b), <<>>, slots)

HashmapMergeSort(m, up) ==
    LET sorted == SortedNodes(m, up)
        at(i)  == IF i \in 1 .. Len(sorted) THEN sorted[i] ELSE Nil
        pos(p) == CHOOSE i \in 1 .. Len(sorted) : sorted[i] = p
    IN  [m EXCEPT !.pFirst = sorted[1], !.pCur = sorted[1],
                  !.node = [p \in DOMAIN @ |->
                      [@[p] EXCEPT !.prev = at(pos(p) + 1),
                                   !.next = at(pos(p) - 1)]]]

LastKept(m) == m     \* mutant: pLast stays on the old last node
\* asort() and arsort() follow the links from the old pLast to the new end.
LastFixed(m) == LET tail == Walk(m, m.pLast, "prev")
                IN  [m EXCEPT !.pLast = tail[Len(tail)]]

\* sort() and rsort(): every key becomes an integer.
HashmapSortRehash(m) ==
    [Rehashed(m, TRUE) EXCEPT !.pLast = Entries(m)[m.nEntry]]
-----------------------------------------------------------------------------
(* Operations of the script.  Room and AtIndex bound the run: there is a    *)
(* free node, and the automatic index is a key.                            *)

Room == DOMAIN h.node # Nodes
AtIndex == h.iNextIdx \in IntKeys

\* The allocator is asked, and may refuse, only when the table is to grow.
Memory == IF h.nEntry < h.nSize * FillFactor THEN {TRUE} ELSE BOOLEAN

Init == h = PH7_NewHashmap

Insert(k, v, mem) == Room /\ h' = HashmapInsert(h, k, v, mem)
Push(v, mem) == Room /\ AtIndex /\ h' = InsertAuto(h, v, mem)

Unset(k) ==
    /\ HashmapLookup(h, k) # Nil
    /\ h' = PH7_HashmapUnlinkNode(h, HashmapLookup(h, k))

Pop ==
    /\ h.nEntry > 0
    /\ LET g == PH7_HashmapUnlinkNode(h, h.pLast)
       IN  h' = [g EXCEPT !.pCur = g.pFirst]

Shift ==
    /\ h.nEntry > 0
    /\ LET g == PH7_HashmapUnlinkNode(h, h.pFirst)
       IN  h' = [Rehashed(g, FALSE) EXCEPT !.pCur = g.pFirst]

SortEntries(up) ==
    /\ h.nEntry > 1
    /\ h' = LastFixed(HashmapMergeSort(h, up))

SortValues(up) ==
    /\ h.nEntry > 1
    /\ h' = HashmapSortRehash(HashmapMergeSort(h, up))

Reversed(bPreserve) ==
    HashmapInsertNodes(h, PH7_NewHashmap, Walk(h, h.pLast, "next"), bPreserve)

\* $a = array_reverse($a), $a = array_copy($a)
Turn == h' = Reversed(FALSE)
Copy == h' = PH7_HashmapDup(h)

Rewind   == h' = [h EXCEPT !.pCur = h.pFirst]
ToEnd    == h' = [h EXCEPT !.pCur = h.pLast]
Advance  == h.pCur # Nil /\ h' = [h EXCEPT !.pCur = h.node[@].prev]
StepBack == h.pCur # Nil /\ h' = [h EXCEPT !.pCur = h.node[@].next]

\* $a = array_reverse($a, true), $a = $a + {k => v}: given integer keys are
\* inserted without HashmapInsert, which would move the automatic index past
\* them.  The script is one whose keys stay below the index all the same: past
\* it, the next keyless insertion does make a second entry with a key.
IndexBehind(m) == \E p \in DOMAIN m.node : m.node[p].key \in IntKeys /\ m.node[p].key >= m.iNextIdx
TurnKeepingKeys == h' = Reversed(TRUE) /\ ~IndexBehind(h')
Union(k, v) == Room /\ h' = PH7_HashmapUnion(h, k, v) /\ ~IndexBehind(h')

Next ==
    \/ \E v \in Values, mem \in Memory :
          Push(v, mem) \/ \E k \in Keys : Insert(k, v, mem)
    \/ \E k \in Keys, v \in Values : Union(k, v)
    \/ \E k \in Keys : Unset(k)
    \/ Pop \/ Shift \/ Turn \/ TurnKeepingKeys \/ Copy
    \/ Rewind \/ ToEnd \/ Advance \/ StepBack
    \/ \E up \in BOOLEAN : SortEntries(up) \/ SortValues(up)

Spec == Init /\ [][Next]_h
-----------------------------------------------------------------------------
(* Properties *)

\* Every link, bucket and counter has its type.
TypeOK ==
    LET ptr == Nodes \cup {Nil}
    IN  /\ DOMAIN h.node \subseteq Nodes
        /\ h.node \in [DOMAIN h.node ->
              [key : Keys, hash : Nat, val : Values,
               next : ptr, prev : ptr, nextC : ptr, prevC : ptr]]
        /\ h.pFirst \in ptr /\ h.pLast \in ptr /\ h.pCur \in ptr
        /\ h.nSize \in Nat /\ h.nEntry \in Nat /\ h.iNextIdx \in Int
        /\ h.apBucket \in [0 .. h.nSize - 1 -> ptr]

\* The entries form one doubly linked list of nEntry nodes from pFirst to
\* pLast: the traversals of hashmap.c count to nEntry and never test for the
\* end, and array_pop, array_reverse start from pLast.
ListIntact ==
    LET s == Entries(h)
    IN  /\ TypeOK
        /\ Len(s) = h.nEntry /\ ToSet(s) = DOMAIN h.node
        /\ Cardinality(DOMAIN h.node) = h.nEntry
        /\ h.pCur \in ToSet(s) \cup {Nil}
        /\ IF s = <<>> THEN h.pFirst = Nil /\ h.pLast = Nil
           ELSE /\ h.pLast = s[h.nEntry] /\ Link(h, h.pLast, "prev") = Nil
                /\ Walk(h, h.pLast, "next") = Reverse(s)
                /\ Link(h, h.pFirst, "next") = Nil

\* Every node is on the collision chain of its own bucket and on no other,
\* and prevC undoes nextC: unlinking trusts both.
ChainsIntact ==
    LET chain(b) == Walk(h, h.apBucket[b], "nextC")
    IN  /\ h.nEntry > 0 => h.nSize > 0
        /\ \A b \in 0 .. h.nSize - 1 :
              /\ ToSet(chain(b)) =
                     {p \in DOMAIN h.node : Bucket(h, h.node[p].hash) = b}
              /\ Cardinality(ToSet(chain(b))) = Len(chain(b))
        /\ \A p \in DOMAIN h.node :
              /\ h.node[p].hash = Hash(h.node[p].key)
              /\ h.node[p].prevC = Nil
                    <=> h.apBucket[Bucket(h, h.node[p].hash)] = p
              /\ \A q \in DOMAIN h.node :
                    h.node[p].nextC = q <=> h.node[q].prevC = p

\* No key names two entries: a script reads, overwrites and unsets an entry
\* by its key.
KeysUnique == \A p, q \in DOMAIN h.node :
    h.node[p].key = h.node[q].key => p = q

\* The entries, the cursor and the automatic index behave as an ordered map.
AbstractMap ==
    LET s == Entries(h)
    IN  [seq  |-> [i \in 1 .. Len(s) |-> [key |-> h.node[s[i]].key,
                                          val |-> h.node[s[i]].val]],
         left |-> IF h.pCur = Nil THEN 0
                  ELSE Len(Walk(h, h.pCur, "prev")),
         idx  |-> h.iNextIdx]

Map == INSTANCE OrderedMap WITH map <- AbstractMap

\* Every operation does to the entries what an operation of the map does.
ImplementsMap == Map!Spec
=============================================================================
