------------------------------ MODULE ArrayLib ------------------------------
(***************************************************************************)
(* The array functions of the language (hashmap.c): what each makes of its  *)
(* arguments.  The entries and chains under an array are Hashmap's subject; *)
(* here an array is the sequence of its entries and its automatic index.    *)
(* A function called with arguments it refuses answers Null or FALSE and    *)
(* changes nothing; those cases are left out.                               *)
(***************************************************************************)
EXTENDS Values, SequencesExt

-----------------------------------------------------------------------------
(* Keys, lookup and insertion.                                              *)

\* Where HashmapInsert puts a value: an integer key, a text, or the next index.
NoKey == [t |-> "auto"]
IsIntKey(s) == s \in {IntText(n) : n \in -MaxNumeral .. MaxNumeral}
KeyAsIs(key) ==     \* mutant: the text of a number stays a text
    CASE key.t = "auto" -> NoKey
      [] key.t \in {"string", "array", "obj", "res"} ->
             IF StringValue(key) = "" THEN NoKey ELSE Str(StringValue(key))
      [] OTHER -> ToInteger(key)
\* The text of an integer is that integer; the empty text is no key.
TextKey(s) == IF s = "" THEN NoKey ELSE IF IsIntKey(s) THEN ToInteger(Str(s)) ELSE Str(s)
NodeKey(key) ==
    CASE key.t = "auto" -> NoKey
      [] key.t \in {"string", "array", "obj", "res"} -> TextKey(StringValue(key))
      [] OTHER -> ToInteger(key)

\* HashmapLookup: the empty text stands for the key 0.
Otherwise(k, default) == IF k = NoKey THEN default ELSE k
LookupKey(key) == Otherwise(NodeKey(key), Num(0))

Entry(key, val) == [key |-> key, val |-> val]
EntryAt(a, key) == {i \in 1 .. Len(a.seq) : a.seq[i].key = key}
HasKey(a, key) == EntryAt(a, key) # {}

\* HashmapInsertIntKey, HashmapInsertBlobKey: the index is not looked at.
InsertRaw(a, key, val) == [a EXCEPT !.seq = Append(@, Entry(key, val))]

Push(a, val) == [InsertRaw(a, Num(a.idx), val) EXCEPT !.idx = @ + 1]

FreeIndex(a, n) ==
    CHOOSE m \in n .. n + Len(a.seq) :
        ~HasKey(a, Num(m)) /\ \A k \in n .. m - 1 : HasKey(a, Num(k))

\* HashmapInsert
IndexBeyond(b, k) ==
    IF k.t = "int" /\ k.n >= b.idx THEN [b EXCEPT !.idx = FreeIndex(b, k.n + 1)] ELSE b
InsertKeyed(a, k, val) ==
    CASE k = NoKey -> Push(a, val)
      [] HasKey(a, k) -> [a EXCEPT !.seq[CHOOSE i \in EntryAt(a, k) : TRUE].val = val]
      [] OTHER -> IndexBeyond(InsertRaw(a, k, val), k)
Insert(a, key, val) == InsertKeyed(a, NodeKey(key), val)

\* HashmapInsertNode
InsertNode(a, e, preserve) ==
    IF preserve \/ e.key.t # "int" THEN InsertRaw(a, e.key, e.val) ELSE Push(a, e.val)

\* The entries at some places, copied in order.
Kept(a, chosen, preserve) ==
    FoldLeft(LAMBDA r, i : IF i \in chosen THEN InsertNode(r, a.seq[i], preserve) ELSE r,
             EmptyArray, [i \in 1 .. Len(a.seq) |-> i])

-----------------------------------------------------------------------------
(* Searching.                                                               *)

SameLoosely(needle, val, strict) ==     \* mutant: the comparison is always loose
    IF "null" \in {needle.t, val.t} THEN needle.t = val.t ELSE Cmp(needle, val, FALSE) = 0
\* HashmapFindValue: NULL equals nothing but NULL, even loosely.
SameValue(needle, val, strict) ==
    IF "null" \in {needle.t, val.t} THEN needle.t = val.t ELSE Cmp(needle, val, strict) = 0

Places(a) == 1 .. Len(a.seq)
FirstEntry(found) == IF found = {} THEN 0 ELSE Min(found)

\* The first entry with the value, or 0.
FindValue(a, needle, strict) ==
    FirstEntry({i \in Places(a) : SameValue(needle, a.seq[i].val, strict)})
\* HashmapFindValueByCallback: the callback answers 0 for the entry looked for.
\* A callback of the script is a function of the values it may be called with.
FindByCallback(a, needle, differ) ==
    FirstEntry({i \in Places(a) : IntValue(differ[needle, a.seq[i].val]) = 0})

in_array(needle, a, strict) == FindValue(a, needle, strict) # 0

\* array_search compares NULL loosely, unlike in_array.
array_search(needle, a, strict) ==
    LET i == FirstEntry({j \in Places(a) : Cmp(needle, a.seq[j].val, strict) = 0})
    IN  IF i = 0 THEN Bool(FALSE) ELSE a.seq[i].key

array_key_exists(key, a) == HasKey(a, LookupKey(key))

-----------------------------------------------------------------------------
(* Differences and intersections of two arrays.                             *)

\* The entry of b that a key leads to is the one a value leads to.
SameEntry(b, key, i) == i # 0 /\ i \in EntryAt(b, key)

\* Places whose value, key or both are in b.
InByValue(a, b) == {i \in Places(a) : FindValue(b, a.seq[i].val, TRUE) # 0}
InByCallback(a, b, differ) == {i \in Places(a) : FindByCallback(b, a.seq[i].val, differ) # 0}
InByKey(a, b) == {i \in Places(a) : HasKey(b, a.seq[i].key)}
InByBoth(a, b) ==
    {i \in Places(a) : SameEntry(b, a.seq[i].key, FindValue(b, a.seq[i].val, TRUE))}
InByBothAndCallback(a, b, differ) ==
    {i \in Places(a) : SameEntry(b, a.seq[i].key, FindByCallback(b, a.seq[i].val, differ))}

array_diff(a, b) == Kept(a, Places(a) \ InByValue(a, b), TRUE)
array_udiff(a, b, differ) == Kept(a, Places(a) \ InByCallback(a, b, differ), TRUE)
array_diff_assoc(a, b) == Kept(a, Places(a) \ InByBoth(a, b), TRUE)
array_diff_uassoc(a, b, differ) == Kept(a, Places(a) \ InByBothAndCallback(a, b, differ), TRUE)
array_diff_key(a, b) == Kept(a, Places(a) \ InByKey(a, b), TRUE)

array_intersect(a, b) == Kept(a, InByValue(a, b), TRUE)
array_uintersect(a, b, differ) == Kept(a, InByCallback(a, b, differ), TRUE)
array_intersect_assoc(a, b) == Kept(a, InByBoth(a, b), TRUE)
array_intersect_key(a, b) == Kept(a, InByKey(a, b), TRUE)

-----------------------------------------------------------------------------
(* Arrays made from arrays.                                                 *)

array_values(a) == FoldLeft(LAMBDA r, e : Push(r, e.val), EmptyArray, a.seq)

array_keys(a) == FoldLeft(LAMBDA r, e : Push(r, e.key), EmptyArray, a.seq)

\* array_keys with a value to look for: the comparisons convert that value as
\* they go, and every value of the array is released.
array_keys_of(a, val, strict) ==
    LET step(r, e) ==
            [keys |-> IF Cmp(e.val, r.val, strict) = 0 THEN Push(r.keys, e.key) ELSE r.keys,
             val |-> Compared(r.val, e.val, strict)]
        found == FoldLeft(step, [keys |-> EmptyArray, val |-> val], a.seq)
    IN  [keys |-> found.keys,
         left |-> [a EXCEPT !.seq = [i \in 1 .. Len(@) |-> Entry(@[i].key, Null)]]]

\* HashmapMerge: integer keys are renumbered, the others overwrite.
Merged(src, dest) ==
    FoldLeft(LAMBDA r, e : IF e.key.t = "int" THEN Push(r, e.val)
                           ELSE Insert(r, e.key, e.val), dest, src.seq)

MergeArgument(r, v) == IF IsArray(v) THEN Merged(v, r) ELSE Push(r, v)
array_merge(v, w) == MergeArgument(MergeArgument(EmptyArray, v), w)

\* HashmapOverwrite: every key overwrites.
Overwritten(src, dest) == FoldLeft(LAMBDA r, e : Insert(r, e.key, e.val), dest, src.seq)
array_replace(a, b) == Overwritten(b, Overwritten(a, EmptyArray))

\* The entries of a that an offset and a length select.  An offset outside the
\* array means the last entry; the length is <<n>>, or <<>> when not given.
Offset(a, offset) ==
    LET o == IF offset < 0 THEN Len(a.seq) + offset ELSE offset
    IN  IF o \in 0 .. Len(a.seq) THEN o ELSE Len(a.seq) - 1

Selected(a, offset, length) ==
    LET o == Offset(a, offset)
        n == IF length = <<>> THEN -1
             ELSE IF length[1] < 0 THEN Len(a.seq) + length[1] - o ELSE length[1]
    IN  IF n < 0 \/ o + n >= Len(a.seq) THEN o + 1 .. Len(a.seq) ELSE o + 1 .. o + n

array_slice(a, offset, length, preserve) ==
    LET chosen == Selected(a, offset, length)
        entries == [i \in 1 .. Cardinality(chosen) |-> a.seq[Offset(a, offset) + i]]
    IN  FoldLeft(LAMBDA r, e : InsertNode(r, e, preserve), EmptyArray, entries)

array_fill(first, number, val) ==
    FoldLeft(LAMBDA r, i : Push(r, val), Insert(EmptyArray, Num(first), val),
             [i \in 1 .. number - 1 |-> i])

\* What is left of a value that was used as a key.
UsedAsKey(v) == Otherwise(NodeKey(v), Str(""))
KeysConverted(a, used) ==
    [a EXCEPT !.seq = [i \in 1 .. Len(@) |->
        IF i \in used THEN Entry(@[i].key, UsedAsKey(@[i].val)) ELSE @[i]]]

array_fill_keys(a, val) ==
    [result |-> FoldLeft(LAMBDA r, e : Insert(r, e.val, val), EmptyArray, a.seq),
     left |-> KeysConverted(a, Places(a))]

\* Two arrays of one length, not the same one.
array_combine(keys, a) ==
    [result |-> FoldLeft(LAMBDA r, i : Insert(r, keys.seq[i].val, a.seq[i].val),
                         EmptyArray, [i \in 1 .. Len(a.seq) |-> i]),
     left |-> KeysConverted(keys, Places(keys))]

array_unique(a, strict) ==
    FoldLeft(LAMBDA r, e : IF FindValue(r, e.val, strict) = 0 THEN InsertNode(r, e, TRUE)
                           ELSE r, EmptyArray, a.seq)

array_flip(a) ==
    [result |-> FoldLeft(LAMBDA r, e : IF IsNull(e.val) THEN r ELSE Insert(r, e.val, e.key),
                         EmptyArray, a.seq),
     left |-> KeysConverted(a, {i \in Places(a) : ~IsNull(a.seq[i].val)})]

array_reverse(a, preserve) ==
    FoldLeft(LAMBDA r, e : InsertNode(r, e, preserve), EmptyArray, Reverse(a.seq))

ChunkDropped(a, size, preserve) ==     \* mutant: the chunk begun last is never added
    IF size >= Len(a.seq) THEN Push(EmptyArray, a)
    ELSE FoldLeft(LAMBDA r, k : Push(r, array_slice(a, (k - 1) * size, <<size>>, preserve)),
                  EmptyArray, [k \in 1 .. (Len(a.seq) - 1) \div size |-> k])
\* A chunk is added when the next one starts, and the last one only if it is
\* not full.
array_chunk(a, size, preserve) ==
    LET n == Len(a.seq)
        chunk(k) == array_slice(a, (k - 1) * size, <<size>>, preserve)
    IN  IF size >= n THEN Push(EmptyArray, a)
        ELSE FoldLeft(LAMBDA r, k : Push(r, chunk(k)), EmptyArray,
                      [k \in 1 .. (n - 1) \div size + (IF n % size = 0 THEN 0 ELSE 1) |-> k])

array_pad(a, size, val) ==
    LET missing == (IF size < 0 THEN -size ELSE size) - Len(a.seq)
        Padded(r) == FoldLeft(LAMBDA x, i : Push(x, val), r, [i \in 1 .. missing |-> i])
    IN  CASE size = 0 -> EmptyArray
          [] size # 0 /\ missing <= 0 -> [a EXCEPT !.of = "none"]
          [] missing > 0 /\ size > 0 -> Padded(Merged(a, EmptyArray))
          [] missing > 0 /\ size < 0 -> Merged(a, Padded(EmptyArray))

range(first, last, step) ==
    LET by == IF step < 1 THEN 1 ELSE step
        count == IF last < first THEN 0 ELSE (last - first) \div by + 1
    IN  FoldLeft(LAMBDA r, i : Push(r, Num(first + (i - 1) * by)), EmptyArray,
                 [i \in 1 .. count |-> i])

\* each(): the entry at the cursor, under four keys.
each(e) ==
    Insert(Insert(Insert(Insert(EmptyArray, Num(1), e.val), Str("value"), e.val),
                  Num(0), e.key), Str("key"), e.key)

-----------------------------------------------------------------------------
(* One array changed in place.                                              *)

\* Entries taken out one by one; the index and the other keys stay.
Without(a, chosen) ==
    [a EXCEPT !.seq = FoldLeft(LAMBDA r, i : IF i \in chosen THEN r ELSE Append(r, @[i]),
                               <<>>, [i \in 1 .. Len(@) |-> i])]

\* The selected entries take the values of the replacement while it has any,
\* and go; what is left of the replacement is added at the end.
array_splice(a, offset, length, rep) ==
    LET chosen == Selected(a, offset, length)
        o == Offset(a, offset)
        n == Cardinality(chosen)
        kept == Min({n, Len(rep.seq)})
        stored == [a EXCEPT !.seq = [i \in 1 .. Len(@) |->
                      IF i \in o + 1 .. o + kept THEN Entry(@[i].key, rep.seq[i - o].val)
                      ELSE @[i]]]
        rest == SubSeq(rep.seq, kept + 1, Len(rep.seq))
    IN  [result |-> array_slice(a, offset, length, FALSE),
         left |-> IF n = 0 THEN a
                  ELSE FoldLeft(LAMBDA r, e : InsertNode(r, e, FALSE),
                                Without(stored, chosen \ (o + 1 .. o + kept)), rest)]

\* HashmapNodeMerge: a list goes first only if its head is strictly less.
\* Places stand for the nodes.
NodeMerge(less, s, t) ==
    LET rest[i \in 1 .. Len(s) + 1, j \in 1 .. Len(t) + 1] ==
            IF i > Len(s) THEN SubSeq(t, j, Len(t))
            ELSE IF j > Len(t) THEN SubSeq(s, i, Len(s))
            ELSE IF less[s[i], t[j]] THEN <<s[i]>> \o rest[i + 1, j]
            ELSE <<t[j]>> \o rest[i, j + 1]
    IN  rest[1, 1]

\* HashmapMergeSort: slot i of the table holds no list or one of 2^(i-1) nodes.
MergeSort(less, n) ==
    LET merge(s, t) == NodeMerge(less, s, t)
        place(slots, e) ==
            LET i == Min({j \in 1 .. Len(slots) : slots[j] = <<>>})
                s == FoldLeft(LAMBDA x, y : merge(y, x), <<e>>, SubSeq(slots, 1, i - 1))
            IN  [j \in 1 .. Len(slots) |-> IF j < i THEN <<>> ELSE IF j = i THEN s ELSE slots[j]]
    IN  FoldLeft(merge, <<>>, FoldLeft(place, [i \in 1 .. n |-> <<>>], [i \in 1 .. n |-> i]))

\* HashmapSortRehash
Renumbered(seq) == [i \in 1 .. Len(seq) |-> Entry(Num(i - 1), seq[i].val)]

\* The orders: by value as they are, as texts or as numbers; by key; each way
\* up or down.  A user's comparison (usort, uksort, uasort) is any other.
ByValue(flags, v, w) ==
    LET As(x) == IF flags = 0 THEN x ELSE IF flags = 5 THEN ToStr(x) ELSE ToNumeric(x)
    IN  Cmp(As(v), As(w), FALSE)
ByKey(k, l) ==
    IF {k.t, l.t} = {"string"}
    THEN IF Len(k.s) # Len(l.s) THEN Sign(Len(k.s), Len(l.s)) ELSE TextOrder(k.s, l.s)
    ELSE IntValue(k) - IntValue(l)

ValueOrder(a, flags) == [i, j \in Places(a) |-> ByValue(flags, a.seq[i].val, a.seq[j].val)]
KeyOrder(a) == [i, j \in Places(a) |-> ByKey(a.seq[i].key, a.seq[j].key)]
UserOrder(a, user) == [i, j \in Places(a) |-> IntValue(user[a.seq[i].val, a.seq[j].val])]
UserKeyOrder(a, user) == [i, j \in Places(a) |-> IntValue(user[a.seq[i].key, a.seq[j].key])]
Down(order) == [ij \in DOMAIN order |-> -order[ij]]

SortedBy(a, order) ==
    LET p == MergeSort([ij \in DOMAIN order |-> order[ij] < 0], Len(a.seq))
    IN  [k \in Places(a) |-> a.seq[p[k]]]
Sorted(a, order) == IF Len(a.seq) > 1 THEN [a EXCEPT !.seq = SortedBy(a, order)] ELSE a
SortedList(a, order) ==
    IF Len(a.seq) > 1 THEN [a EXCEPT !.seq = Renumbered(SortedBy(a, order)), !.idx = Len(a.seq)]
    ELSE a

sort(a, flags) == SortedList(a, ValueOrder(a, flags))
rsort(a, flags) == SortedList(a, Down(ValueOrder(a, flags)))
asort(a, flags) == Sorted(a, ValueOrder(a, flags))
arsort(a, flags) == Sorted(a, Down(ValueOrder(a, flags)))
ksort(a) == Sorted(a, KeyOrder(a))
krsort(a) == Sorted(a, Down(KeyOrder(a)))
usort(a, user) == SortedList(a, UserOrder(a, user))
uasort(a, user) == Sorted(a, UserOrder(a, user))
uksort(a, user) == Sorted(a, UserKeyOrder(a, user))

\* Every comparison of shuffle() is a toss: any order of the entries, keys kept.
Orders(n) == {p \in [1 .. n -> 1 .. n] : \A i, j \in 1 .. n : i # j => p[i] # p[j]}
shuffle(a) == {[a EXCEPT !.seq = [i \in 1 .. Len(@) |-> @[p[i]]]] : p \in Orders(Len(a.seq))}

\* array_erase()
array_erase(a) == [a EXCEPT !.seq = <<>>, !.idx = 0]

-----------------------------------------------------------------------------
(* One array summed up or walked by a callback of the script.               *)

\* The values that count; the empty text does not.
Counted(v) == v.t \in {"real", "int", "bool"} \/ (IsStr(v) /\ v.s # "")

\* The type of the first value decides whether the others count as integers.
Total(a, times) ==
    LET values == SelectSeq([i \in Places(a) |-> a.seq[i].val], Counted)
        unit == IF times THEN 1 ELSE 0
        ints(r, v) == IF times THEN r * IntValue(v) ELSE r + IntValue(v)
        halves(r, v) == IF times THEN (r * RealValue(v)) \div 2 ELSE r + RealValue(v)
    IN  IF a.seq = <<>> THEN Num(0)
        ELSE IF a.seq[1].val.t = "real" THEN Real(FoldLeft(halves, 2 * unit, values))
        ELSE Num(FoldLeft(ints, unit, values))

array_sum(a) == Total(a, FALSE)
array_product(a) == Total(a, TRUE)

\* count() with COUNT_RECURSIVE: nesting stops at 32 levels.
count_recursive(a) ==
    Len(a.seq) + FoldLeft(LAMBDA r, e : IF IsArray(e.val) THEN r + Len(e.val.seq) ELSE r, 0, a.seq)

\* array_rand() for one key.  An index e in the second half is looked for from
\* the end, one step too far unless it is the last.
array_rand_one(a) ==
    LET n == Len(a.seq)
        at(e) == IF e > n \div 2 /\ n - e > 1 THEN e - 1 ELSE e
    IN  {a.seq[at(e) + 1].key : e \in 0 .. n - 1}

\* array_rand() for several: the first n keys, shuffled and renumbered.
array_rand(a, n) ==
    LET m == Min({n, Len(a.seq)})
    IN  {Arr([i \in 1 .. m |-> Entry(Num(i - 1), a.seq[p[i]].key)], m, "none") : p \in Orders(m)}

\* Callbacks that leave the array alone.
array_filter(a, keep) == Kept(a, {i \in Places(a) : BooleanValue(keep[a.seq[i].val])}, TRUE)
array_filter_default(a) == EmptyArray
array_map(a, fn) ==
    FoldLeft(LAMBDA r, e : Insert(r, e.key, fn[e.val]), EmptyArray, a.seq)
array_reduce(a, fn, init) == FoldLeft(LAMBDA r, e : fn[r, e.val], init, a.seq)

\* The calls array_walk() makes, up to the first that fails.
array_walk(a, fails) ==
    LET fail == {i \in Places(a) : a.seq[i].val \in fails}
    IN  IF fail = {} THEN a.seq ELSE SubSeq(a.seq, 1, Min(fail))

\* array_walk_recursive(): the leaves, arrays inside arrays one level down.
array_walk_recursive(a) ==
    FoldLeft(LAMBDA r, e : IF IsArray(e.val) THEN r \o e.val.seq ELSE Append(r, e), <<>>, a.seq)

=============================================================================
