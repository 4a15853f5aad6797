----------------------------- MODULE ArrayCalls -----------------------------
(***************************************************************************)
(* A script with two array variables, a and b, that calls the array         *)
(* functions of ArrayLib in any order and keeps what they return.           *)
(*                                                                          *)
(* Bounds: the arrays have at most MaxLen entries each and MaxTotal         *)
(* together, their automatic index stays below MaxIndex, and nothing is     *)
(* pushed under an automatic index that is already a key (see NoClash).     *)
(***************************************************************************)
EXTENDS ArrayLib

CONSTANTS Scalars, Keys, MaxLen, MaxTotal, MaxIndex

ASSUME ScalarsAssumption == \A v \in Scalars : v.t \in Types \ {"array", "obj"}

VARIABLES a, b

vars == <<a, b>>

KeysOf(x) == {x.seq[i].key : i \in 1 .. Len(x.seq)}
ValuesOf(x) == {x.seq[i].val : i \in 1 .. Len(x.seq)}
IntKeys(x) == {k.n : k \in {l \in KeysOf(x) : l.t = "int"}}

UniqueKeys(x) == Cardinality(KeysOf(x)) = Len(x.seq)

\* A key kept by a function that copies entries (array_slice, array_filter, ...)
\* does not move the automatic index, so that a push may meet it.
NoClash(x) == \A n \in IntKeys(x) : n < x.idx

Fits(x) ==
    /\ Len(x.seq) <= MaxLen /\ x.idx < MaxIndex
    /\ ValuesOf(x) \subseteq Scalars

Init == a = EmptyArray /\ b = EmptyArray

Assign(x) == Fits(x) /\ a' = x /\ UNCHANGED b

Add(v) == NoClash(a) /\ Assign(Push(a, v))
Set(k, v) == Assign(Insert(a, k, v))
Unset(i) == Assign(Without(a, {i}))
Swap == a' = b /\ b' = a

\* $a = f($a, $b)
WithBoth ==
    \E x \in {array_diff(a, b), array_diff_assoc(a, b), array_diff_key(a, b),
              array_intersect(a, b), array_intersect_assoc(a, b), array_intersect_key(a, b),
              array_merge(a, b), array_replace(a, b)} : Assign(x)

\* f($a): in place, or $a = f($a)
Reorder ==
    \E x \in {sort(a, 0), rsort(a, 5), asort(a, 1), arsort(a, 0), ksort(a), krsort(a),
              array_reverse(a, TRUE), array_reverse(a, FALSE), array_values(a),
              array_unique(a, FALSE), array_erase(a)} \cup shuffle(a) : Assign(x)

Slice(offset, length, preserve) ==
    /\ a.seq # <<>>
    /\ Assign(array_slice(a, offset, length, preserve))

\* $b = array_splice($a, ..., $b), $a and $b not the same array.  An entry of the
\* replacement under a text that $a has too would be there twice: left out.
Splice(offset, length) ==
    /\ a.seq # <<>> /\ NoClash(a)
    /\ \A k \in KeysOf(a) \cap KeysOf(b) : k.t = "int"
    /\ LET s == array_splice(a, offset, length, b)
       IN  /\ Fits(s.left) /\ Fits(s.result)
           /\ a' = s.left /\ b' = s.result

\* $b = array_flip($a), $b = array_combine($a, $b), $b = array_fill_keys($a, v),
\* $b = array_keys($a, v): all change $a.
FromKeys(r, left) == Fits(r) /\ Fits(left) /\ a' = left /\ b' = r
Flip == LET f == array_flip(a) IN FromKeys(f.result, f.left)
Combine ==
    /\ Len(a.seq) = Len(b.seq)
    /\ LET c == array_combine(a, b) IN FromKeys(c.result, c.left)
FillKeys(v) == LET f == array_fill_keys(a, v) IN FromKeys(f.result, f.left)
Keyed(v) == LET k == array_keys_of(a, v, FALSE) IN FromKeys(k.keys, k.left)

Call ==
    \/ \E v \in Scalars : Add(v) \/ FillKeys(v) \/ Keyed(v) \/ \E k \in Keys : Set(k, v)
    \/ \E i \in 1 .. Len(a.seq) : Unset(i)
    \/ Swap \/ WithBoth \/ Reorder \/ Flip \/ Combine
    \/ \E o \in {-1, 0, 1}, l \in {<<>>, <<1>>, <<-1>>} :
           Splice(o, l) \/ \E p \in BOOLEAN : Slice(o, l, p)

Next == Call /\ Len(a'.seq) + Len(b'.seq) <= MaxTotal

Spec == Init /\ [][Next]_vars

-----------------------------------------------------------------------------
(* Properties.                                                              *)

\* An array holds values under keys that are integers or non-numeric texts, as
\* HashmapInsert leaves them, and no key twice.
TypeOK ==
    \A x \in {a, b} :
        /\ Fits(x) /\ x.idx \in Nat
        /\ UniqueKeys(x)
        /\ \A k \in KeysOf(x) :
               k.t = "int" \/ (k.t = "string" /\ k.s # "" /\ ~IsIntKey(k.s))

Selection(x, Test(_)) == SelectSeq(x.seq, Test)
Has(x, e) == \E i \in 1 .. Len(x.seq) : x.seq[i] = e
DistinctValues(x) == Cardinality(ValuesOf(x)) = Len(x.seq)

\* array_search() finds a key that leads to the value looked for, and in_array()
\* finds the value exactly when array_search() does, NULL aside.
Leads(k, v, strict) ==
    /\ k # Bool(FALSE) => \E i \in EntryAt(a, k) : Cmp(v, a.seq[i].val, strict) = 0
    /\ Null \notin ValuesOf(a) \cup {v} => (in_array(v, a, strict) <=> k # Bool(FALSE))
SearchesAgree ==
    \A v \in Scalars, strict \in BOOLEAN : Leads(array_search(v, a, strict), v, strict)

\* The functions that compare two arrays keep exactly the entries a reader of
\* their documentation expects, in order and under their keys.  Those that
\* compare keys and values look only at the first entry with the value, so
\* they are right when the second array has no value twice.
ComparesRight ==
    /\ SearchesAgree
    /\ array_diff(a, b).seq = Selection(a, LAMBDA e : e.val \notin ValuesOf(b))
    /\ array_intersect(a, b).seq = Selection(a, LAMBDA e : e.val \in ValuesOf(b))
    /\ array_diff_key(a, b).seq = Selection(a, LAMBDA e : e.key \notin KeysOf(b))
    /\ array_intersect_key(a, b).seq = Selection(a, LAMBDA e : e.key \in KeysOf(b))
    /\ DistinctValues(b) =>
           /\ array_diff_assoc(a, b).seq = Selection(a, LAMBDA e : ~Has(b, e))
           /\ array_intersect_assoc(a, b).seq = Selection(a, LAMBDA e : Has(b, e))
    /\ LET apart == [v, w \in Scalars |-> Num(IF v = w THEN 0 ELSE 1)]
       IN  /\ array_udiff(a, b, apart).seq = array_diff(a, b).seq
           /\ array_uintersect(a, b, apart).seq = array_intersect(a, b).seq
           /\ array_diff_uassoc(a, b, apart).seq = array_diff_assoc(a, b).seq

Values(x) == [i \in 1 .. Len(x.seq) |-> x.seq[i].val]
SameEntries(x, y) ==
    /\ Len(x.seq) = Len(y.seq)
    /\ {x.seq[i] : i \in 1 .. Len(x.seq)} = {y.seq[i] : i \in 1 .. Len(y.seq)}
Ascending(seq) == \A i \in 1 .. Len(seq) - 1 : IntValue(seq[i]) <= IntValue(seq[i + 1])
SortedAlike(x, list) == SameEntries(x, a) /\ Values(list) = Values(x) /\ UniqueKeys(list)
AllInts(x) == \A v \in ValuesOf(x) : v.t = "int"

\* What array_splice took out, put back where it was.
Joined(s, at) ==
    SubSeq(Values(s.left), 1, at) \o Values(s.result)
        \o SubSeq(Values(s.left), at + 1, Len(s.left.seq))

Pieces(x) == FoldLeft(LAMBDA r, v : r \o Values(v), <<>>, Values(x))

Offsets == -MaxLen .. MaxLen + 1
Lengths == {<<>>} \cup {<<n>> : n \in Offsets}

\* The functions that take an array apart lose nothing of it, and those that put
\* one together give it back: splice and what it took out, chunks (all but a
\* last full one), keys and values combined, reversing twice, sorting, padding.
\* They do not look at b: the states where it is empty are enough.
NothingLost == b.seq = <<>> =>
    /\ \A o \in Offsets, l \in Lengths : a.seq # <<>> =>
           /\ Joined(array_splice(a, o, l, EmptyArray), Offset(a, o)) = Values(a)
           /\ Values(array_splice(a, o, l, EmptyArray).result) = Values(array_slice(a, o, l, TRUE))
    /\ \A n \in 1 .. MaxLen :
           /\ Len(a.seq) <= n \/ Len(a.seq) % n # 0 =>
                  Pieces(array_chunk(a, n, FALSE)) = Values(a)
           /\ \A r \in array_rand(a, n) :
                  /\ Len(r.seq) = Min({n, Len(a.seq)})
                  /\ Cardinality(ValuesOf(r)) = Len(r.seq)
           /\ Len(array_pad(a, -n, Null).seq) = Max({n, Len(a.seq)})
    /\ array_combine(array_keys(a), array_values(a)).result.seq = a.seq
    /\ array_replace(a, a).seq = a.seq /\ array_map(a, [v \in Scalars |-> v]).seq = a.seq
    /\ array_walk(a, {}) = a.seq /\ array_walk_recursive(a) = a.seq
    /\ array_filter(a, [v \in Scalars |-> Bool(IsNull(v))]).seq = Selection(a, LAMBDA e : IsNull(e.val))
    /\ Values(array_keys(array_values(a))) = Values(range(0, Len(a.seq) - 1, 1))
    /\ a.seq # <<>> => array_rand_one(a) \subseteq KeysOf(a)
    /\ array_reverse(array_reverse(a, TRUE), TRUE).seq = a.seq
    /\ SameEntries(asort(a, 0), a) /\ SameEntries(krsort(a), a)
    /\ AllInts(a) => /\ Ascending(Values(sort(a, 0)))
                     /\ Ascending(Values(array_reverse(rsort(a, 0), FALSE)))
                     /\ LET plus == [v \in {Num(n) : n \in 0 .. MaxNumeral},
                                     w \in ValuesOf(a) |-> AddNumbers(v, w)]
                        IN  array_sum(a) = array_reduce(a, plus, Num(0))
    \* a comparison of the script, even one that is no order
    /\ \A answer \in {-1, 0, 1}, swap \in BOOLEAN :
           LET S == Scalars \cup KeysOf(a)
               user == [v, w \in S |-> Num(IF v = w THEN 0 ELSE IF swap /\ IsNull(v)
                                                                THEN -answer ELSE answer)]
           IN  /\ SameEntries(uksort(a, user), a)
               /\ SortedAlike(uasort(a, user), usort(a, user))

=============================================================================
