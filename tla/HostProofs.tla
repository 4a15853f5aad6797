----------------------------- MODULE HostProofs -----------------------------
(***************************************************************************)
(* Proofs about what lies below the scripts, for any number of engines, VMs, *)
(* backends and blocks: first the macros of DList, then Engine, then         *)
(* MemBackend.                                                               *)
(***************************************************************************)
EXTENDS Host, FiniteSetTheorems, WellFoundedInduction, TLAPS

-----------------------------------------------------------------------------
(* What the macros do to a list.  That a list links its members in both      *)
(* directions is not inductive (a cycle apart from the head does, too): Holds *)
(* says that there is an order in which the list goes through them.          *)

Lists(I) == [head : I \cup {Null}, next : [I -> I \cup {Null}], prev : [I -> I \cup {Null}]]

\* The list l goes through the n items s[1], s[2], ..., each once.
Chain(l, s, n) ==
    /\ \A i, j \in 1 .. n : i # j => s[i] # s[j]
    /\ l.head = IF n = 0 THEN Null ELSE s[1]
    /\ \A i \in 1 .. n : /\ l.next[s[i]] = IF i = n THEN Null ELSE s[i + 1]
                         /\ l.prev[s[i]] = IF i = 1 THEN Null ELSE s[i - 1]

\* ... and these are the items of M.
Holds(l, M, n) ==
    /\ n \in Nat
    /\ \E s \in [1 .. n -> M] : Chain(l, s, n) /\ \A x \in M : \E i \in 1 .. n : s[i] = x

-----------------------------------------------------------------------------
(* A new list holds nothing.                                                *)
LEMMA EmptyHolds ==
    ASSUME NEW I
    PROVE  EmptyList(I) \in Lists(I) /\ Holds(EmptyList(I), {}, 0)
<1> DEFINE s == [i \in 1 .. 0 |-> Null]
<1>1. s \in [1 .. 0 -> {}] /\ Chain(EmptyList(I), s, 0)
  BY DEF EmptyList, Chain
<1> QED
  BY <1>1 DEF EmptyList, Lists, Holds

(* Pushing and removing keep the shape of a list, whatever it holds.        *)
LEMMA PushTyped ==
    ASSUME NEW I, NEW l \in Lists(I), NEW x \in I
    PROVE  PushItem(Zeroed(l, x), x) \in Lists(I)
<1>1. Zeroed(l, x) \in Lists(I)
  BY DEF Zeroed, Lists
<1> QED
  BY <1>1 DEF PushItem, Link, Lists

LEMMA RemoveTyped ==
    ASSUME NEW I, NEW l \in Lists(I), NEW x \in I
    PROVE  RemoveItem(l, x) \in Lists(I)
<1>1. /\ l.head \in I \cup {Null}
      /\ l.next \in [I -> I \cup {Null}] /\ l.prev \in [I -> I \cup {Null}]
  BY DEF Lists
<1>2. l.next[x] \in I \cup {Null} /\ l.prev[x] \in I \cup {Null}
  BY <1>1
<1>3. Link(l.next, l.prev[x], l.next[x]) \in [I -> I \cup {Null}]
  BY <1>1, <1>2 DEF Link
<1>4. Link(l.prev, l.next[x], l.prev[x]) \in [I -> I \cup {Null}]
  BY <1>1, <1>2 DEF Link
<1> QED
  BY <1>1, <1>2, <1>3, <1>4 DEF RemoveItem, Lists

(* Pushing an item that is not in the list puts it in front.                *)
LEMMA PushHolds ==
    ASSUME NEW I, Null \notin I, NEW l \in Lists(I), NEW M \in SUBSET I, NEW n, Holds(l, M, n),
           NEW x \in I \ M
    PROVE  Holds(PushItem(Zeroed(l, x), x), M \cup {x}, n + 1)
<1> DEFINE z == Zeroed(l, x)
           p == PushItem(z, x)
<1>1. n \in Nat
  BY DEF Holds
<1>2. PICK s \in [1 .. n -> M] : Chain(l, s, n) /\ \A y \in M : \E i \in 1 .. n : s[i] = y
  BY DEF Holds
<1>3. z \in Lists(I) /\ z.head = l.head
  BY DEF Zeroed, Lists
<1>4. /\ z.next[x] = Null /\ z.prev[x] = Null
      /\ \A y \in I \ {x} : z.next[y] = l.next[y] /\ z.prev[y] = l.prev[y]
  BY DEF Zeroed, Lists
<1>6. /\ p.head = x
      /\ p.next[x] = l.head /\ p.prev[x] = Null
      /\ \A y \in I \ {x} : /\ p.next[y] = l.next[y]
                            /\ p.prev[y] = IF y = l.head THEN x ELSE l.prev[y]
  <2>1. CASE l.head = Null
    BY <1>3, <1>4, <2>1 DEF PushItem, Link, Lists
  <2>2. CASE l.head # Null
    <3>1. n # 0 /\ l.head = s[1]
      BY <1>2, <2>2 DEF Chain
    <3>2. l.head \in M /\ l.head # x /\ l.head \in I
      BY <1>1, <1>2, <3>1
    <3> QED
      BY <1>3, <1>4, <2>2, <3>2 DEF PushItem, Link, Lists
  <2> QED
    BY <2>1, <2>2
<1> DEFINE t == [i \in 1 .. n + 1 |-> IF i = 1 THEN x ELSE s[i - 1]]
<1>7. t \in [1 .. n + 1 -> M \cup {x}]
  BY <1>1, <1>2
<1>8. \A y \in M \cup {x} : \E i \in 1 .. n + 1 : t[i] = y
  <2>1. t[1] = x
    BY <1>1
  <2>2. \A i \in 1 .. n : i + 1 \in 1 .. n + 1 /\ t[i + 1] = s[i]
    BY <1>1
  <2> TAKE y \in M \cup {x}
  <2>3. CASE y = x
    BY <1>1, <2>1, <2>3
  <2>4. CASE y \in M
    <3>1. PICK i \in 1 .. n : s[i] = y
      BY <1>2, <2>4
    <3> QED
      BY <2>2, <3>1
  <2> QED
    BY <2>3, <2>4
<1>9. Chain(p, t, n + 1)
  <2>1. \A i \in 1 .. n : s[i] \in M /\ s[i] # x /\ s[i] \in I
    BY <1>2
  <2>2. \A i \in 2 .. n + 1 : i - 1 \in 1 .. n /\ t[i] = s[i - 1] /\ t[i] # x /\ t[i] \in I
    BY <1>1, <2>1
  <2>3. t[1] = x /\ 1 \in 1 .. n + 1
    BY <1>1
  <2>4. \A i, j \in 1 .. n + 1 : i # j => t[i] # t[j]
    <3> TAKE i \in 1 .. n + 1, j \in 1 .. n + 1
    <3> HAVE i # j
    <3>1. CASE i = 1 \/ j = 1
      BY <1>1, <2>2, <2>3, <3>1
    <3>2. CASE i # 1 /\ j # 1
      <4>1. i \in 2 .. n + 1 /\ j \in 2 .. n + 1
        BY <1>1, <3>2
      <4>2. i - 1 # j - 1
        BY <4>1, <1>1
      <4> QED
        BY <1>2, <2>2, <4>1, <4>2 DEF Chain
    <3> QED
      BY <3>1, <3>2
  <2>5. \A i \in 1 .. n + 1 : /\ p.next[t[i]] = IF i = n + 1 THEN Null ELSE t[i + 1]
                              /\ p.prev[t[i]] = IF i = 1 THEN Null ELSE t[i - 1]
    <3> TAKE i \in 1 .. n + 1
    <3>1. CASE i = 1
      <4>1. CASE n = 0
        BY <1>2, <1>6, <2>3, <3>1, <4>1 DEF Chain
      <4>2. CASE n # 0
        <5>1. 2 \in 2 .. n + 1
          BY <1>1, <4>2
        <5>2. t[2] = s[1]
          BY <2>2, <5>1
        <5>3. l.head = s[1]
          BY <1>2, <4>2 DEF Chain
        <5> QED
          BY <1>1, <1>6, <2>3, <3>1, <4>2, <5>2, <5>3
      <4> QED
        BY <4>1, <4>2
    <3>2. CASE i # 1
      <4>1. i \in 2 .. n + 1
        BY <1>1, <3>2
      <4>2. /\ i - 1 \in 1 .. n /\ t[i] = s[i - 1] /\ t[i] \in I \ {x}
        BY <2>2, <4>1
      <4>3. p.next[t[i]] = IF i = n + 1 THEN Null ELSE t[i + 1]
        <5>1. l.next[s[i - 1]] = IF i - 1 = n THEN Null ELSE s[(i - 1) + 1]
          BY <1>2, <4>2 DEF Chain
        <5>2. i # n + 1 => i + 1 \in 2 .. n + 1 /\ t[i + 1] = s[i]
          <6> HAVE i # n + 1
          <6>1. i + 1 \in 2 .. n + 1
            BY <1>1, <4>1
          <6>2. (i + 1) - 1 = i
            BY <4>1
          <6> QED
            BY <2>2, <6>1, <6>2
        <5> QED
          BY <1>1, <1>6, <4>1, <4>2, <5>1, <5>2
      <4>4. p.prev[t[i]] = t[i - 1]
        <5>1. CASE i = 2
          <6>1. t[i] = s[1] /\ n # 0
            BY <1>1, <4>1, <4>2, <5>1
          <6>2. l.head = s[1]
            BY <1>2, <6>1 DEF Chain
          <6> QED
            BY <1>6, <2>3, <4>2, <5>1, <6>1, <6>2
        <5>2. CASE i # 2
          <6>1. i - 1 \in 2 .. n + 1 /\ i - 1 # 1 /\ 1 \in 1 .. n
            BY <1>1, <4>1, <5>2
          <6>2. l.prev[s[i - 1]] = s[(i - 1) - 1]
            BY <1>2, <4>2, <6>1 DEF Chain
          <6>3. t[i - 1] = s[(i - 1) - 1]
            BY <2>2, <6>1
          <6>4. l.head = s[1] /\ s[i - 1] # s[1]
            BY <1>1, <1>2, <4>2, <6>1 DEF Chain
          <6> QED
            BY <1>6, <4>2, <6>2, <6>3, <6>4
        <5> QED
          BY <5>1, <5>2
      <4> QED
        BY <3>2, <4>3, <4>4
    <3> QED
      BY <3>1, <3>2
  <2> QED
    BY <1>1, <1>6, <2>3, <2>4, <2>5 DEF Chain
<1> HIDE DEF t
<1>10. \E q \in [1 .. n + 1 -> M \cup {x}] :
           Chain(p, q, n + 1) /\ \A y \in M \cup {x} : \E i \in 1 .. n + 1 : q[i] = y
  BY <1>7, <1>8, <1>9
<1> HIDE DEF p
<1>11. n + 1 \in Nat
  BY <1>1
<1>12. Holds(p, M \cup {x}, n + 1)
  BY <1>10, <1>11 DEF Holds
<1> QED
  BY <1>12 DEF p

(* Removing an item closes the gap.                                         *)
LEMMA RemoveHolds ==
    ASSUME NEW I, Null \notin I, NEW l \in Lists(I), NEW M \in SUBSET I, NEW n, Holds(l, M, n),
           NEW x \in M
    PROVE  Holds(RemoveItem(l, x), M \ {x}, n - 1)
<1> DEFINE r == RemoveItem(l, x)
<1>1. n \in Nat
  BY DEF Holds
<1>2. PICK s \in [1 .. n -> M] : Chain(l, s, n) /\ \A y \in M : \E i \in 1 .. n : s[i] = y
  BY DEF Holds
<1>3. PICK k \in 1 .. n : s[k] = x
  BY <1>2
<1>4. /\ \A i, j \in 1 .. n : i # j => s[i] # s[j]
      /\ \A i \in 1 .. n : s[i] \in M /\ s[i] \in I /\ s[i] # Null
      /\ l.head = s[1]
      /\ \A i \in 1 .. n : /\ l.next[s[i]] = IF i = n THEN Null ELSE s[i + 1]
                           /\ l.prev[s[i]] = IF i = 1 THEN Null ELSE s[i - 1]
  BY <1>1, <1>2, <1>3 DEF Chain
\* What the macro reads.
<1>6. /\ l.next[x] = IF k = n THEN Null ELSE s[k + 1]
      /\ l.prev[x] = IF k = 1 THEN Null ELSE s[k - 1]
  BY <1>3, <1>4
<1>7. r.head = IF k = 1 THEN l.next[x] ELSE s[1]
  BY <1>1, <1>3, <1>4 DEF RemoveItem
<1>8. \A i \in 1 .. n : r.next[s[i]] = IF k # 1 /\ i = k - 1 THEN l.next[x] ELSE l.next[s[i]]
  <2> TAKE i \in 1 .. n
  <2>1. CASE k = 1
    BY <1>6, <2>1 DEF RemoveItem, Link
  <2>2. CASE k # 1
    <3>0. k - 1 \in 1 .. n
      BY <1>1, <2>2
    <3>1. k - 1 \in 1 .. n /\ l.prev[x] = s[k - 1] /\ s[k - 1] # Null
      BY <1>4, <1>6, <2>2, <3>0
    <3>2. s[i] = s[k - 1] <=> i = k - 1
      BY <1>4, <3>1
    <3>3. r.next = [l.next EXCEPT ![s[k - 1]] = l.next[x]]
      BY <3>1 DEF RemoveItem, Link
    <3>4. l.next \in [I -> I \cup {Null}] /\ s[i] \in I /\ s[k - 1] \in I
      BY <1>4, <3>1 DEF Lists
    <3>5. r.next[s[i]] = IF s[i] = s[k - 1] THEN l.next[x] ELSE l.next[s[i]]
      BY <3>3, <3>4
    <3> HIDE DEF r
    <3> QED
      BY <2>2, <3>2, <3>5
  <2> QED
    BY <2>1, <2>2
<1>9. \A i \in 1 .. n : r.prev[s[i]] = IF k # n /\ i = k + 1 THEN l.prev[x] ELSE l.prev[s[i]]
  <2> TAKE i \in 1 .. n
  <2>1. CASE k = n
    BY <1>6, <2>1 DEF RemoveItem, Link
  <2>2. CASE k # n
    <3>0. k + 1 \in 1 .. n
      BY <1>1, <2>2
    <3>1. k + 1 \in 1 .. n /\ l.next[x] = s[k + 1] /\ s[k + 1] # Null
      BY <1>4, <1>6, <2>2, <3>0
    <3>2. s[i] = s[k + 1] <=> i = k + 1
      BY <1>4, <3>1
    <3>3. r.prev = [l.prev EXCEPT ![s[k + 1]] = l.prev[x]]
      BY <3>1 DEF RemoveItem, Link
    <3>4. l.prev \in [I -> I \cup {Null}] /\ s[i] \in I /\ s[k + 1] \in I
      BY <1>4, <3>1 DEF Lists
    <3>5. r.prev[s[i]] = IF s[i] = s[k + 1] THEN l.prev[x] ELSE l.prev[s[i]]
      BY <3>3, <3>4
    <3> HIDE DEF r
    <3> QED
      BY <2>2, <3>2, <3>5
  <2> QED
    BY <2>1, <2>2
<1> HIDE DEF r
<1> DEFINE up(i) == IF i < k THEN i ELSE i + 1
           t == [i \in 1 .. n - 1 |-> s[up(i)]]
<1>10. \A i \in 1 .. n - 1 : up(i) \in 1 .. n /\ up(i) # k /\ t[i] = s[up(i)]
  BY <1>1, <1>3
<1>11. t \in [1 .. n - 1 -> M \ {x}]
  <2>1. \A i \in 1 .. n - 1 : s[up(i)] \in M \ {x}
    BY <1>3, <1>4, <1>10
  <2> QED
    BY <2>1
<1>12. \A y \in M \ {x} : \E i \in 1 .. n - 1 : t[i] = y
  <2> TAKE y \in M \ {x}
  <2>1. PICK j \in 1 .. n : s[j] = y
    BY <1>2
  <2>2. j # k
    BY <1>3, <2>1
  <2>3. CASE j < k
    <3>1. j \in 1 .. n - 1 /\ up(j) = j
      BY <1>1, <1>3, <2>3
    <3> QED
      BY <1>10, <2>1, <3>1
  <2>4. CASE j > k
    <3>1. j - 1 \in 1 .. n - 1 /\ up(j - 1) = j
      BY <1>1, <1>3, <2>4
    <3> QED
      BY <1>10, <2>1, <3>1
  <2> QED
    BY <1>3, <2>1, <2>2, <2>3, <2>4
<1>13. Chain(r, t, n - 1)
  <2>1. \A i, j \in 1 .. n - 1 : i # j => t[i] # t[j]
    <3> TAKE i \in 1 .. n - 1, j \in 1 .. n - 1
    <3> HAVE i # j
    <3>1. up(i) # up(j)
      BY <1>3
    <3> QED
      BY <1>4, <1>10, <3>1
  <2>2. r.head = IF n - 1 = 0 THEN Null ELSE t[1]
    <3>1. CASE n = 1
      <4>1. k = 1 /\ k = n
        BY <1>3, <3>1
      <4> QED
        BY <1>6, <1>7, <3>1, <4>1
    <3>2. CASE n # 1
      <4>1. 1 \in 1 .. n - 1 /\ t[1] = s[up(1)]
        BY <1>1, <1>3, <1>10, <3>2
      <4>2. CASE k = 1
        <5>1. up(1) = 2 /\ k + 1 = 2 /\ k # n
          BY <3>2, <4>2
        <5> QED
          BY <1>1, <1>6, <1>7, <3>2, <4>1, <4>2, <5>1
      <4>3. CASE k # 1
        <5>1. up(1) = 1
          BY <1>3, <4>3
        <5> QED
          BY <1>1, <1>7, <3>2, <4>1, <4>3, <5>1
      <4> QED
        BY <4>2, <4>3
    <3> QED
      BY <3>1, <3>2
  <2>3. \A i \in 1 .. n - 1 : r.next[t[i]] = IF i = n - 1 THEN Null ELSE t[i + 1]
    <3> TAKE i \in 1 .. n - 1
    <3>1. t[i] = s[up(i)] /\ up(i) \in 1 .. n
      BY <1>10
    <3>2. i # n - 1 => i + 1 \in 1 .. n - 1 /\ t[i + 1] = s[up(i + 1)]
      BY <1>1, <1>10
    <3>3. CASE i = k - 1
      <4>1. up(i) = i /\ k # 1 /\ (i # n - 1 => up(i + 1) = k + 1 /\ k # n) /\ (i = n - 1 => k = n)
        BY <1>1, <1>3, <3>3
      <4>2. r.next[t[i]] = l.next[x]
        BY <1>8, <3>1, <3>3, <4>1
      <4> QED
        BY <1>6, <3>2, <4>1, <4>2
    <3>4. CASE i # k - 1
      <4>1. /\ ~(k # 1 /\ up(i) = k - 1)
            /\ i = n - 1 <=> up(i) = n
            /\ i # n - 1 => up(i) + 1 = up(i + 1)
        BY <1>1, <1>3, <3>4
      <4>2. r.next[t[i]] = l.next[s[up(i)]]
        BY <1>8, <3>1, <4>1
      <4>3. l.next[s[up(i)]] = IF up(i) = n THEN Null ELSE s[up(i) + 1]
        BY <1>4, <3>1
      <4> QED
        BY <3>2, <4>1, <4>2, <4>3
    <3> QED
      BY <3>3, <3>4
  <2>4. \A i \in 1 .. n - 1 : r.prev[t[i]] = IF i = 1 THEN Null ELSE t[i - 1]
    <3> TAKE i \in 1 .. n - 1
    <3>1. t[i] = s[up(i)] /\ up(i) \in 1 .. n
      BY <1>10
    <3>2. i # 1 => i - 1 \in 1 .. n - 1 /\ t[i - 1] = s[up(i - 1)]
      BY <1>1, <1>10
    <3>3. CASE i = k
      <4>1. up(i) = k + 1 /\ k # n /\ (i # 1 => up(i - 1) = k - 1)
        BY <1>1, <1>3, <3>3
      <4>2. r.prev[t[i]] = l.prev[x]
        BY <1>9, <3>1, <3>3, <4>1
      <4> QED
        BY <1>6, <3>2, <3>3, <4>1, <4>2
    <3>4. CASE i # k
      <4>1. /\ ~(k # n /\ up(i) = k + 1)
            /\ i = 1 <=> up(i) = 1
            /\ i # 1 => up(i) - 1 = up(i - 1)
        BY <1>1, <1>3, <3>4
      <4>2. r.prev[t[i]] = l.prev[s[up(i)]]
        BY <1>9, <3>1, <4>1
      <4>3. l.prev[s[up(i)]] = IF up(i) = 1 THEN Null ELSE s[up(i) - 1]
        BY <1>4, <3>1
      <4> QED
        BY <3>2, <4>1, <4>2, <4>3
    <3> QED
      BY <3>3, <3>4
  <2> QED
    BY <2>1, <2>2, <2>3, <2>4 DEF Chain
<1> HIDE DEF t
<1>14. n - 1 \in Nat
  BY <1>1, <1>3
<1>15. \E q \in [1 .. n - 1 -> M \ {x}] :
           Chain(r, q, n - 1) /\ \A y \in M \ {x} : \E i \in 1 .. n - 1 : q[i] = y
  BY <1>11, <1>12, <1>13
<1>16. Holds(r, M \ {x}, n - 1)
  BY <1>14, <1>15 DEF Holds
<1> QED
  BY <1>16 DEF r

(* A list that holds M links its members in both directions, and their      *)
(* number is the length.                                                    *)
LEMMA HoldsLinked ==
    ASSUME NEW l, NEW M, Null \notin M, NEW n, Holds(l, M, n)
    PROVE  Linked(l, M) /\ IsFiniteSet(M) /\ Cardinality(M) = n
<1>1. n \in Nat
  BY DEF Holds
<1>2. PICK s \in [1 .. n -> M] : Chain(l, s, n) /\ \A y \in M : \E i \in 1 .. n : s[i] = y
  BY DEF Holds
<1>3. Linked(l, M)
  <2>1. l.head \in M \cup {Null}
    BY <1>1, <1>2 DEF Chain
  <2> SUFFICES ASSUME NEW x \in M
               PROVE  /\ l.next[x] \in M \cup {Null} /\ l.prev[x] \in M \cup {Null}
                      /\ l.next[x] # Null => l.prev[l.next[x]] = x
                      /\ l.prev[x] # Null => l.next[l.prev[x]] = x
                      /\ l.prev[x] = Null <=> x = l.head
    BY <2>1 DEF Linked
  <2>2. PICK k \in 1 .. n : s[k] = x
    BY <1>2
  <2>3. /\ l.next[x] = IF k = n THEN Null ELSE s[k + 1]
        /\ l.prev[x] = IF k = 1 THEN Null ELSE s[k - 1]
        /\ l.head = s[1]
    <3>1. l.head = s[1]
      <4>1. n # 0
        BY <2>2
      <4> QED
        BY <1>2, <4>1 DEF Chain
    <3>2. /\ l.next[s[k]] = IF k = n THEN Null ELSE s[k + 1]
          /\ l.prev[s[k]] = IF k = 1 THEN Null ELSE s[k - 1]
      BY <1>2 DEF Chain
    <3> QED
      BY <2>2, <3>1, <3>2
  <2>5. k # n => /\ k + 1 \in 1 .. n /\ s[k + 1] \in M
                 /\ l.prev[s[k + 1]] = s[k]
    <3> HAVE k # n
    <3>1. k + 1 \in 1 .. n /\ k + 1 # 1 /\ (k + 1) - 1 = k
      BY <1>1, <2>2
    <3> QED
      BY <1>2, <3>1 DEF Chain
  <2>6. k # 1 => /\ k - 1 \in 1 .. n /\ s[k - 1] \in M
                 /\ l.next[s[k - 1]] = s[k]
    <3> HAVE k # 1
    <3>1. k - 1 \in 1 .. n /\ k - 1 # n /\ (k - 1) + 1 = k
      BY <1>1, <2>2
    <3> QED
      BY <1>2, <3>1 DEF Chain
  <2>7. k = 1 <=> x = l.head
    <3>1. 1 \in 1 .. n
      BY <1>1, <2>2
    <3> QED
      BY <1>2, <2>2, <2>3, <3>1 DEF Chain
  <2>9. /\ l.next[x] \in M \cup {Null}
        /\ l.next[x] # Null => l.prev[l.next[x]] = x
    BY <2>2, <2>3, <2>5
  <2>10. /\ l.prev[x] \in M \cup {Null}
         /\ l.prev[x] # Null => l.next[l.prev[x]] = x
    BY <2>2, <2>3, <2>6
  <2>11. l.prev[x] = Null <=> x = l.head
    <3>1. k # 1 => s[k - 1] # Null
      BY <2>6
    <3> QED
      BY <2>3, <2>7, <3>1
  <2> QED
    BY <2>9, <2>10, <2>11
<1>4. ExistsBijection(1 .. n, M)
  <2>1. \A i, j \in 1 .. n : s[i] = s[j] => i = j
    BY <1>2 DEF Chain
  <2>2. s \in Injection(1 .. n, M)
    BY <1>2, <2>1 DEF Injection, IsInjective
  <2>3. s \in Surjection(1 .. n, M)
    BY <1>2 DEF Surjection
  <2> QED
    BY <2>2, <2>3 DEF Bijection, ExistsBijection
<1>5. IsFiniteSet(M)
  BY <1>1, <1>4, FS_NatBijection
<1>6. Cardinality(M) = n
  BY <1>1, <1>4, <1>5, FS_CountingElements
<1> QED
  BY <1>3, <1>5, <1>6

(* A list without a head holds nothing.                                     *)
LEMMA HeadlessHolds ==
    ASSUME NEW l, NEW M, Null \notin M, NEW n, Holds(l, M, n), l.head = Null
    PROVE  M = {} /\ n = 0
<1>1. n \in Nat
  BY DEF Holds
<1>2. PICK s \in [1 .. n -> M] : Chain(l, s, n) /\ \A y \in M : \E i \in 1 .. n : s[i] = y
  BY DEF Holds
<1>3. ASSUME n # 0
      PROVE  FALSE
  <2>1. 1 \in 1 .. n
    BY <1>1, <1>3
  <2>2. l.head = s[1] /\ s[1] \in M
    BY <1>2, <1>3, <2>1 DEF Chain
  <2> QED
    BY <2>2
<1> QED
  BY <1>2, <1>3

(* A nonempty set of naturals has a least member: the induction the walks   *)
(* along a list need.                                                       *)
LEMMA LeastNat ==
    ASSUME NEW T, T \subseteq Nat, T # {}
    PROVE  \E x \in T : \A y \in T : ~(y < x)
<1>1. IsWellFoundedOn(OpToRel(<, Nat), Nat)
  BY NatLessThanWellFounded
<1>2. \E x \in T : \A y \in T : ~(<<y, x>> \in OpToRel(<, Nat))
  BY <1>1, WFMin
<1>3. \A x, y \in Nat : y < x => <<y, x>> \in OpToRel(<, Nat)
  BY DEF OpToRel
<1> QED
  BY <1>2, <1>3

(* Steps satisfies its recursive equation as soon as some function does.    *)
LEMMA StepsFcn ==
    ASSUME NEW l, NEW m \in Nat, NEW f,
           f = [k \in 0 .. m |-> IF k = 0 THEN l.head
                                 ELSE IF f[k - 1] = Null THEN Null ELSE l.next[f[k - 1]]]
    PROVE  Steps(l, m) = [k \in 0 .. m |-> IF k = 0 THEN l.head
                                           ELSE IF Steps(l, m)[k - 1] = Null THEN Null
                                                ELSE l.next[Steps(l, m)[k - 1]]]
<1> DEFINE D(g) == [k \in 0 .. m |-> IF k = 0 THEN l.head
                                     ELSE IF g[k - 1] = Null THEN Null ELSE l.next[g[k - 1]]]
<1>1. Steps(l, m) = CHOOSE g : g = D(g)
  BY DEF Steps
<1>2. f = D(f)
  OBVIOUS
<1> HIDE DEF D
<1>3. Steps(l, m) = D(Steps(l, m))
  BY <1>1, <1>2
<1> QED
  BY <1>3 DEF D

\* The items at the first n places.
Passed(at, n) == {at[k] : k \in 0 .. n - 1}

(* Counting n - 1 or n steps from the head of a list that holds n items     *)
(* passes every one of them first.                                          *)
LEMMA StepsThrough ==
    ASSUME NEW l, NEW M, Null \notin M, NEW n, Holds(l, M, n), NEW m \in {n - 1, n}
    PROVE  Passed(Steps(l, m), n) = M
<1>1. n \in Nat
  BY DEF Holds
<1>2. PICK s \in [1 .. n -> M] : Chain(l, s, n) /\ \A y \in M : \E i \in 1 .. n : s[i] = y
  BY DEF Holds
<1>3. CASE n = 0
  <2>1. M = {}
    BY <1>2, <1>3
  <2>2. 0 .. n - 1 = {}
    BY <1>3
  <2> QED
    BY <2>1, <2>2 DEF Passed
<1>4. CASE n # 0
  <2> DEFINE at == Steps(l, m)
             f == [k \in 0 .. m |-> IF k < n THEN s[k + 1] ELSE Null]
  <2>1. m \in Nat /\ n \in Nat \ {0} /\ (m = n - 1 \/ m = n)
    BY <1>1, <1>4
  <2>2. l.head = s[1]
    BY <1>2, <1>4 DEF Chain
  <2>3. \A k \in 1 .. n : s[k] \in M /\ s[k] # Null
    BY <1>2
  <2>4. \A k \in 1 .. n : l.next[s[k]] = IF k = n THEN Null ELSE s[k + 1]
    BY <1>2 DEF Chain
  <2>5. \A k \in 0 .. m : k # 0 => k \in 1 .. m /\ k - 1 \in 0 .. m /\ k - 1 < n /\ (k - 1) + 1 = k
                                   /\ k \in 1 .. n
    BY <2>1
  <2>6. \A k \in 0 .. m : f[k] = IF k = 0 THEN l.head
                                 ELSE IF f[k - 1] = Null THEN Null ELSE l.next[f[k - 1]]
    <3> TAKE k \in 0 .. m
    <3>1. CASE k = 0
      BY <2>1, <2>2, <3>1
    <3>2. CASE k # 0
      <4>1. f[k - 1] = s[k] /\ s[k] # Null /\ k \in 1 .. n
        BY <2>3, <2>5, <3>2
      <4>2. f[k] = IF k = n THEN Null ELSE s[k + 1]
        BY <2>1, <4>1
      <4> QED
        BY <2>4, <3>2, <4>1, <4>2
    <3> QED
      BY <3>1, <3>2
  <2>7. f = [k \in 0 .. m |-> IF k = 0 THEN l.head
                              ELSE IF f[k - 1] = Null THEN Null ELSE l.next[f[k - 1]]]
    BY <2>6
  <2>8. \A k \in 0 .. n - 1 : k \in 0 .. m /\ k + 1 \in 1 .. n /\ f[k] = s[k + 1]
    BY <2>1
  <2> HIDE DEF f
  <2>9. at = [k \in 0 .. m |-> IF k = 0 THEN l.head
                               ELSE IF at[k - 1] = Null THEN Null ELSE l.next[at[k - 1]]]
    BY <2>1, <2>7, StepsFcn, SMTT(60)
  <2> HIDE DEF at
  <2> DEFINE T == {k \in 0 .. m : at[k] # f[k]}
  <2>10. T = {}
    <3> SUFFICES ASSUME T # {} PROVE FALSE
      OBVIOUS
    <3>1. T \subseteq Nat
      BY <2>1
    <3>2. PICK x \in T : \A y \in T : ~(y < x)
      <4> HIDE DEF T
      <4> QED
        BY <3>1, LeastNat
    <3>3. x \in 0 .. m /\ at[x] # f[x]
      OBVIOUS
    <3>4. x # 0
      BY <2>6, <2>9, <3>3
    <3>5. x - 1 \in 0 .. m /\ x - 1 < x
      BY <2>1, <3>3, <3>4
    <3>6. at[x - 1] = f[x - 1]
      BY <3>2, <3>5
    <3> QED
      BY <2>6, <2>9, <3>3, <3>4, <3>6
  <2>11. \A k \in 0 .. n - 1 : at[k] = s[k + 1] /\ k + 1 \in 1 .. n
    BY <2>8, <2>10
  <2>12. {at[k] : k \in 0 .. n - 1} \subseteq M
    BY <2>3, <2>11
  <2>13. ASSUME NEW y \in M
         PROVE  y \in {at[k] : k \in 0 .. n - 1}
    <3>1. PICK i \in 1 .. n : s[i] = y
      BY <1>2
    <3>2. i - 1 \in 0 .. n - 1 /\ (i - 1) + 1 = i
      BY <2>1
    <3>3. at[i - 1] = y
      BY <2>11, <3>1, <3>2
    <3> QED
      BY <3>2, <3>3
  <2> QED
    BY <2>12, <2>13 DEF at, Passed
<1> QED
  BY <1>3, <1>4

-----------------------------------------------------------------------------
(* Engine.  Its lists hold what they should and are as long as their counts: *)
(* each holds, in some order, the members it should.                         *)

\* The engines of a library that was shut down are gone, and what its list still
\* links matters to nobody.
EnginesHeld ==
    IF library = "shut"
    THEN /\ engine = {} /\ nEngine = 0
         /\ \E M \in SUBSET Engines, n \in Nat : Holds(pEngines, M, n)
    ELSE Holds(pEngines, engine, nEngine)

VmsHeld == \A e \in engine \ misused : Holds(pVms[e], Compiled(e), iVm[e])

OwnersLive == \A v \in Vms : nMagic[v] # "free" => owner[v] \in engine

Inv == TypeOK /\ EnginesHeld /\ VmsHeld /\ OwnersLive /\ WalksEnd

\* What every action finds.
LEMMA Compiles ==
    ASSUME TypeOK
    PROVE  /\ \A e : Compiled(e) = {v \in Vms : owner[v] = e /\ nMagic[v] \in {"run", "exec"}}
           /\ \A e : Compiled(e) \subseteq Allocated(e) /\ Compiled(e) \subseteq Vms
BY DEF TypeOK, Compiled, Allocated, VmStates

(* The list of an engine that a step leaves alone is still right.           *)
LEMMA Untouched ==
    ASSUME Inv, NEW e, e \in engine, e \notin misused,
           pVms'[e] = pVms[e], iVm'[e] = iVm[e], Compiled(e)' = Compiled(e)
    PROVE  Holds(pVms'[e], Compiled(e)', iVm'[e])
BY DEF Inv, VmsHeld

(* The invariant holds at the start.                                        *)
LEMMA StartHolds == Init => Inv
<1> SUFFICES ASSUME Init PROVE Inv
  OBVIOUS
<1>1. EmptyList(Engines) \in Lists(Engines) /\ Holds(EmptyList(Engines), {}, 0)
  BY EmptyHolds
<1>2. EmptyList(Vms) \in Lists(Vms)
  BY EmptyHolds
<1>3. TypeOK
  BY <1>1, <1>2 DEF Init, TypeOK, Lists, VmStates
<1> QED
  BY <1>1, <1>3 DEF Init, Inv, EnginesHeld, VmsHeld, OwnersLive, WalksEnd

(* ph7_init: the new engine is put in front, without VMs.                   *)
LEMMA InitKeeps ==
    ASSUME Inv, NEW e \in Engines, ph7_init(e)
    PROVE  Inv'
<1>1. TypeOK'
  <2>1. PushItem(Zeroed(pEngines, e), e) \in Lists(Engines)
    BY PushTyped DEF Inv, TypeOK, Lists
  <2>2. EmptyList(Vms) \in Lists(Vms)
    BY EmptyHolds
  <2> QED
    BY <2>1, <2>2 DEF Inv, TypeOK, ph7_init, Lists
<1>2. EnginesHeld'
  <2>1. Holds(pEngines, engine, nEngine)
    <3>1. CASE library = "shut"
      <4>1. PICK M \in SUBSET Engines, n \in Nat : Holds(pEngines, M, n)
        BY <3>1 DEF Inv, EnginesHeld
      <4>2. pEngines.head = Null /\ Null \notin M
        BY <3>1, <4>1, EngineAssumption DEF ph7_init
      <4>3. M = {} /\ n = 0
        BY <4>1, <4>2, HeadlessHolds
      <4> QED
        BY <3>1, <4>1, <4>3 DEF Inv, EnginesHeld
    <3>2. CASE library # "shut"
      BY <3>2 DEF Inv, EnginesHeld
    <3> QED
      BY <3>1, <3>2
  <2>2. pEngines \in Lists(Engines) /\ engine \in SUBSET Engines /\ Null \notin Engines
    BY EngineAssumption DEF Inv, TypeOK, Lists
  <2>3. e \in Engines \ engine
    BY DEF ph7_init
  <2>4. Holds(PushItem(Zeroed(pEngines, e), e), engine \cup {e}, nEngine + 1)
    BY <2>1, <2>2, <2>3, PushHolds
  <2> QED
    BY <2>4 DEF ph7_init, EnginesHeld
<1>3. VmsHeld'
  <2> SUFFICES ASSUME NEW d \in engine', d \notin misused'
               PROVE  Holds(pVms'[d], Compiled(d)', iVm'[d])
    BY DEF VmsHeld
  <2>1. CASE d = e
    <3>1. Compiled(e)' = {}
      BY DEF Inv, OwnersLive, Compiled, Allocated, ph7_init
    <3>2. pVms'[e] = EmptyList(Vms) /\ iVm'[e] = 0
      BY DEF Inv, TypeOK, ph7_init
    <3> QED
      BY <2>1, <3>1, <3>2, EmptyHolds
  <2>2. CASE d # e
    <3>1. d \in engine /\ d \notin misused /\ pVms'[d] = pVms[d] /\ iVm'[d] = iVm[d]
      BY <2>2 DEF Inv, TypeOK, ph7_init
    <3>2. Compiled(d)' = Compiled(d)
      BY DEF Compiled, Allocated, ph7_init
    <3> QED
      BY <3>1, <3>2, Untouched
  <2> QED
    BY <2>1, <2>2
<1>4. OwnersLive' /\ WalksEnd'
  BY DEF Inv, OwnersLive, WalksEnd, ph7_init
<1> QED
  BY <1>1, <1>2, <1>3, <1>4 DEF Inv

(* ph7_vm_init: a VM that is in no list yet.                                *)
LEMMA VmInitKeeps ==
    ASSUME Inv, NEW e \in Engines, NEW v \in Vms, ph7_vm_init(e, v)
    PROVE  Inv'
<1>1. TypeOK'
  BY DEF Inv, TypeOK, VmStates, ph7_vm_init, engineVars
<1>2. \A d : Compiled(d)' = Compiled(d)
  BY DEF Inv, TypeOK, Compiled, Allocated, ph7_vm_init
<1>3. VmsHeld'
  BY <1>2 DEF Inv, VmsHeld, ph7_vm_init, engineVars
<1>4. EnginesHeld' /\ OwnersLive' /\ WalksEnd'
  BY DEF Inv, TypeOK, EnginesHeld, OwnersLive, WalksEnd, ph7_vm_init, engineVars
<1> QED
  BY <1>1, <1>3, <1>4 DEF Inv

(* Compile: the VM is put in front of the list of its engine.               *)
LEMMA CompileKeeps ==
    ASSUME Inv, NEW v \in Vms, Compile(v)
    PROVE  Inv'
<1> DEFINE e == owner[v]
<1>1. /\ e \in engine /\ e \in Engines
      /\ nMagic[v] = "init" /\ nMagic' = [nMagic EXCEPT ![v] = "run"]
      /\ pVms' = [pVms EXCEPT ![e] = PushItem(Zeroed(@, v), v)]
      /\ iVm' = [iVm EXCEPT ![e] = @ + 1]
      /\ UNCHANGED <<engineVars, owner, created, misused, walk>>
  BY DEF Inv, TypeOK, Compile, VmCounted
<1>2. pVms \in [Engines -> Lists(Vms)] /\ iVm \in [Engines -> Int]
  BY DEF Inv, TypeOK, Lists
<1>3. TypeOK'
  <2>1. PushItem(Zeroed(pVms[e], v), v) \in Lists(Vms)
    BY <1>1, <1>2, PushTyped
  <2>2. pVms' \in [Engines -> Lists(Vms)]
    BY <1>1, <1>2, <2>1
  <2>3. iVm' \in [Engines -> Int] /\ nMagic' \in [Vms -> VmStates]
    BY <1>1, <1>2 DEF Inv, TypeOK, VmStates
  <2> QED
    BY <1>1, <2>2, <2>3 DEF Inv, TypeOK, Lists, engineVars
<1>4. VmsHeld'
  <2> SUFFICES ASSUME NEW d \in engine', d \notin misused'
               PROVE  Holds(pVms'[d], Compiled(d)', iVm'[d])
    BY DEF VmsHeld
  <2>1. d \in engine /\ d \notin misused /\ d \in Engines
    BY <1>1 DEF Inv, TypeOK, engineVars
  <2>2. CASE d = e
    <3>1. Holds(pVms[e], Compiled(e), iVm[e])
      BY <2>1, <2>2 DEF Inv, VmsHeld
    <3>2. v \in Vms \ Compiled(e) /\ Compiled(e) \in SUBSET Vms /\ Null \notin Vms
      BY <1>1, EngineAssumption DEF Compiled, Allocated
    <3>3. Holds(PushItem(Zeroed(pVms[e], v), v), Compiled(e) \cup {v}, iVm[e] + 1)
      BY <1>1, <1>2, <3>1, <3>2, PushHolds
    <3>4. Compiled(d)' = Compiled(e) \cup {v}
      <4>1. nMagic \in [Vms -> VmStates] /\ owner' = owner
        BY <1>1 DEF Inv, TypeOK
      <4> QED
        BY <1>1, <2>2, <4>1 DEF Compiled, Allocated
    <3>5. pVms'[e] = PushItem(Zeroed(pVms[e], v), v) /\ iVm'[e] = iVm[e] + 1
      BY <1>1, <1>2
    <3> QED
      BY <2>2, <3>3, <3>4, <3>5
  <2>3. CASE d # e
    <3>1. pVms'[d] = pVms[d] /\ iVm'[d] = iVm[d]
      BY <1>1, <1>2, <2>1, <2>3
    <3>2. Compiled(d)' = Compiled(d)
      <4>1. nMagic \in [Vms -> VmStates] /\ owner' = owner
        BY <1>1 DEF Inv, TypeOK
      <4>2. \A w \in Vms : owner[w] = d => nMagic'[w] = nMagic[w]
        BY <1>1, <2>3, <4>1
      <4> QED
        BY <4>1, <4>2 DEF Compiled, Allocated
    <3> QED
      BY <2>1, <3>1, <3>2, Untouched
  <2> QED
    BY <2>2, <2>3
<1>5. EnginesHeld' /\ OwnersLive' /\ WalksEnd'
  BY <1>1 DEF Inv, TypeOK, EnginesHeld, OwnersLive, WalksEnd, engineVars
<1> QED
  BY <1>3, <1>4, <1>5 DEF Inv

(* The failure path of ProcessSourceFile: a VM that was in the list sets its *)
(* engine apart.                                                            *)
LEMMA CompileFailsKeeps ==
    ASSUME Inv, NEW v \in Vms, CompileFails(v)
    PROVE  Inv'
<1> USE DEF CompileFails, engineVars
<1>1. nMagic \in [Vms -> VmStates] /\ owner \in [Vms -> Engines \cup {Null}]
  BY DEF Inv, TypeOK
<1>2. TypeOK'
  BY DEF Inv, TypeOK, VmStates
<1>3. VmsHeld'
  <2> SUFFICES ASSUME NEW d \in engine', d \notin misused'
               PROVE  Holds(pVms'[d], Compiled(d)', iVm'[d])
    BY DEF VmsHeld
  <2>1. d \in engine /\ d \notin misused
    OBVIOUS
  <2>2. d = owner[v] => nMagic[v] = "init"
    OBVIOUS
  <2>3. Compiled(d)' = Compiled(d)
    BY <1>1, <2>2 DEF Compiled, Allocated
  <2> QED
    BY <2>1, <2>3, Untouched
<1>4. EnginesHeld' /\ OwnersLive' /\ WalksEnd'
  BY <1>1 DEF Inv, EnginesHeld, OwnersLive, WalksEnd
<1> QED
  BY <1>2, <1>3, <1>4 DEF Inv

(* Executing and resetting change no list.                                  *)
LEMMA ExecKeeps ==
    ASSUME Inv, NEW v \in Vms, ph7_vm_exec(v) \/ ph7_vm_reset(v)
    PROVE  Inv'
<1> USE DEF ph7_vm_exec, ph7_vm_reset, engineVars
<1>1. nMagic \in [Vms -> VmStates] /\ owner \in [Vms -> Engines \cup {Null}]
  BY DEF Inv, TypeOK
<1>2. /\ nMagic[v] \in {"run", "exec"} /\ owner[v] \in engine
      /\ nMagic' \in [Vms -> VmStates] /\ nMagic'[v] \in {"run", "exec"}
      /\ \A w \in Vms \ {v} : nMagic'[w] = nMagic[w]
      /\ UNCHANGED <<library, pEngines, nEngine, engine, pVms, iVm, owner, created, misused, walk>>
  BY <1>1 DEF VmStates
<1> HIDE DEF ph7_vm_exec, ph7_vm_reset
<1>3. TypeOK'
  BY <1>2 DEF Inv, TypeOK
<1>4. \A d : Compiled(d)' = Compiled(d)
  BY <1>1, <1>2 DEF Compiled, Allocated
<1>5. VmsHeld'
  BY <1>2, <1>4 DEF Inv, VmsHeld
<1>6. EnginesHeld' /\ OwnersLive' /\ WalksEnd'
  BY <1>2 DEF Inv, EnginesHeld, OwnersLive, WalksEnd
<1> QED
  BY <1>3, <1>5, <1>6 DEF Inv

(* ph7_vm_release: a VM of the list is taken out of it; one that was never   *)
(* compiled sets its engine apart.                                          *)
LEMMA VmReleaseKeeps ==
    ASSUME Inv, NEW v \in Vms, ph7_vm_release(v)
    PROVE  Inv'
<1> DEFINE e == owner[v]
<1>1. /\ e \in engine /\ e \in Engines
      /\ nMagic[v] # "free" /\ nMagic' = [nMagic EXCEPT ![v] = "free"]
      /\ pVms' = [pVms EXCEPT ![e] = RemoveItem(@, v)]
      /\ iVm' = [iVm EXCEPT ![e] = @ - 1]
      /\ misused' = IF nMagic[v] = "init" THEN misused \cup {e} ELSE misused
      /\ UNCHANGED <<engineVars, owner, created, walk>>
  BY DEF Inv, TypeOK, ph7_vm_release
<1>2. pVms \in [Engines -> Lists(Vms)] /\ iVm \in [Engines -> Int]
      /\ nMagic \in [Vms -> VmStates] /\ owner' = owner
  BY <1>1 DEF Inv, TypeOK, Lists
<1>3. TypeOK'
  <2>1. RemoveItem(pVms[e], v) \in Lists(Vms)
    BY <1>1, <1>2, RemoveTyped
  <2>2. pVms' \in [Engines -> Lists(Vms)]
    BY <1>1, <1>2, <2>1
  <2>3. iVm' \in [Engines -> Int] /\ nMagic' \in [Vms -> VmStates]
    BY <1>1, <1>2 DEF VmStates
  <2>4. misused' \in SUBSET Engines
    BY <1>1 DEF Inv, TypeOK
  <2> QED
    BY <1>1, <2>2, <2>3, <2>4 DEF Inv, TypeOK, Lists, engineVars
<1>4. VmsHeld'
  <2> SUFFICES ASSUME NEW d \in engine', d \notin misused'
               PROVE  Holds(pVms'[d], Compiled(d)', iVm'[d])
    BY DEF VmsHeld
  <2>1. d \in engine /\ d \notin misused /\ d \in Engines
    BY <1>1 DEF Inv, TypeOK, engineVars
  <2>2. CASE d = e
    <3>1. Holds(pVms[e], Compiled(e), iVm[e])
      BY <2>1, <2>2 DEF Inv, VmsHeld
    <3>2. v \in Compiled(e) /\ Compiled(e) \in SUBSET Vms /\ Null \notin Vms
      BY <1>1, <2>2, EngineAssumption DEF Compiled, Allocated
    <3>3. Holds(RemoveItem(pVms[e], v), Compiled(e) \ {v}, iVm[e] - 1)
      BY <1>1, <1>2, <3>1, <3>2, RemoveHolds
    <3>4. Compiled(d)' = Compiled(e) \ {v}
      BY <1>1, <1>2, <2>2 DEF Compiled, Allocated
    <3>5. pVms'[e] = RemoveItem(pVms[e], v) /\ iVm'[e] = iVm[e] - 1
      BY <1>1, <1>2
    <3> QED
      BY <2>2, <3>3, <3>4, <3>5
  <2>3. CASE d # e
    <3>1. pVms'[d] = pVms[d] /\ iVm'[d] = iVm[d]
      BY <1>1, <1>2, <2>1, <2>3
    <3>2. \A w \in Vms : owner[w] = d => nMagic'[w] = nMagic[w]
      BY <1>1, <1>2, <2>3
    <3>3. Compiled(d)' = Compiled(d)
      BY <1>2, <3>2 DEF Compiled, Allocated
    <3> QED
      BY <2>1, <3>1, <3>3, Untouched
  <2> QED
    BY <2>2, <2>3
<1>5. EnginesHeld' /\ OwnersLive' /\ WalksEnd'
  BY <1>1, <1>2 DEF Inv, EnginesHeld, OwnersLive, WalksEnd, engineVars
<1> QED
  BY <1>3, <1>4, <1>5 DEF Inv

(* The walk of an engine that is released passes exactly the VMs it has      *)
(* compiled.                                                                *)
LEMMA ReleasedCompiled ==
    ASSUME Inv, NEW e \in engine \ misused
    PROVE  Released(e) = Compiled(e)
<1>1. Holds(pVms[e], Compiled(e), iVm[e])
  BY DEF Inv, VmsHeld
<1>2. Null \notin Compiled(e)
  BY EngineAssumption DEF Compiled, Allocated
<1> DEFINE n == iVm[e]
           m == n - 1
<1>3. Holds(pVms[e], Compiled(e), n) /\ m \in {n - 1, n}
  BY <1>1
<1> HIDE DEF m, n
<1>4. Passed(Steps(pVms[e], m), n) = Compiled(e)
  BY ONLY <1>2, <1>3, StepsThrough
<1> QED
  BY <1>4 DEF Released, Passed, m, n

(* ... so giving engines back walks to the end, and leaves the VMs of the    *)
(* others alone.                                                            *)
LEMMA FreeKeeps ==
    ASSUME Inv, NEW es \in SUBSET engine, FreeEngines(es),
           UNCHANGED <<pVms, iVm, owner, misused>>
    PROVE  /\ WalksEnd' /\ OwnersLive' /\ VmsHeld'
           /\ nMagic' \in [Vms -> VmStates] /\ engine' = engine \ es
<1>1. WalksEnd'
  <2>1. \A e \in es \ misused : ~Strays(e) /\ Compiled(e) \subseteq Released(e)
    <3> TAKE e \in es \ misused
    <3>1. Released(e) = Compiled(e)
      BY ReleasedCompiled
    <3>2. Compiled(e) \subseteq Allocated(e)
      BY DEF Compiled
    <3> QED
      BY <3>1, <3>2 DEF Strays
  <2> QED
    BY <2>1 DEF FreeEngines, WalksEnd, Inv
<1>2. /\ nMagic \in [Vms -> VmStates]
      /\ nMagic' = [v \in Vms |-> IF owner[v] \in es THEN "free" ELSE nMagic[v]]
      /\ engine' = engine \ es
  BY DEF Inv, TypeOK, FreeEngines
<1>3. OwnersLive'
  BY <1>2 DEF Inv, OwnersLive
<1>4. VmsHeld'
  <2> SUFFICES ASSUME NEW d \in engine', d \notin misused'
               PROVE  Holds(pVms'[d], Compiled(d)', iVm'[d])
    BY DEF VmsHeld
  <2>1. d \in engine /\ d \notin misused /\ d \notin es
    BY <1>2
  <2>2. \A w \in Vms : owner[w] = d => nMagic'[w] = nMagic[w]
    BY <1>2, <2>1
  <2>3. Compiled(d)' = Compiled(d)
    BY <2>2 DEF Compiled, Allocated
  <2> QED
    BY <2>1, <2>3, Untouched
<1>5. nMagic' \in [Vms -> VmStates]
  BY <1>2 DEF VmStates
<1> QED
  BY <1>1, <1>2, <1>3, <1>4, <1>5

(* ph7_release: the engine is taken out of the list of the library.         *)
LEMMA ReleaseKeeps ==
    ASSUME Inv, NEW e \in Engines, ph7_release(e)
    PROVE  Inv'
<1>1. e \in engine /\ FreeEngines({e})
      /\ pEngines' = RemoveItem(pEngines, e) /\ nEngine' = nEngine - 1
      /\ UNCHANGED <<library, pVms, iVm, owner, created, misused>>
  BY DEF ph7_release
<1>2. /\ WalksEnd' /\ OwnersLive' /\ VmsHeld'
      /\ nMagic' \in [Vms -> VmStates] /\ engine' = engine \ {e}
  BY <1>1, FreeKeeps
<1>3. pEngines \in Lists(Engines) /\ engine \in SUBSET Engines /\ Null \notin Engines
  BY EngineAssumption DEF Inv, TypeOK, Lists
<1>4. TypeOK'
  <2>1. RemoveItem(pEngines, e) \in Lists(Engines)
    BY <1>3, RemoveTyped
  <2>2. walk' = "ended"
    BY <1>2 DEF WalksEnd
  <2> QED
    BY <1>1, <1>2, <2>1, <2>2 DEF Inv, TypeOK, Lists
<1>5. EnginesHeld'
  <2>1. library # "shut" /\ Holds(pEngines, engine, nEngine)
    BY <1>1 DEF Inv, EnginesHeld
  <2>2. Holds(RemoveItem(pEngines, e), engine \ {e}, nEngine - 1)
    BY <1>1, <1>3, <2>1, RemoveHolds
  <2> QED
    BY <1>1, <1>2, <2>1, <2>2 DEF EnginesHeld
<1> QED
  BY <1>2, <1>4, <1>5 DEF Inv

(* ph7_lib_shutdown: the walk passes exactly the engines that are allocated. *)
LEMMA ShutdownKeeps ==
    ASSUME Inv, ph7_lib_shutdown
    PROVE  Inv'
<1>1. library = "init" /\ Holds(pEngines, engine, nEngine)
  BY DEF Inv, EnginesHeld, ph7_lib_shutdown
<1>2. Null \notin engine
  BY EngineAssumption DEF Inv, TypeOK
<1>3. {Steps(pEngines, nEngine - 1)[k] : k \in 0 .. nEngine - 1} = engine
  <2> DEFINE m == nEngine - 1
  <2>1. m \in {nEngine - 1, nEngine}
    OBVIOUS
  <2> HIDE DEF m
  <2>2. Passed(Steps(pEngines, m), nEngine) = engine
    BY ONLY <1>1, <1>2, <2>1, StepsThrough
  <2> QED
    BY <2>2 DEF m, Passed
<1>4. FreeEngines(engine) /\ library' = "shut" /\ nEngine' = 0
      /\ UNCHANGED <<pEngines, pVms, iVm, owner, created, misused>>
  BY <1>3 DEF ph7_lib_shutdown
<1>5. /\ WalksEnd' /\ OwnersLive' /\ VmsHeld'
      /\ nMagic' \in [Vms -> VmStates] /\ engine' = {}
  BY <1>4, FreeKeeps
<1>6. TypeOK'
  <2>1. walk' = "ended"
    BY <1>5 DEF WalksEnd
  <2> QED
    BY <1>4, <1>5, <2>1 DEF Inv, TypeOK
<1>7. EnginesHeld'
  <2>1. engine \in SUBSET Engines /\ nEngine \in Nat
    BY <1>1 DEF Inv, TypeOK, Holds
  <2>2. \E M \in SUBSET Engines, n \in Nat : Holds(pEngines', M, n)
    BY <1>1, <1>4, <2>1
  <2> QED
    BY <1>4, <1>5, <2>2 DEF EnginesHeld
<1> QED
  BY <1>5, <1>6, <1>7 DEF Inv

(* Every step of Engine keeps the invariant.                                *)
LEMMA StepKeeps == Inv /\ [Next]_vars => Inv'
<1> SUFFICES ASSUME Inv, [Next]_vars PROVE Inv'
  OBVIOUS
<1>1. ASSUME NEW e \in Engines, ph7_init(e) PROVE Inv'
  BY <1>1, InitKeeps
<1>2. ASSUME NEW e \in Engines, ph7_release(e) PROVE Inv'
  BY <1>2, ReleaseKeeps
<1>3. ASSUME NEW e \in Engines, NEW v \in Vms, ph7_vm_init(e, v) PROVE Inv'
  BY <1>3, VmInitKeeps
<1>4. ASSUME NEW v \in Vms, Compile(v) PROVE Inv'
  BY <1>4, CompileKeeps
<1>5. ASSUME NEW v \in Vms, CompileFails(v) PROVE Inv'
  BY <1>5, CompileFailsKeeps
<1>6. ASSUME NEW v \in Vms, ph7_vm_exec(v) \/ ph7_vm_reset(v) PROVE Inv'
  BY <1>6, ExecKeeps
<1>7. ASSUME NEW v \in Vms, ph7_vm_release(v) PROVE Inv'
  BY <1>7, VmReleaseKeeps
<1>8. CASE ph7_lib_shutdown
  BY <1>8, ShutdownKeeps
<1>9. CASE UNCHANGED vars
  BY <1>9 DEF vars, Inv, TypeOK, EnginesHeld, VmsHeld, OwnersLive, WalksEnd, Compiled, Allocated
<1> QED
  BY <1>1, <1>2, <1>3, <1>4, <1>5, <1>6, <1>7, <1>8, <1>9 DEF Next

(* The invariant gives the lists their links and their counts.              *)
LEMMA InvLinked == Inv => ListsLinked
<1> SUFFICES ASSUME Inv PROVE ListsLinked
  OBVIOUS
<1>1. ASSUME library # "shut"
      PROVE  Linked(pEngines, engine) /\ nEngine = Cardinality(engine)
  <2>1. Holds(pEngines, engine, nEngine) /\ Null \notin engine
    BY <1>1, EngineAssumption DEF Inv, EnginesHeld, TypeOK
  <2> QED
    BY <2>1, HoldsLinked
<1>2. ASSUME NEW e \in engine \ misused
      PROVE  Linked(pVms[e], Compiled(e)) /\ iVm[e] = Cardinality(Compiled(e))
  <2>1. Holds(pVms[e], Compiled(e), iVm[e]) /\ Null \notin Compiled(e)
    BY EngineAssumption DEF Inv, VmsHeld, Compiled, Allocated
  <2> QED
    BY <2>1, HoldsLinked
<1> QED
  BY <1>1, <1>2 DEF ListsLinked

(* The lists of the library and of every engine link what is allocated and   *)
(* what is compiled, and are as long as their counts, for any number of      *)
(* engines and VMs and any order of calls (MACRO_LD_PUSH, MACRO_LD_REMOVE,   *)
(* nEngine and iVm in api.c).                                               *)
THEOREM EngineListsLinked == Spec => []ListsLinked
<1>1. Init => Inv
  BY StartHolds
<1>2. Inv /\ [Next]_vars => Inv'
  BY StepKeeps
<1>3. Inv => ListsLinked
  BY InvLinked
<1> QED
  BY <1>1, <1>2, <1>3, PTL DEF Spec

(* The counted walks of EngineRelease and ph7_lib_shutdown, which never look *)
(* for the end of their list, end at it.                                    *)
THEOREM EngineWalksEnd == Spec => []WalksEnd
<1>1. Init => Inv
  BY StartHolds
<1>2. Inv /\ [Next]_vars => Inv'
  BY StepKeeps
<1>3. Inv => WalksEnd
  BY DEF Inv
<1> QED
  BY <1>1, <1>2, <1>3, PTL DEF Spec

-----------------------------------------------------------------------------
(* MemBackend.  Its properties speak of what a walk of the lists finds and of *)
(* units that do not overlap; neither is inductive.  MemInv says why they     *)
(* hold: every list goes through its blocks in some order and as often as     *)
(* counted (Tracked), every piece is a chunk its block was cut into or has    *)
(* its block alone (Owned), and the account has all the blocks on it          *)
(* (Accounted).                                                               *)


\* What b has handed out or has to hand out.
GivenIn(b) == held[b] \cup FreeIn(b)

ListsTyped == pBlocks \in [Backends -> Lists(Blocks)] /\ nBlock \in [Backends -> Nat]

MemTyped ==
    /\ nLimit \in Limits \cup {0}
    /\ parent \in [Backends -> Backends \cup {Null}]
    /\ ListsTyped
    /\ size \in [Blocks -> Nat]
    /\ apPool \in [Backends -> [Buckets -> Seq(Piece)]]
    /\ held \in [Backends -> SUBSET Piece]

\* What BlocksTracked needs to be inductive: each list goes through its blocks,
\* which are as many as counted.
ListsHold ==
    \A b \in Backends :
        BlocksOf(b) \subseteq Blocks /\ Holds(pBlocks[b], BlocksOf(b), nBlock[b])
BlocksApart == \A b, c \in Backends : b # c => BlocksOf(b) \cap BlocksOf(c) = {}
BlocksSized == \A x \in Blocks : size[x] # 0 <=> \E b \in Backends : x \in BlocksOf(b)
UnusedEmpty == \A b \in Backends : parent[b] = Null => BlocksOf(b) = {}

Tracked == ListsHold /\ BlocksApart /\ BlocksSized /\ UnusedEmpty

\* What OneOwner needs to be inductive: a chunk is one of those its block was
\* cut into, all for the same bucket, and another piece has its block alone.
InPlace(b, p) ==
    /\ p.block \in BlocksOf(b)
    /\ IF p.bucket \in Buckets
       THEN /\ size[p.block] = MaxAlloc + BlockUnits
            /\ p.at + BucketSize(p.bucket) <= MaxAlloc
            /\ \E i \in 0 .. MaxAlloc : p.at = i * BucketSize(p.bucket)
       ELSE p.at = 0

PiecesInPlace(b) == \A p \in GivenIn(b) : InPlace(b, p)
PiecesApart(b) ==
    \A p, q \in GivenIn(b) :
        p.block = q.block /\ p # q => p.bucket = q.bucket /\ p.bucket \in Buckets
PoolsSorted(b) ==
    \A k \in Buckets : /\ IsInjective(apPool[b][k])
                       /\ \A p \in Range(apPool[b][k]) : p.bucket = k
HeldApart(b) == held[b] \cap FreeIn(b) = {}

OwnedBy(b) == PiecesInPlace(b) /\ PiecesApart(b) /\ PoolsSorted(b) /\ HeldApart(b)
Owned == \A b \in Backends : OwnedBy(b)

\* The account has all blocks on it (and more: what failed or was released).
Accounted == nSize \in Nat /\ InBlocks <= nSize

MemInv == MemTyped /\ Tracked /\ Owned /\ Accounted

\* What a step may do under a limit.
Limited == InBlocks' > InBlocks /\ nLimit # 0 => InBlocks' <= nLimit

-----------------------------------------------------------------------------
\* The sizes of the first n + 1 buckets.
Doubles(f, n) == f = [k \in 0 .. n |-> IF k = 0 THEN 1 ELSE 2 * f[k - 1]]

\* There is a function that doubles.
LEMMA DoublesExist ==
    ASSUME NEW n \in Nat
    PROVE  \E f \in [0 .. n -> Nat \ {0}] : Doubles(f, n)
<1> DEFINE Good(m) == \E f \in [0 .. m -> Nat \ {0}] : Doubles(f, m)
           T == {m \in Nat : ~Good(m)}
<1>1. ASSUME T # {} PROVE FALSE
  <2>1. PICK m \in T : \A l \in T : ~(l < m)
    <3>1. T \subseteq Nat /\ T # {}
      BY <1>1
    <3> HIDE DEF T
    <3> QED BY <3>1, LeastNat
  <2>2. m \in Nat /\ ~Good(m)
    OBVIOUS
  <2>3. CASE m = 0
    <3> DEFINE f == [k \in 0 .. 0 |-> 1]
    <3>1. f \in [0 .. m -> Nat \ {0}] /\ Doubles(f, m)
      BY <2>3 DEF Doubles
    <3> QED BY <2>2, <3>1
  <2>4. CASE m # 0
    <3>1. m - 1 \in Nat /\ m - 1 < m
      BY <2>2, <2>4
    <3>2. Good(m - 1)
      BY <2>1, <3>1
    <3>3. PICK f \in [0 .. m - 1 -> Nat \ {0}] : Doubles(f, m - 1)
      BY <3>2
    <3> DEFINE g == [k \in 0 .. m |-> IF k = m THEN 2 * f[m - 1] ELSE f[k]]
    <3>4. \A k \in 0 .. m : k # m => k \in 0 .. m - 1 /\ g[k] = f[k]
      BY <2>2
    <3>5. g[m] = 2 * f[m - 1] /\ f[m - 1] \in Nat \ {0} /\ m \in 0 .. m
      BY <3>1
    <3>6. g \in [0 .. m -> Nat \ {0}]
      BY <3>4, <3>5
    <3>7. \A k \in 0 .. m : g[k] = IF k = 0 THEN 1 ELSE 2 * g[k - 1]
      <4> TAKE k \in 0 .. m
      <4>1. CASE k = m
        BY <2>4, <3>1, <3>4, <3>5, <4>1
      <4>2. CASE k # m
        <5>1. k \in 0 .. m - 1 /\ g[k] = f[k] /\ (k # 0 => k - 1 \in 0 .. m /\ k - 1 # m)
          BY <3>4, <4>2
        <5>2. f[k] = IF k = 0 THEN 1 ELSE 2 * f[k - 1]
          BY <3>3, <5>1 DEF Doubles
        <5> QED BY <3>4, <5>1, <5>2
      <4> QED BY <4>1, <4>2
    <3>8. g = [k \in 0 .. m |-> IF k = 0 THEN 1 ELSE 2 * g[k - 1]]
      BY <3>7
    <3> HIDE DEF g
    <3> QED BY <2>2, <3>6, <3>8 DEF Doubles
  <2> QED BY <2>3, <2>4
<1> QED BY <1>1

\* What a bucket holds: at least a unit, and at most what is cut into chunks.
LEMMA BucketSizes ==
    /\ MaxAlloc \in Nat \ {0}
    /\ \A k \in Buckets : BucketSize(k) \in 1 .. MaxAlloc
<1>1. NBuckets \in Nat /\ NBuckets \in Buckets /\ Buckets \subseteq Nat
  BY MemBackendAssumption DEF Buckets
<1>2. Doubles(BucketUnits, NBuckets)
  <2> DEFINE F(g) == [k \in 0 .. NBuckets |-> IF k = 0 THEN 1 ELSE 2 * g[k - 1]]
  <2>1. BucketUnits = CHOOSE g : g = F(g)
    BY DEF BucketUnits, Buckets
  <2>2. \E g : g = F(g)
    BY <1>1, DoublesExist DEF Doubles
  <2> HIDE DEF F
  <2>3. BucketUnits = F(BucketUnits)
    BY <2>1, <2>2
  <2> QED BY <2>3 DEF Doubles, F
<1> DEFINE B == BucketUnits
<1>3. \A k \in Buckets : B[k] = IF k = 0 THEN 1 ELSE 2 * B[k - 1]
  BY <1>2 DEF Doubles, Buckets
<1> HIDE DEF B
<1> DEFINE Good(m) == B[m] \in Nat \ {0} /\ \A k \in 0 .. m : B[k] \in 1 .. B[m]
           T == {m \in Buckets : ~Good(m)}
<1>4. ASSUME T # {} PROVE FALSE
  <2>1. PICK m \in T : \A l \in T : ~(l < m)
    <3>1. T \subseteq Nat /\ T # {}
      BY <1>1, <1>4
    <3> HIDE DEF T
    <3> QED BY <3>1, LeastNat
  <2>2. m \in Buckets /\ m \in Nat /\ ~Good(m)
    BY <1>1
  <2>3. CASE m = 0
    BY <1>3, <2>2, <2>3
  <2>4. CASE m # 0
    <3>1. m - 1 \in Buckets /\ m - 1 < m
      BY <1>1, <2>2, <2>4 DEF Buckets
    <3>2. Good(m - 1)
      BY <2>1, <3>1
    <3>3. B[m] = 2 * B[m - 1]
      BY <1>3, <2>2, <2>4
    <3>4. B[m] \in Nat \ {0} /\ B[m - 1] <= B[m]
      BY <3>2, <3>3
    <3>5. \A k \in 0 .. m : k = m \/ k \in 0 .. m - 1
      BY <2>2
    <3>6. \A k \in 0 .. m : B[k] \in 1 .. B[m]
      BY <3>2, <3>4, <3>5
    <3> QED BY <2>2, <3>4, <3>6
  <2> QED BY <2>3, <2>4
<1>5. Good(NBuckets)
  BY <1>1, <1>4
<1> QED BY <1>5 DEF MaxAlloc, BucketSize, Buckets, B

\* There is a bucket for what is smaller than the largest one.
LEMMA SmallestFits ==
    ASSUME NEW n \in Nat, n + HeaderUnits < MaxAlloc
    PROVE  SmallestBucket(n) \in Buckets
<1> DEFINE S == {k \in Buckets : n + HeaderUnits <= BucketSize(k)}
<1>1. NBuckets \in Buckets /\ Buckets \subseteq Nat
  BY MemBackendAssumption DEF Buckets
<1>2. NBuckets \in S
  BY <1>1, BucketSizes DEF MaxAlloc, HeaderUnits
<1>3. S # {} /\ S \subseteq Nat /\ S \subseteq Buckets
  BY <1>1, <1>2
<1> HIDE DEF S
<1>4. \E x \in S : \A y \in S : ~(y < x)
  BY <1>3, LeastNat
<1>5. \E x \in S : \A y \in S : x <= y
  BY <1>3, <1>4
<1>6. Min(S) \in S
  BY <1>5 DEF Min
<1> QED BY <1>3, <1>6 DEF SmallestBucket, S

\* The chunks of a block: they lie in it, one behind the other.
LEMMA ChunkTyped ==
    ASSUME NEW x \in Blocks, NEW k \in Buckets
    PROVE  LET c == MemPoolBucket(x, k)
           IN  /\ c \in Seq(Piece) /\ c # <<>> /\ Len(c) \in Nat
               /\ \A i \in 1 .. Len(c) : /\ c[i].block = x /\ c[i].bucket = k
                                         /\ c[i].at = (i - 1) * BucketSize(k)
                                         /\ c[i].at + BucketSize(k) <= MaxAlloc
               /\ \A i, j \in 1 .. Len(c) : c[i] = c[j] => i = j
<1> DEFINE d == BucketSize(k)
           n == MaxAlloc \div d
           c == MemPoolBucket(x, k)
<1>1. d \in Nat \ {0} /\ MaxAlloc \in Nat \ {0} /\ d <= MaxAlloc
  BY BucketSizes
<1> HIDE DEF d
<1>2. n \in Nat /\ n > 0 /\ n * d <= MaxAlloc
  BY <1>1
<1> HIDE DEF n
<1>3. ASSUME NEW i \in 1 .. n
      PROVE  (i - 1) * d \in Nat /\ (i - 1) * d + d <= MaxAlloc
  <2>1. i - 1 \in Nat /\ i \in Nat /\ i <= n
    BY <1>2
  <2>2. (i - 1) * d + d = i * d
    BY <1>1, <2>1
  <2>3. i * d <= n * d
    BY <1>1, <1>2, <2>1
  <2> QED BY <1>1, <1>2, <2>1, <2>2, <2>3
<1>4. c = [i \in 1 .. n |-> [block |-> x, at |-> (i - 1) * d, bucket |-> k]]
  BY DEF MemPoolBucket, d, n
<1>5. \A i \in 1 .. n : [block |-> x, at |-> (i - 1) * d, bucket |-> k] \in Piece
  BY <1>3 DEF Piece
<1>6. c \in Seq(Piece) /\ Len(c) = n
  BY <1>2, <1>4, <1>5
<1>7. \A i \in 1 .. n : c[i].block = x /\ c[i].bucket = k /\ c[i].at = (i - 1) * d
  BY <1>4
<1>8. ASSUME NEW i \in 1 .. n, NEW j \in 1 .. n, c[i] = c[j] PROVE i = j
  <2>1. (i - 1) * d = (j - 1) * d /\ i - 1 \in Nat /\ j - 1 \in Nat
    BY <1>2, <1>7, <1>8
  <2>2. i - 1 = j - 1
    <3> DEFINE u == i - 1
               v == j - 1
    <3>1. u * d = v * d /\ u \in Nat /\ v \in Nat
      BY <2>1
    <3> HIDE DEF u, v
    <3>2. ASSUME u < v PROVE FALSE
      <4>1. u * d + d <= v * d
        BY <1>1, <3>1, <3>2
      <4> QED BY <1>1, <3>1, <4>1
    <3>3. ASSUME v < u PROVE FALSE
      <4>1. v * d + d <= u * d
        BY <1>1, <3>1, <3>3
      <4> QED BY <1>1, <3>1, <4>1
    <3> QED BY <3>1, <3>2, <3>3 DEF u, v
  <2> QED BY <1>2, <2>2
<1>9. c # <<>>
  BY <1>2, <1>6
<1> HIDE DEF c
<1> QED BY <1>2, <1>3, <1>6, <1>7, <1>8, <1>9 DEF c, d

-----------------------------------------------------------------------------
\* A list with the same links on its members.
LEMMA SameHolds ==
    ASSUME NEW l, NEW k, NEW M, NEW n, Holds(l, M, n), k.head = l.head,
           \A x \in M : k.next[x] = l.next[x] /\ k.prev[x] = l.prev[x]
    PROVE  Holds(k, M, n)
<1>1. n \in Nat
  BY DEF Holds
<1>2. PICK s \in [1 .. n -> M] : Chain(l, s, n) /\ \A y \in M : \E i \in 1 .. n : s[i] = y
  BY DEF Holds
<1>3. \A i \in 1 .. n : s[i] \in M
  BY <1>2
<1>4. Chain(k, s, n)
  BY <1>2, <1>3 DEF Chain
<1> QED BY <1>1, <1>2, <1>4 DEF Holds

\* An item that the list does not hold is zeroed.
LEMMA ZeroedHolds ==
    ASSUME NEW I, NEW l \in Lists(I), NEW M \in SUBSET I, NEW n, Holds(l, M, n), NEW x \in I \ M
    PROVE  Zeroed(l, x) \in Lists(I) /\ Holds(Zeroed(l, x), M, n)
<1> DEFINE z == Zeroed(l, x)
<1>1. z \in Lists(I) /\ z.head = l.head
  BY DEF Zeroed, Lists
<1>2. \A y \in M : z.next[y] = l.next[y] /\ z.prev[y] = l.prev[y]
  BY DEF Zeroed, Lists
<1> HIDE DEF z
<1>3. Holds(z, M, n)
  BY <1>1, <1>2, SameHolds
<1> QED BY <1>1, <1>3 DEF z

\* A block in the place of another one.
LEMMA StandsHolds ==
    ASSUME NEW I, Null \notin I, NEW l \in Lists(I), NEW M \in SUBSET I, NEW n, Holds(l, M, n),
           NEW x \in M, NEW y \in I \ M
    PROVE  /\ Stands(l, x, y) \in Lists(I)
           /\ Holds(Stands(l, x, y), (M \ {x}) \cup {y}, n)
<1> DEFINE r == Stands(l, x, y)
           N == (M \ {x}) \cup {y}
<1>1. n \in Nat
  BY DEF Holds
<1>2. PICK s \in [1 .. n -> M] : Chain(l, s, n) /\ \A z \in M : \E i \in 1 .. n : s[i] = z
  BY DEF Holds
<1>3. PICK k \in 1 .. n : s[k] = x
  BY <1>2
<1>4. /\ \A i, j \in 1 .. n : i # j => s[i] # s[j]
      /\ \A i \in 1 .. n : s[i] \in M /\ s[i] \in I /\ s[i] # Null /\ s[i] # y
      /\ l.head = s[1] /\ n # 0
      /\ \A i \in 1 .. n : /\ l.next[s[i]] = IF i = n THEN Null ELSE s[i + 1]
                           /\ l.prev[s[i]] = IF i = 1 THEN Null ELSE s[i - 1]
  BY <1>1, <1>2, <1>3 DEF Chain
<1>5. /\ l.next[x] = IF k = n THEN Null ELSE s[k + 1]
      /\ l.prev[x] = IF k = 1 THEN Null ELSE s[k - 1]
  BY <1>3, <1>4
<1>6. /\ l.next \in [I -> I \cup {Null}] /\ l.prev \in [I -> I \cup {Null}]
      /\ l.head \in I \cup {Null} /\ x \in I /\ y \in I /\ y # Null /\ y # x
      /\ l.next[x] \in I \cup {Null} /\ l.prev[x] \in I \cup {Null}
      /\ l.next[x] # y /\ l.prev[x] # y
  <2>1. k # n => k + 1 \in 1 .. n
    BY <1>1, <1>3
  <2>2. k # 1 => k - 1 \in 1 .. n
    BY <1>1, <1>3
  <2> QED BY <1>4, <1>5, <2>1, <2>2 DEF Lists
<1>7. /\ r \in Lists(I) /\ r.head = IF l.prev[x] = Null THEN y ELSE l.head
      /\ r.next[y] = l.next[x] /\ r.prev[y] = l.prev[x]
      /\ \A z \in I : z # y => /\ r.next[z] = IF z = l.prev[x] THEN y ELSE l.next[z]
                               /\ r.prev[z] = IF z = l.next[x] THEN y ELSE l.prev[z]
  BY <1>6 DEF Stands, Link, Lists
<1> HIDE DEF r
<1> DEFINE t == [i \in 1 .. n |-> IF i = k THEN y ELSE s[i]]
<1>8. t \in [1 .. n -> N]
  BY <1>3, <1>4
<1>9. \A z \in N : \E i \in 1 .. n : t[i] = z
  <2> TAKE z \in N
  <2>1. CASE z = y
    BY <2>1
  <2>2. CASE z # y
    <3>1. PICK i \in 1 .. n : s[i] = z
      BY <1>2, <2>2
    <3>2. i # k
      BY <1>3, <2>2, <3>1
    <3> QED BY <3>1, <3>2
  <2> QED BY <2>1, <2>2
<1>10. /\ t[k] = y /\ \A i \in 1 .. n : i # k => t[i] = s[i]
       /\ 1 \in 1 .. n
  BY <1>1, <1>4
<1>11. \A i, j \in 1 .. n : i # j => t[i] # t[j]
  BY <1>4, <1>10
<1>12. r.head = t[1]
  <2>1. CASE k = 1
    BY <1>5, <1>7, <1>10, <2>1
  <2>2. CASE k # 1
    <3>1. k - 1 \in 1 .. n
      BY <1>1, <2>2
    <3> QED BY <1>4, <1>5, <1>7, <1>10, <2>2, <3>1
  <2> QED BY <2>1, <2>2
<1>13. ASSUME NEW i \in 1 .. n
       PROVE  r.next[t[i]] = IF i = n THEN Null ELSE t[i + 1]
  <2>1. i # n => i + 1 \in 1 .. n /\ i + 1 # i
    BY <1>1
  <2>2. CASE i = k
    BY <1>5, <1>7, <1>10, <2>1, <2>2
  <2>3. CASE i # k
    <3>1. t[i] = s[i] /\ s[i] \in I /\ s[i] # y /\ s[i] # Null
      BY <1>4, <1>10, <2>3
    <3>2. r.next[t[i]] = IF s[i] = l.prev[x] THEN y ELSE l.next[s[i]]
      BY <1>7, <3>1
    <3>3. s[i] = l.prev[x] <=> i + 1 = k
      <4>1. k # 1 => k - 1 \in 1 .. n /\ (i = k - 1 <=> i + 1 = k)
        BY <1>1
      <4>2. k = 1 => i + 1 # k
        BY <1>1
      <4> QED BY <1>4, <1>5, <3>1, <4>1, <4>2
    <3>4. CASE i + 1 = k
      <4>1. i # n
        BY <1>1, <3>4
      <4> QED BY <1>10, <3>2, <3>3, <3>4, <4>1
    <3>5. CASE i + 1 # k
      <4>1. l.next[s[i]] = IF i = n THEN Null ELSE s[i + 1]
        BY <1>4
      <4> QED BY <1>10, <2>1, <3>2, <3>3, <3>5, <4>1
    <3> QED BY <3>4, <3>5
  <2> QED BY <2>2, <2>3
<1>14. ASSUME NEW i \in 1 .. n
       PROVE  r.prev[t[i]] = IF i = 1 THEN Null ELSE t[i - 1]
  <2>1. i # 1 => i - 1 \in 1 .. n /\ i - 1 # i
    BY <1>1
  <2>2. CASE i = k
    BY <1>5, <1>7, <1>10, <2>1, <2>2
  <2>3. CASE i # k
    <3>1. t[i] = s[i] /\ s[i] \in I /\ s[i] # y /\ s[i] # Null
      BY <1>4, <1>10, <2>3
    <3>2. r.prev[t[i]] = IF s[i] = l.next[x] THEN y ELSE l.prev[s[i]]
      BY <1>7, <3>1
    <3>3. s[i] = l.next[x] <=> i - 1 = k
      <4>1. k # n => k + 1 \in 1 .. n /\ (i = k + 1 <=> i - 1 = k)
        BY <1>1
      <4>2. k = n => i - 1 # k
        BY <1>1
      <4> QED BY <1>4, <1>5, <3>1, <4>1, <4>2
    <3>4. CASE i - 1 = k
      <4>1. i # 1
        BY <1>1, <3>4
      <4> QED BY <1>10, <3>2, <3>3, <3>4, <4>1
    <3>5. CASE i - 1 # k
      <4>1. l.prev[s[i]] = IF i = 1 THEN Null ELSE s[i - 1]
        BY <1>4
      <4> QED BY <1>10, <2>1, <3>2, <3>3, <3>5, <4>1
    <3> QED BY <3>4, <3>5
  <2> QED BY <2>2, <2>3
<1> HIDE DEF t
<1>15. Chain(r, t, n)
  BY <1>4, <1>11, <1>12, <1>13, <1>14 DEF Chain
<1>16. Holds(r, N, n)
  BY <1>1, <1>8, <1>9, <1>15 DEF Holds
<1> QED BY <1>7, <1>16 DEF r

\* b's list has become that of the blocks M, the others are as they were.
Relisted(b, M) ==
    /\ BlocksOf(b)' = M
    /\ \A c \in Backends \ {b} : BlocksOf(c)' = BlocksOf(c)

\* As many steps as a list has items lead through all of them.
LEMMA WalkedAll ==
    ASSUME NEW l, NEW M, Null \notin M, NEW n, Holds(l, M, n)
    PROVE  Walked(Steps(l, n), n) = M
<1>1. Passed(Steps(l, n), n) = M
  BY StepsThrough
<1> QED BY <1>1 DEF Passed, Walked

\* One list of the backends is replaced by another one.
LEMMA ListStep ==
    ASSUME ListsTyped, ListsHold, NEW b \in Backends, NEW l \in Lists(Blocks), NEW n,
           NEW M \in SUBSET Blocks, Holds(l, M, n),
           pBlocks' = [pBlocks EXCEPT ![b] = l], nBlock' = [nBlock EXCEPT ![b] = n]
    PROVE  ListsTyped' /\ ListsHold' /\ Relisted(b, M)
<1>1. n \in Nat
  BY DEF Holds
<1>2. ListsTyped'
  BY <1>1 DEF ListsTyped
<1>3. /\ pBlocks'[b] = l /\ nBlock'[b] = n
      /\ \A c \in Backends \ {b} : pBlocks'[c] = pBlocks[c] /\ nBlock'[c] = nBlock[c]
  BY DEF ListsTyped
<1>4. BlocksOf(b)' = M
  <2>1. Null \notin M
    BY MemBackendAssumption
  <2>2. Walked(Steps(l, n), n) = M
    BY <2>1, WalkedAll
  <2> QED BY <1>3, <2>2 DEF BlocksOf
<1>5. \A c \in Backends \ {b} : BlocksOf(c)' = BlocksOf(c)
  BY <1>3 DEF BlocksOf
<1>6. ASSUME NEW c \in Backends
      PROVE  BlocksOf(c)' \subseteq Blocks /\ Holds(pBlocks[c], BlocksOf(c), nBlock[c])'
  <2>1. CASE c = b
    <3>1. pBlocks'[c] = l /\ nBlock'[c] = n /\ BlocksOf(c)' = M
      BY <1>3, <1>4, <2>1
    <3>2. Holds(pBlocks'[c], BlocksOf(c)', nBlock'[c])
      BY <3>1
    <3> QED BY <3>1, <3>2
  <2>2. CASE c # b
    <3>1. pBlocks'[c] = pBlocks[c] /\ nBlock'[c] = nBlock[c] /\ BlocksOf(c)' = BlocksOf(c)
      BY <1>3, <1>5, <2>2
    <3>2. Holds(pBlocks[c], BlocksOf(c), nBlock[c]) /\ BlocksOf(c) \subseteq Blocks
      BY DEF ListsHold
    <3>3. Holds(pBlocks'[c], BlocksOf(c)', nBlock'[c])
      BY <3>1, <3>2
    <3> QED BY <3>1, <3>2, <3>3
  <2> QED BY <2>1, <2>2
<1>7. ListsHold'
  BY <1>6 DEF ListsHold
<1> QED BY <1>2, <1>4, <1>5, <1>7 DEF Relisted

\* What is known of a list.
LEMMA ListIs ==
    ASSUME ListsTyped, ListsHold, NEW b \in Backends
    PROVE  /\ pBlocks[b] \in Lists(Blocks) /\ nBlock[b] \in Nat
           /\ BlocksOf(b) \in SUBSET Blocks /\ Holds(pBlocks[b], BlocksOf(b), nBlock[b])
           /\ Null \notin Blocks
BY MemBackendAssumption DEF ListsTyped, ListsHold

\* MemBackendAlloc pushes a block on the list.
LEMMA AllocLists ==
    ASSUME ListsTyped, ListsHold, NEW b \in Backends, NEW x \in Blocks, x \notin BlocksOf(b),
           pBlocks' = [pBlocks EXCEPT ![b] = PushItem(Zeroed(@, x), x)],
           nBlock' = [nBlock EXCEPT ![b] = @ + 1]
    PROVE  ListsTyped' /\ ListsHold' /\ Relisted(b, BlocksOf(b) \cup {x})
<1> DEFINE l == pBlocks[b]
           n == nBlock[b]
           M == BlocksOf(b)
           r == PushItem(Zeroed(l, x), x)
<1>1. l \in Lists(Blocks) /\ M \in SUBSET Blocks /\ Holds(l, M, n) /\ Null \notin Blocks
  BY ListIs
<1>2. pBlocks' = [pBlocks EXCEPT ![b] = r] /\ nBlock' = [nBlock EXCEPT ![b] = n + 1]
  OBVIOUS
<1>3. x \in Blocks \ M
  OBVIOUS
<1> HIDE DEF l, n, M
<1>4. r \in Lists(Blocks)
  BY ONLY <1>1, x \in Blocks, PushTyped
<1>5. Holds(r, M \cup {x}, n + 1)
  BY ONLY <1>1, <1>3, PushHolds
<1>6. M \cup {x} \in SUBSET Blocks
  BY <1>1
<1> DEFINE N == M \cup {x}
           m == n + 1
<1>7. r \in Lists(Blocks) /\ N \in SUBSET Blocks /\ Holds(r, N, m)
  BY <1>4, <1>5, <1>6
<1>8. pBlocks' = [pBlocks EXCEPT ![b] = r] /\ nBlock' = [nBlock EXCEPT ![b] = m]
  BY <1>2
<1> HIDE DEF N, m, r
<1>9. ListsTyped' /\ ListsHold' /\ Relisted(b, N)
  BY <1>7, <1>8, ListStep
<1> QED BY <1>9 DEF N, M

\* MemBackendFree takes a block from it.
LEMMA FreeLists ==
    ASSUME ListsTyped, ListsHold, NEW b \in Backends, NEW x \in BlocksOf(b),
           pBlocks' = [pBlocks EXCEPT ![b] = Zeroed(RemoveItem(@, x), x)],
           nBlock' = [nBlock EXCEPT ![b] = @ - 1]
    PROVE  ListsTyped' /\ ListsHold' /\ Relisted(b, BlocksOf(b) \ {x})
<1> DEFINE l == pBlocks[b]
           n == nBlock[b]
           M == BlocksOf(b)
           q == RemoveItem(l, x)
           r == Zeroed(q, x)
           N == M \ {x}
           m == n - 1
<1>1. l \in Lists(Blocks) /\ M \in SUBSET Blocks /\ Holds(l, M, n) /\ Null \notin Blocks /\ x \in M
  BY ListIs
<1>2. pBlocks' = [pBlocks EXCEPT ![b] = r] /\ nBlock' = [nBlock EXCEPT ![b] = m]
  OBVIOUS
<1> HIDE DEF l, n, M
<1>3. x \in Blocks
  BY <1>1
<1>4. q \in Lists(Blocks)
  BY ONLY <1>1, <1>3, RemoveTyped
<1>5. Holds(q, N, m)
  BY ONLY <1>1, RemoveHolds
<1>6. N \in SUBSET Blocks /\ x \in Blocks \ N
  BY <1>1
<1> HIDE DEF q, N, m
<1>7. r \in Lists(Blocks) /\ Holds(r, N, m)
  BY <1>4, <1>5, <1>6, ZeroedHolds
<1> HIDE DEF r
<1>8. ListsTyped' /\ ListsHold' /\ Relisted(b, N)
  BY <1>2, <1>6, <1>7, ListStep
<1> QED BY <1>8 DEF N, M

\* SyMemBackendRealloc replaces a block in it.
LEMMA StandsLists ==
    ASSUME ListsTyped, ListsHold, NEW b \in Backends, NEW x \in BlocksOf(b),
           NEW y \in Blocks, y \notin BlocksOf(b),
           pBlocks' = [pBlocks EXCEPT ![b] = Zeroed(Stands(@, x, y), x)],
           nBlock' = nBlock
    PROVE  ListsTyped' /\ ListsHold' /\ Relisted(b, (BlocksOf(b) \ {x}) \cup {y})
<1> DEFINE l == pBlocks[b]
           n == nBlock[b]
           M == BlocksOf(b)
           q == Stands(l, x, y)
           r == Zeroed(q, x)
           N == (M \ {x}) \cup {y}
<1>1. l \in Lists(Blocks) /\ M \in SUBSET Blocks /\ Holds(l, M, n) /\ Null \notin Blocks
      /\ x \in M /\ y \in Blocks \ M
  BY ListIs
<1>2. pBlocks' = [pBlocks EXCEPT ![b] = r] /\ nBlock' = [nBlock EXCEPT ![b] = n]
  BY DEF ListsTyped
<1> HIDE DEF l, n, M
<1>4. q \in Lists(Blocks) /\ Holds(q, N, n)
  BY ONLY <1>1, StandsHolds
<1>6. N \in SUBSET Blocks /\ x \in Blocks \ N
  BY <1>1
<1> HIDE DEF q, N
<1>7. r \in Lists(Blocks) /\ Holds(r, N, n)
  BY <1>4, <1>6, ZeroedHolds
<1> HIDE DEF r
<1>8. ListsTyped' /\ ListsHold' /\ Relisted(b, N)
  BY <1>2, <1>6, <1>7, ListStep
<1> QED BY <1>8 DEF N, M

\* SyMemBackendRelease leaves none.
LEMMA EmptyLists ==
    ASSUME ListsTyped, ListsHold, NEW b \in Backends,
           pBlocks' = [pBlocks EXCEPT ![b] = EmptyList(Blocks)],
           nBlock' = [nBlock EXCEPT ![b] = 0]
    PROVE  ListsTyped' /\ ListsHold' /\ Relisted(b, {})
<1> DEFINE r == EmptyList(Blocks)
           N == {}
<1>1. r \in Lists(Blocks) /\ Holds(r, N, 0)
  BY EmptyHolds
<1>2. N \in SUBSET Blocks /\ pBlocks' = [pBlocks EXCEPT ![b] = r]
  OBVIOUS
<1> HIDE DEF r, N
<1>3. ListsTyped' /\ ListsHold' /\ Relisted(b, N)
  BY <1>1, <1>2, ListStep
<1> QED BY <1>3 DEF N

\* The other operations leave the lists alone.
LEMMA SameLists ==
    ASSUME ListsTyped, ListsHold, pBlocks' = pBlocks, nBlock' = nBlock
    PROVE  ListsTyped' /\ ListsHold' /\ \A c \in Backends : BlocksOf(c)' = BlocksOf(c)
BY DEF ListsTyped, ListsHold, BlocksOf

-----------------------------------------------------------------------------
Any(s) == CHOOSE x \in s : TRUE

\* What FoldSet computes: a sum over every set of blocks.
Sums(B, g, f) ==
    [s \in SUBSET B |->
        IF s = {} THEN 0 ELSE g[s \ {Any(s)}] + f[Any(s)]]
AddsUp(B, g, f) ==
    /\ g[{}] = 0
    /\ \A s \in SUBSET B : s # {} => Any(s) \in s /\ g[s] = g[s \ {Any(s)}] + f[Any(s)]
Total(B, f) == (CHOOSE g : g = Sums(B, g, f))[B]

\* InBlocks is that sum, before and after a step.
LEMMA InBlocksIsTotal == InBlocks = Total(Blocks, size) /\ InBlocks' = Total(Blocks, size')
<1>1. InBlocks = Total(Blocks, size)
  BY DEF InBlocks, FoldSet, MapThenFoldSet, Sums, Total, Any
<1>2. InBlocks' = Total(Blocks, size')
  BY DEF InBlocks, FoldSet, MapThenFoldSet, Sums, Total, Any
<1> QED BY <1>1, <1>2

\* Induction over the subsets of a finite set.
LEMMA SmallestSet ==
    ASSUME NEW B, IsFiniteSet(B), NEW T \in SUBSET SUBSET B, T # {}
    PROVE  \E s \in T : \A c \in s : s \ {c} \notin T
<1> DEFINE C == {Cardinality(s) : s \in T}
<1>1. \A s \in T : IsFiniteSet(s) /\ Cardinality(s) \in Nat
  BY FS_Subset, FS_CardinalityType
<1>2. C \subseteq Nat /\ C # {}
  BY <1>1
<1> HIDE DEF C
<1>3. PICK n \in C : \A m \in C : ~(m < n)
  BY <1>2, LeastNat
<1>4. PICK s \in T : Cardinality(s) = n
  BY DEF C
<1>5. ASSUME NEW c \in s, s \ {c} \in T PROVE FALSE
  <2>1. Cardinality(s \ {c}) = Cardinality(s) - 1
    BY <1>1, FS_RemoveElement
  <2>2. Cardinality(s \ {c}) \in C
    BY <1>5 DEF C
  <2> QED BY <1>1, <1>3, <1>4, <2>1, <2>2
<1> QED BY <1>5

\* The sums are defined: there is a function that adds up.
LEMMA SumsExist ==
    ASSUME NEW B, IsFiniteSet(B), NEW f \in [B -> Nat]
    PROVE  \E g \in [SUBSET B -> Nat] : g = Sums(B, g, f)
<1> DEFINE UpTo(n) == {s \in SUBSET B : Cardinality(s) <= n}
           Right(g, s) == g[s] = IF s = {} THEN 0 ELSE g[s \ {Any(s)}] + f[Any(s)]
           Good(n) == \E g \in [UpTo(n) -> Nat] : \A s \in UpTo(n) : Right(g, s)
           T == {n \in Nat : ~Good(n)}
<1>1. \A s \in SUBSET B : IsFiniteSet(s) /\ Cardinality(s) \in Nat /\ (Cardinality(s) = 0 <=> s = {})
  BY FS_Subset, FS_CardinalityType, FS_EmptySet
<1>2. \A s \in SUBSET B : s # {} => /\ Any(s) \in s /\ f[Any(s)] \in Nat /\ s \ {Any(s)} \in SUBSET B
                                   /\ Cardinality(s \ {Any(s)}) = Cardinality(s) - 1
  BY <1>1, FS_RemoveElement DEF Any
<1>3. ASSUME T # {} PROVE FALSE
  <2>1. PICK m \in T : \A l \in T : ~(l < m)
    <3>1. T \subseteq Nat /\ T # {}
      BY <1>3
    <3> HIDE DEF T
    <3> QED BY <3>1, LeastNat
  <2>2. m \in Nat /\ ~Good(m)
    OBVIOUS
  <2>3. CASE m = 0
    <3> DEFINE g == [s \in UpTo(0) |-> 0]
    <3>1. \A s \in UpTo(0) : s = {}
      BY <1>1
    <3>2. g \in [UpTo(0) -> Nat] /\ \A s \in UpTo(0) : Right(g, s)
      BY <3>1
    <3> QED BY <2>2, <2>3, <3>2
  <2>4. CASE m # 0
    <3>1. m - 1 \in Nat /\ m - 1 < m
      BY <2>2, <2>4
    <3>2. Good(m - 1)
      BY <2>1, <3>1
    <3>3. PICK g \in [UpTo(m - 1) -> Nat] : \A s \in UpTo(m - 1) : Right(g, s)
      BY <3>2
    <3> DEFINE h == [s \in UpTo(m) |-> IF Cardinality(s) = m THEN g[s \ {Any(s)}] + f[Any(s)] ELSE g[s]]
    <3>4. \A s \in UpTo(m) : Cardinality(s) # m => s \in UpTo(m - 1)
      BY <1>1, <2>2
    <3>5. \A s \in UpTo(m) : Cardinality(s) = m => s # {}
      BY <1>1, <2>4
    <3>6. \A s \in UpTo(m) : s # {} => s \ {Any(s)} \in UpTo(m - 1) /\ s \ {Any(s)} \in UpTo(m)
                                      /\ Cardinality(s \ {Any(s)}) # m
      BY <1>1, <1>2, <2>2
    <3>7. h \in [UpTo(m) -> Nat]
      <4> SUFFICES ASSUME NEW s \in UpTo(m)
                   PROVE  (IF Cardinality(s) = m THEN g[s \ {Any(s)}] + f[Any(s)] ELSE g[s]) \in Nat
        OBVIOUS
      <4>1. CASE Cardinality(s) = m
        BY <1>2, <3>3, <3>5, <3>6, <4>1
      <4>2. CASE Cardinality(s) # m
        BY <3>3, <3>4, <4>2
      <4> QED BY <4>1, <4>2
    <3>8. ASSUME NEW s \in UpTo(m) PROVE Right(h, s)
      <4>1. CASE Cardinality(s) = m
        BY <3>5, <3>6, <4>1
      <4>2. CASE Cardinality(s) # m
        <5>1. Right(g, s) /\ h[s] = g[s]
          BY <3>3, <3>4, <4>2
        <5>2. s # {} => h[s \ {Any(s)}] = g[s \ {Any(s)}]
          BY <3>6
        <5> QED BY <5>1, <5>2
      <4> QED BY <4>1, <4>2
    <3> HIDE DEF h
    <3> QED BY <2>2, <3>7, <3>8
  <2> QED BY <2>3, <2>4
<1>4. Cardinality(B) \in Nat /\ UpTo(Cardinality(B)) = SUBSET B
  <2>1. \A s \in SUBSET B : Cardinality(s) <= Cardinality(B)
    BY FS_Subset
  <2> QED BY <1>1, <2>1
<1>5. PICK g \in [SUBSET B -> Nat] : \A s \in SUBSET B : Right(g, s)
  <2>1. Good(Cardinality(B))
    BY <1>3, <1>4
  <2> QED BY <1>4, <2>1
<1>6. g = Sums(B, g, f)
  BY <1>5 DEF Sums
<1> QED BY <1>6

\* ... and Total is what such a function has for all the blocks.
LEMMA TotalSums ==
    ASSUME NEW B, IsFiniteSet(B), NEW f \in [B -> Nat]
    PROVE  \E g \in [SUBSET B -> Nat] : Total(B, f) = g[B] /\ AddsUp(B, g, f)
<1> DEFINE h == CHOOSE g : g = Sums(B, g, f)
<1>1. PICK k \in [SUBSET B -> Nat] : k = Sums(B, k, f)
  BY SumsExist
<1>2. h = Sums(B, h, f)
  BY <1>1
<1>3. Total(B, f) = h[B]
  BY DEF Total
<1> HIDE DEF h
<1> DEFINE T == {s \in SUBSET B : h[s] # k[s]}
<1>4. AddsUp(B, h, f)
  <2>1. \A s \in SUBSET B : s # {} => Any(s) \in s
    BY DEF Any
  <2> QED BY <1>2, <2>1 DEF Sums, AddsUp
<1>5. AddsUp(B, k, f)
  <2>1. \A s \in SUBSET B : s # {} => Any(s) \in s
    BY DEF Any
  <2> QED BY <1>1, <2>1 DEF Sums, AddsUp
<1>6. h[{}] = 0 /\ k[{}] = 0 /\ {} \in SUBSET B /\ B \in SUBSET B
  BY <1>4, <1>5 DEF AddsUp
<1>7. ASSUME T # {} PROVE FALSE
  <2>1. PICK s \in T : \A c \in s : s \ {c} \notin T
    <3>1. T \in SUBSET SUBSET B /\ T # {}
      BY <1>7
    <3> HIDE DEF T
    <3> QED BY <3>1, SmallestSet
  <2>2. s \in SUBSET B /\ s # {} /\ h[s] # k[s]
    BY <1>6
  <2>3. /\ Any(s) \in s /\ h[s] = h[s \ {Any(s)}] + f[Any(s)]
        /\ k[s] = k[s \ {Any(s)}] + f[Any(s)]
    BY <1>4, <1>5, <2>2 DEF AddsUp
  <2>4. h[s \ {Any(s)}] = k[s \ {Any(s)}]
    BY <2>1, <2>2, <2>3
  <2> QED BY <2>2, <2>3, <2>4
<1>8. Total(B, f) = k[B]
  BY <1>3, <1>6, <1>7
<1> QED BY <1>5, <1>6, <1>8

\* The sum is a number.
LEMMA TotalIsNat ==
    ASSUME NEW B, IsFiniteSet(B), NEW f \in [B -> Nat]
    PROVE  Total(B, f) \in Nat
<1>1. PICK g \in [SUBSET B -> Nat] : Total(B, f) = g[B] /\ AddsUp(B, g, f)
  BY TotalSums
<1> QED BY <1>1

\* One block more or less, or none.
LEMMA TotalOfOne ==
    ASSUME NEW B, IsFiniteSet(B), NEW f \in [B -> Nat], NEW h \in [B -> Nat], NEW x \in B,
           \A y \in B \ {x} : f[y] = h[y]
    PROVE  Total(B, h) = Total(B, f) - f[x] + h[x]
<1>1. PICK g \in [SUBSET B -> Nat] : Total(B, f) = g[B] /\ AddsUp(B, g, f)
  BY TotalSums
<1>2. PICK k \in [SUBSET B -> Nat] : Total(B, h) = k[B] /\ AddsUp(B, k, h)
  BY TotalSums
<1> DEFINE Same(s) == /\ x \in s => k[s] = g[s] - f[x] + h[x]
                      /\ x \notin s => k[s] = g[s]
           T == {s \in SUBSET B : ~Same(s)}
<1>3. ASSUME T # {} PROVE FALSE
  <2>1. PICK s \in T : \A c \in s : s \ {c} \notin T
    <3>1. T \in SUBSET SUBSET B /\ T # {}
      BY <1>3
    <3> HIDE DEF T
    <3> QED BY <3>1, SmallestSet
  <2>2. s \in SUBSET B /\ ~Same(s)
    OBVIOUS
  <2>3. s # {}
    BY <1>1, <1>2, <2>2 DEF AddsUp
  <2>4. PICK c \in s : g[s] = g[s \ {c}] + f[c] /\ k[s] = k[s \ {c}] + h[c]
    BY <1>1, <1>2, <2>2, <2>3 DEF AddsUp
  <2>5. Same(s \ {c}) /\ s \ {c} \in SUBSET B /\ c \in B
    BY <2>1, <2>2
  <2>6. /\ f[c] \in Nat /\ h[c] \in Nat /\ f[x] \in Nat /\ h[x] \in Nat
        /\ g[s \ {c}] \in Nat /\ k[s \ {c}] \in Nat /\ (c # x => f[c] = h[c])
    BY <2>5
  <2>7. CASE c = x
    <3>1. k[s \ {c}] = g[s \ {c}]
      BY <2>5, <2>7
    <3>2. k[s] = g[s] - f[x] + h[x]
      BY <2>4, <2>6, <2>7, <3>1
    <3> QED BY <2>2, <2>7, <3>2
  <2>8. CASE c # x
    BY <2>2, <2>4, <2>5, <2>6, <2>8
  <2> QED BY <2>7, <2>8
<1>4. Same(B)
  BY <1>3
<1> QED BY <1>1, <1>2, <1>4

\* No block larger than it was.
LEMMA TotalOfLess ==
    ASSUME NEW B, IsFiniteSet(B), NEW f \in [B -> Nat], NEW h \in [B -> Nat],
           \A y \in B : h[y] <= f[y]
    PROVE  Total(B, h) <= Total(B, f)
<1>1. PICK g \in [SUBSET B -> Nat] : Total(B, f) = g[B] /\ AddsUp(B, g, f)
  BY TotalSums
<1>2. PICK k \in [SUBSET B -> Nat] : Total(B, h) = k[B] /\ AddsUp(B, k, h)
  BY TotalSums
<1> DEFINE T == {s \in SUBSET B : ~(k[s] <= g[s])}
<1>3. ASSUME T # {} PROVE FALSE
  <2>1. PICK s \in T : \A c \in s : s \ {c} \notin T
    <3>1. T \in SUBSET SUBSET B /\ T # {}
      BY <1>3
    <3> HIDE DEF T
    <3> QED BY <3>1, SmallestSet
  <2>2. s \in SUBSET B /\ ~(k[s] <= g[s])
    OBVIOUS
  <2>3. s # {}
    <3>1. k[{}] = 0 /\ g[{}] = 0
      BY <1>1, <1>2 DEF AddsUp
    <3>2. k[{}] <= g[{}]
      BY <3>1
    <3> QED BY <2>2, <3>2
  <2>4. PICK c \in s : g[s] = g[s \ {c}] + f[c] /\ k[s] = k[s \ {c}] + h[c]
    BY <1>1, <1>2, <2>2, <2>3 DEF AddsUp
  <2>5. k[s \ {c}] <= g[s \ {c}] /\ s \ {c} \in SUBSET B /\ c \in B
    BY <2>1, <2>2
  <2>6. /\ f[c] \in Nat /\ h[c] \in Nat /\ h[c] <= f[c]
        /\ g[s \ {c}] \in Nat /\ k[s \ {c}] \in Nat
    BY <2>5
  <2> QED BY <2>2, <2>4, <2>5, <2>6
<1>4. k[B] <= g[B]
  BY <1>3
<1> QED BY <1>1, <1>2, <1>4

-----------------------------------------------------------------------------
\* A free list without its first chunk.
LEMMA TakeFirst ==
    ASSUME NEW S, NEW s \in Seq(S), s # <<>>, IsInjective(s)
    PROVE  /\ Head(s) \in S /\ Head(s) \in Range(s)
           /\ Tail(s) \in Seq(S) /\ IsInjective(Tail(s)) /\ Range(Tail(s)) = Range(s) \ {Head(s)}
<1>1. Len(s) \in Nat /\ Len(s) # 0 /\ DOMAIN s = 1 .. Len(s)
  OBVIOUS
<1>2. Head(s) = s[1] /\ 1 \in DOMAIN s /\ s[1] \in S
  BY <1>1
<1>3. /\ Tail(s) \in Seq(S) /\ DOMAIN Tail(s) = 1 .. Len(s) - 1
      /\ \A i \in 1 .. Len(s) - 1 : Tail(s)[i] = s[i + 1]
  BY <1>1
<1> DEFINE t == Tail(s)
           n == Len(s)
<1>4. \A i \in 1 .. n - 1 : i + 1 \in 1 .. n /\ i + 1 # 1
  BY <1>1
<1>5. \A i \in 1 .. n : i # 1 => i - 1 \in 1 .. n - 1 /\ (i - 1) + 1 = i
  BY <1>1
<1>6. \A i, j \in 1 .. n : s[i] = s[j] => i = j
  BY <1>1 DEF IsInjective
<1>7. /\ t \in Seq(S) /\ DOMAIN t = 1 .. n - 1 /\ \A i \in 1 .. n - 1 : t[i] = s[i + 1]
      /\ DOMAIN s = 1 .. n /\ n \in Nat /\ 1 \in 1 .. n /\ Head(s) = s[1]
  BY <1>1, <1>2, <1>3
<1> HIDE DEF t, n
<1>8. ASSUME NEW i \in 1 .. n - 1, NEW j \in 1 .. n - 1, t[i] = t[j] PROVE i = j
  <2>1. i + 1 = j + 1
    BY <1>4, <1>6, <1>7, <1>8
  <2> QED BY <1>7, <2>1
<1>9. Range(t) \subseteq Range(s) \ {s[1]}
  <2> SUFFICES ASSUME NEW i \in 1 .. n - 1 PROVE t[i] \in Range(s) \ {s[1]}
    BY <1>7 DEF Range
  <2>1. i + 1 \in 1 .. n /\ i + 1 # 1 /\ t[i] = s[i + 1]
    BY <1>4, <1>7
  <2> QED BY <1>6, <1>7, <2>1 DEF Range
<1>10. Range(s) \ {s[1]} \subseteq Range(t)
  <2> SUFFICES ASSUME NEW i \in 1 .. n, s[i] # s[1] PROVE s[i] \in Range(t)
    BY <1>7 DEF Range
  <2>1. i - 1 \in 1 .. n - 1 /\ (i - 1) + 1 = i
    BY <1>5
  <2> QED BY <1>7, <2>1 DEF Range
<1>11. IsInjective(t)
  BY <1>7, <1>8 DEF IsInjective
<1>12. Range(t) = Range(s) \ {Head(s)}
  BY <1>7, <1>9, <1>10
<1>13. Head(s) \in Range(s)
  BY <1>2, <1>7 DEF Range
<1> QED BY <1>2, <1>3, <1>11, <1>12, <1>13 DEF t

\* ... and with one more before it.
LEMMA PutFirst ==
    ASSUME NEW S, NEW s \in Seq(S), IsInjective(s), NEW x \in S, x \notin Range(s)
    PROVE  /\ <<x>> \o s \in Seq(S) /\ IsInjective(<<x>> \o s)
           /\ Range(<<x>> \o s) = Range(s) \cup {x}
<1> DEFINE t == <<x>> \o s
           n == Len(s)
<1>1. n \in Nat /\ DOMAIN s = 1 .. n
  OBVIOUS
<1>2. t \in Seq(S) /\ Len(t) = n + 1
  OBVIOUS
<1>3. t[1] = x /\ \A i \in 1 .. n : t[i + 1] = s[i]
  OBVIOUS
<1>4. DOMAIN t = 1 .. n + 1
  BY <1>2
<1> HIDE DEF t, n
<1>5. \A i \in 1 .. n + 1 : i = 1 \/ (i - 1 \in 1 .. n /\ (i - 1) + 1 = i)
  BY <1>1
<1>6. \A i \in 1 .. n : i + 1 \in 1 .. n + 1
  BY <1>1
<1>7. 1 \in 1 .. n + 1
  BY <1>1
<1>8. \A i \in 1 .. n + 1 : i = 1 \/ (i - 1 \in 1 .. n /\ t[i] = s[i - 1])
  BY <1>3, <1>5
<1>9. \A i \in 1 .. n : s[i] # x
  BY <1>1 DEF Range
<1>10. \A i, j \in 1 .. n : s[i] = s[j] => i = j
  BY <1>1 DEF IsInjective
<1>11. ASSUME NEW i \in 1 .. n + 1, NEW j \in 1 .. n + 1, t[i] = t[j] PROVE i = j
  <2>1. CASE i = 1
    BY <1>3, <1>8, <1>9, <1>11, <2>1
  <2>2. CASE j = 1
    BY <1>3, <1>8, <1>9, <1>11, <2>2
  <2>3. CASE i # 1 /\ j # 1
    <3>1. i - 1 = j - 1
      BY <1>8, <1>10, <1>11, <2>3
    <3> QED BY <1>1, <3>1
  <2> QED BY <2>1, <2>2, <2>3
<1>12. Range(t) \subseteq Range(s) \cup {x}
  <2> SUFFICES ASSUME NEW i \in 1 .. n + 1 PROVE t[i] \in Range(s) \cup {x}
    BY <1>4 DEF Range
  <2> QED BY <1>1, <1>3, <1>8 DEF Range
<1>13. Range(s) \cup {x} \subseteq Range(t)
  <2>1. x \in Range(t)
    BY <1>3, <1>4, <1>7 DEF Range
  <2>2. \A i \in 1 .. n : s[i] \in Range(t)
    BY <1>3, <1>4, <1>6 DEF Range
  <2> QED BY <1>1, <2>1, <2>2 DEF Range
<1>14. IsInjective(t)
  BY <1>4, <1>11 DEF IsInjective
<1> QED BY <1>2, <1>12, <1>13, <1>14 DEF t

\* The free lists of a backend that a step leaves alone.
LEMMA SamePools ==
    ASSUME NEW b, apPool'[b] = apPool[b]
    PROVE  FreeIn(b)' = FreeIn(b) /\ (PoolsSorted(b) => PoolsSorted(b)')
BY DEF FreeIn, PoolsSorted

\* What one free list of b is, and what b has to give when it changes.
LEMMA PoolStep ==
    ASSUME MemTyped, NEW b \in Backends, PoolsSorted(b), NEW k \in Buckets, NEW t \in Seq(Piece),
           IsInjective(t), \A p \in Range(t) : p.bucket = k,
           apPool' = [apPool EXCEPT ![b] = [@ EXCEPT ![k] = t]]
    PROVE  /\ apPool' \in [Backends -> [Buckets -> Seq(Piece)]]
           /\ PoolsSorted(b)'
           /\ FreeIn(b)' = (FreeIn(b) \ Range(apPool[b][k])) \cup Range(t)
           /\ \A c \in Backends \ {b} : FreeIn(c)' = FreeIn(c) /\ (PoolsSorted(c) => PoolsSorted(c)')
<1>1. apPool \in [Backends -> [Buckets -> Seq(Piece)]]
  BY DEF MemTyped
<1>2. /\ apPool' \in [Backends -> [Buckets -> Seq(Piece)]]
      /\ apPool'[b][k] = t
      /\ \A j \in Buckets \ {k} : apPool'[b][j] = apPool[b][j]
      /\ \A c \in Backends \ {b} : apPool'[c] = apPool[c]
  BY <1>1
<1>3. PoolsSorted(b)'
  <2> SUFFICES ASSUME NEW j \in Buckets
               PROVE  IsInjective(apPool'[b][j]) /\ \A p \in Range(apPool'[b][j]) : p.bucket = j
    BY DEF PoolsSorted
  <2>1. CASE j = k
    BY <1>2, <2>1
  <2>2. CASE j # k
    <3>1. apPool'[b][j] = apPool[b][j]
      BY <1>2, <2>2
    <3> QED BY <3>1 DEF PoolsSorted
  <2> QED BY <2>1, <2>2
<1>4. /\ \A p : p \in FreeIn(b) <=> \E j \in Buckets : p \in Range(apPool[b][j])
      /\ \A p : p \in FreeIn(b)' <=> \E j \in Buckets : p \in Range(apPool'[b][j])
  BY DEF FreeIn
<1>5. \A j \in Buckets \ {k} : \A p \in Range(apPool[b][j]) : p \notin Range(apPool[b][k])
  BY DEF PoolsSorted
<1>6. /\ \A j \in Buckets \ {k} : Range(apPool'[b][j]) = Range(apPool[b][j])
      /\ Range(apPool'[b][k]) = Range(t)
  BY <1>2
<1>7. FreeIn(b)' = (FreeIn(b) \ Range(apPool[b][k])) \cup Range(t)
  BY <1>4, <1>5, <1>6
<1>8. ASSUME NEW c \in Backends \ {b}
      PROVE  FreeIn(c)' = FreeIn(c) /\ (PoolsSorted(c) => PoolsSorted(c)')
  <2>1. apPool'[c] = apPool[c]
    BY <1>2
  <2> QED BY <2>1, SamePools
<1> QED BY <1>2, <1>3, <1>7, <1>8

\* What is handed out are pieces.
LEMMA FreeTyped ==
    ASSUME MemTyped, NEW b \in Backends
    PROVE  /\ held[b] \subseteq Piece /\ FreeIn(b) \subseteq Piece /\ GivenIn(b) \subseteq Piece
           /\ \A k \in Buckets : apPool[b][k] \in Seq(Piece)
<1>1. held[b] \subseteq Piece /\ \A k \in Buckets : apPool[b][k] \in Seq(Piece)
  BY DEF MemTyped
<1>2. \A k \in Buckets : Range(apPool[b][k]) \subseteq Piece
  BY <1>1 DEF Range
<1> QED BY <1>1, <1>2 DEF FreeIn, GivenIn

-----------------------------------------------------------------------------
\* The blocks allocated are those in the lists, after b's have become those of M.
LEMMA TrackedStep ==
    ASSUME Tracked, NEW b \in Backends, NEW M, Relisted(b, M), ListsHold',
           \A c \in Backends \ {b} : BlocksOf(c) \cap M = {},
           \A x \in Blocks : size'[x] # 0 <=>
               x \in M \/ \E c \in Backends \ {b} : x \in BlocksOf(c),
           M # {} => parent'[b] # Null,
           \A c \in Backends \ {b} : parent[c] # Null => parent'[c] # Null
    PROVE  Tracked'
<1>1. BlocksOf(b)' = M /\ \A c \in Backends \ {b} : BlocksOf(c)' = BlocksOf(c)
  BY DEF Relisted
<1>2. BlocksApart'
  <2> SUFFICES ASSUME NEW c \in Backends, NEW d \in Backends, c # d
               PROVE  BlocksOf(c)' \cap BlocksOf(d)' = {}
    BY DEF BlocksApart
  <2>1. c # b /\ d # b => BlocksOf(c) \cap BlocksOf(d) = {}
    BY DEF Tracked, BlocksApart
  <2> QED BY <1>1, <2>1
<1>3. BlocksSized'
  <2> SUFFICES ASSUME NEW x \in Blocks
               PROVE  size'[x] # 0 <=> \E c \in Backends : x \in BlocksOf(c)'
    BY DEF BlocksSized
  <2> QED BY <1>1
<1>4. UnusedEmpty'
  <2> SUFFICES ASSUME NEW c \in Backends, parent'[c] = Null PROVE BlocksOf(c)' = {}
    BY DEF UnusedEmpty
  <2>1. CASE c = b
    BY <1>1, <2>1
  <2>2. CASE c # b
    <3>1. parent[c] = Null /\ BlocksOf(c)' = BlocksOf(c)
      BY <1>1, <2>2
    <3> QED BY <3>1 DEF Tracked, UnusedEmpty
  <2> QED BY <2>1, <2>2
<1> QED BY <1>2, <1>3, <1>4 DEF Tracked

\* A block that is not allocated is in no list ...
LEMMA NotListed ==
    ASSUME Tracked, NEW x \in Blocks, size[x] = 0, NEW c \in Backends
    PROVE  x \notin BlocksOf(c)
BY DEF Tracked, BlocksSized

\* ... and one that a list has.
LEMMA Listed ==
    ASSUME Tracked, NEW b \in Backends, NEW x \in BlocksOf(b)
    PROVE  /\ x \in Blocks /\ size[x] # 0
           /\ \A c \in Backends \ {b} : x \notin BlocksOf(c)
<1>1. x \in Blocks
  BY DEF Tracked, ListsHold
<1> QED BY <1>1 DEF Tracked, BlocksApart, BlocksSized

\* A backend in use is a backend.
LEMMA UsedBackend ==
    ASSUME NEW b \in InUse
    PROVE  b \in Backends /\ parent[b] # Null
BY DEF InUse

\* What a step does to the sum when it changes one block.
LEMMA AccountStep ==
    ASSUME size \in [Blocks -> Nat], size' \in [Blocks -> Nat], NEW x \in Blocks,
           \A y \in Blocks \ {x} : size[y] = size'[y]
    PROVE  InBlocks' = InBlocks - size[x] + size'[x] /\ InBlocks \in Nat /\ InBlocks' \in Nat
<1> DEFINE f == size
           h == size'
<1>1. f \in [Blocks -> Nat] /\ h \in [Blocks -> Nat] /\ \A y \in Blocks \ {x} : f[y] = h[y]
  OBVIOUS
<1>2. IsFiniteSet(Blocks)
  BY MemBackendAssumption
<1>3. InBlocks = Total(Blocks, f) /\ InBlocks' = Total(Blocks, h)
  BY InBlocksIsTotal
<1> HIDE DEF f, h
<1>4. Total(Blocks, h) = Total(Blocks, f) - f[x] + h[x]
  BY <1>1, <1>2, TotalOfOne
<1>5. Total(Blocks, f) \in Nat /\ Total(Blocks, h) \in Nat
  BY <1>1, <1>2, TotalIsNat
<1> QED BY <1>3, <1>4, <1>5 DEF f, h

-----------------------------------------------------------------------------
\* A block more.
LEMMA NewBlock ==
    ASSUME MemTyped, Tracked, Accounted, NEW b \in InUse, NEW n \in Nat \ {0}, NEW x \in Blocks,
           MemBackendAlloc(b, n, x), parent' = parent
    PROVE  /\ ListsTyped' /\ size' \in [Blocks -> Nat] /\ Tracked' /\ Accounted'
           /\ Relisted(b, BlocksOf(b) \cup {x})
           /\ \A c \in Backends : x \notin BlocksOf(c)
           /\ size'[x] = n + BlockUnits /\ \A y \in Blocks \ {x} : size'[y] = size[y]
           /\ nLimit # 0 => InBlocks' <= nLimit
<1>1. b \in Backends /\ parent'[b] # Null /\ BlockUnits \in Nat
  BY UsedBackend, MemBackendAssumption
<1>2. size[x] = 0
  BY DEF MemBackendAlloc, Unused
<1>3. \A c \in Backends : x \notin BlocksOf(c)
  BY <1>2, NotListed
<1>4. ListsTyped /\ ListsHold /\ size \in [Blocks -> Nat] /\ nLimit \in Nat
  BY MemBackendAssumption DEF MemTyped, Tracked
<1>5. /\ pBlocks' = [pBlocks EXCEPT ![b] = PushItem(Zeroed(@, x), x)]
      /\ nBlock' = [nBlock EXCEPT ![b] = @ + 1]
  BY DEF MemBackendAlloc
<1>6. ListsTyped' /\ ListsHold' /\ Relisted(b, BlocksOf(b) \cup {x})
  BY <1>1, <1>3, <1>4, <1>5, AllocLists
<1>7. /\ size' \in [Blocks -> Nat]
      /\ size'[x] = n + BlockUnits /\ \A y \in Blocks \ {x} : size'[y] = size[y]
  BY <1>1, <1>4 DEF MemBackendAlloc
<1>8. size'[x] # 0
  BY <1>1, <1>7
<1>9. Tracked'
  <2> DEFINE M == BlocksOf(b) \cup {x}
  <2>1. \A c \in Backends \ {b} : BlocksOf(c) \cap M = {}
    BY <1>1, <1>3 DEF Tracked, BlocksApart
  <2>2. ASSUME NEW y \in Blocks
        PROVE  size'[y] # 0 <=> y \in M \/ \E c \in Backends \ {b} : y \in BlocksOf(c)
    <3>1. CASE y = x
      BY <1>8, <3>1
    <3>2. CASE y # x
      <4>1. size'[y] = size[y] /\ (size[y] # 0 <=> \E c \in Backends : y \in BlocksOf(c))
        BY <1>7, <3>2 DEF Tracked, BlocksSized
      <4> QED BY <1>1, <3>2, <4>1
    <3> QED BY <3>1, <3>2
  <2>3. Relisted(b, M)
    BY <1>6
  <2> HIDE DEF M
  <2> QED BY <1>1, <1>6, <2>1, <2>2, <2>3, TrackedStep
<1>10. nSize' = nSize + (n + BlockUnits) /\ (nLimit # 0 => nSize + (n + BlockUnits) <= nLimit)
  BY DEF MemBackendAlloc, Counts, Fits
<1>11. InBlocks' = InBlocks - size[x] + size'[x] /\ InBlocks \in Nat /\ InBlocks' \in Nat
  BY <1>4, <1>7, AccountStep
<1>12. InBlocks' <= nSize' /\ nSize' \in Nat
  BY <1>1, <1>2, <1>7, <1>10, <1>11 DEF Accounted
<1>13. nLimit # 0 => InBlocks' <= nLimit
  <2>1. nLimit # 0 => nSize' <= nLimit
    BY <1>10
  <2> QED BY <1>4, <1>11, <1>12, <2>1
<1> QED BY <1>3, <1>6, <1>7, <1>9, <1>12, <1>13 DEF Accounted

\* A block less.
LEMMA BlockFreed ==
    ASSUME MemTyped, Tracked, Accounted, NEW b \in InUse, NEW x \in BlocksOf(b),
           MemBackendFree(b, x), parent' = parent
    PROVE  /\ ListsTyped' /\ size' \in [Blocks -> Nat] /\ Tracked' /\ Accounted'
           /\ Relisted(b, BlocksOf(b) \ {x})
           /\ \A c \in Backends \ {b} : x \notin BlocksOf(c)
           /\ \A y \in Blocks \ {x} : size'[y] = size[y]
           /\ InBlocks' <= InBlocks
<1>1. b \in Backends /\ parent'[b] # Null
  BY UsedBackend
<1>2. x \in Blocks /\ \A c \in Backends \ {b} : x \notin BlocksOf(c)
  BY <1>1, Listed
<1>4. ListsTyped /\ ListsHold /\ size \in [Blocks -> Nat]
  BY DEF MemTyped, Tracked
<1>5. /\ pBlocks' = [pBlocks EXCEPT ![b] = Zeroed(RemoveItem(@, x), x)]
      /\ nBlock' = [nBlock EXCEPT ![b] = @ - 1]
  BY DEF MemBackendFree
<1>6. ListsTyped' /\ ListsHold' /\ Relisted(b, BlocksOf(b) \ {x})
  BY <1>1, <1>4, <1>5, FreeLists
<1>7. /\ size' \in [Blocks -> Nat]
      /\ size'[x] = 0 /\ \A y \in Blocks \ {x} : size'[y] = size[y]
  BY <1>2, <1>4 DEF MemBackendFree
<1>8. Tracked'
  <2> DEFINE M == BlocksOf(b) \ {x}
  <2>1. \A c \in Backends \ {b} : BlocksOf(c) \cap M = {}
    BY <1>1 DEF Tracked, BlocksApart
  <2>2. ASSUME NEW y \in Blocks
        PROVE  size'[y] # 0 <=> y \in M \/ \E c \in Backends \ {b} : y \in BlocksOf(c)
    <3>1. CASE y = x
      BY <1>2, <1>7, <3>1
    <3>2. CASE y # x
      <4>1. size'[y] = size[y] /\ (size[y] # 0 <=> \E c \in Backends : y \in BlocksOf(c))
        BY <1>7, <3>2 DEF Tracked, BlocksSized
      <4> QED BY <1>1, <3>2, <4>1
    <3> QED BY <3>1, <3>2
  <2>3. Relisted(b, M)
    BY <1>6
  <2> HIDE DEF M
  <2> QED BY <1>1, <1>6, <2>1, <2>2, <2>3, TrackedStep
<1>9. nSize' = nSize - size[x] /\ size[x] \in Nat
  BY <1>2, <1>4 DEF MemBackendFree
<1>10. InBlocks' = InBlocks - size[x] + size'[x] /\ InBlocks \in Nat /\ InBlocks' \in Nat
  BY <1>2, <1>4, <1>7, AccountStep
<1>11. InBlocks' <= nSize' /\ nSize' \in Nat /\ InBlocks' <= InBlocks
  BY <1>7, <1>9, <1>10 DEF Accounted
<1> QED BY <1>2, <1>6, <1>7, <1>8, <1>11 DEF Accounted

\* A larger block, in place of one or where it was.
LEMMA BlockGrown ==
    ASSUME MemTyped, Tracked, Accounted, NEW b \in InUse, NEW p \in Piece, p.block \in BlocksOf(b),
           NEW n \in Nat \ {0}, SyMemBackendRealloc(b, p, n)
    PROVE  \E y \in Blocks :
           /\ held' = [held EXCEPT ![b] = (@ \ {p}) \cup {[p EXCEPT !.block = y]}]
           /\ ListsTyped' /\ size' \in [Blocks -> Nat] /\ Tracked' /\ Accounted'
           /\ Relisted(b, (BlocksOf(b) \ {p.block}) \cup {y})
           /\ \A c \in Backends \ {b} : p.block \notin BlocksOf(c) /\ y \notin BlocksOf(c)
           /\ y # p.block => y \notin BlocksOf(b)
           /\ \A z \in Blocks \ {p.block, y} : size'[z] = size[z]
           /\ nLimit # 0 => InBlocks' <= nLimit
<1> DEFINE x == p.block
<1>1. b \in Backends /\ parent' = parent /\ parent'[b] # Null /\ BlockUnits \in Nat
  BY UsedBackend, MemBackendAssumption DEF SyMemBackendRealloc
<1>2. /\ size[x] < n + BlockUnits /\ Counts(n + BlockUnits - size[x])
      /\ nBlock' = nBlock
  BY DEF SyMemBackendRealloc
<1>3. PICK y \in Unused \cup {x} :
         /\ size' = [size EXCEPT ![x] = 0, ![y] = n + BlockUnits]
         /\ pBlocks' = IF y = x THEN pBlocks
                       ELSE [pBlocks EXCEPT ![b] = Zeroed(Stands(@, x, y), x)]
         /\ held' = [held EXCEPT ![b] = (@ \ {p}) \cup {[p EXCEPT !.block = y]}]
  BY DEF SyMemBackendRealloc
<1>4. x \in BlocksOf(b) /\ x \in Blocks /\ size[x] # 0 /\ \A c \in Backends \ {b} : x \notin BlocksOf(c)
  BY <1>1, Listed
<1> HIDE DEF x
<1>5. y \in Blocks /\ (y # x => size[y] = 0)
  BY <1>4 DEF Unused
<1>6. \A c \in Backends : y = x \/ y \notin BlocksOf(c)
  BY <1>5, NotListed
<1>7. ListsTyped /\ ListsHold /\ size \in [Blocks -> Nat] /\ nLimit \in Nat
  BY MemBackendAssumption DEF MemTyped, Tracked
<1>8. ListsTyped' /\ ListsHold' /\ Relisted(b, (BlocksOf(b) \ {x}) \cup {y})
  <2>1. CASE y = x
    <3>1. ListsTyped' /\ ListsHold' /\ \A c \in Backends : BlocksOf(c)' = BlocksOf(c)
      BY <1>2, <1>3, <1>7, <2>1, SameLists
    <3>2. BlocksOf(b) = (BlocksOf(b) \ {x}) \cup {y}
      BY <1>4, <2>1
    <3> QED BY <1>1, <3>1, <3>2 DEF Relisted
  <2>2. CASE y # x
    <3>1. pBlocks' = [pBlocks EXCEPT ![b] = Zeroed(Stands(@, x, y), x)] /\ y \notin BlocksOf(b)
      BY <1>1, <1>3, <1>6, <2>2
    <3> QED BY <1>1, <1>2, <1>4, <1>5, <1>7, <3>1, StandsLists
  <2> QED BY <2>1, <2>2
<1>9. /\ size' \in [Blocks -> Nat] /\ size'[y] = n + BlockUnits
      /\ y # x => size'[x] = 0
      /\ \A z \in Blocks \ {x, y} : size'[z] = size[z]
  BY <1>1, <1>3, <1>4, <1>5, <1>7
<1>10. size'[y] # 0
  BY <1>1, <1>9
<1>11. Tracked'
  <2> DEFINE M == (BlocksOf(b) \ {x}) \cup {y}
  <2>1. \A c \in Backends \ {b} : BlocksOf(c) \cap M = {}
    BY <1>1, <1>4, <1>6 DEF Tracked, BlocksApart
  <2>2. ASSUME NEW z \in Blocks
        PROVE  size'[z] # 0 <=> z \in M \/ \E c \in Backends \ {b} : z \in BlocksOf(c)
    <3>1. CASE z = y
      BY <1>10, <3>1
    <3>2. CASE z = x /\ z # y
      BY <1>4, <1>9, <3>2
    <3>3. CASE z # x /\ z # y
      <4>1. size'[z] = size[z] /\ (size[z] # 0 <=> \E c \in Backends : z \in BlocksOf(c))
        BY <1>9, <3>3 DEF Tracked, BlocksSized
      <4> QED BY <1>1, <3>3, <4>1
    <3> QED BY <3>1, <3>2, <3>3
  <2>3. Relisted(b, M)
    BY <1>8
  <2> HIDE DEF M
  <2> QED BY <1>1, <1>8, <2>1, <2>2, <2>3, TrackedStep
<1>12. /\ nSize' = nSize + (n + BlockUnits - size[x])
       /\ nLimit # 0 => nSize + (n + BlockUnits - size[x]) <= nLimit
  BY <1>2 DEF Counts, Fits
<1>13. InBlocks' = InBlocks - size[x] + (n + BlockUnits) /\ InBlocks \in Nat /\ InBlocks' \in Nat
  <2> DEFINE f == size
             g == [size EXCEPT ![x] = 0]
             h == size'
  <2>1. f \in [Blocks -> Nat] /\ g \in [Blocks -> Nat] /\ h \in [Blocks -> Nat] /\ g[x] = 0
    BY <1>4, <1>7, <1>9
  <2>2. (\A z \in Blocks \ {x} : f[z] = g[z]) /\ (\A z \in Blocks \ {y} : g[z] = h[z])
    BY <1>4, <1>7, <1>9
  <2>3. g[y] = 0 /\ h[y] = n + BlockUnits
    BY <1>4, <1>5, <1>7, <1>9
  <2>4. InBlocks = Total(Blocks, f) /\ InBlocks' = Total(Blocks, h)
    BY InBlocksIsTotal
  <2>5. IsFiniteSet(Blocks)
    BY MemBackendAssumption
  <2>6. f[x] = size[x]
    OBVIOUS
  <2> HIDE DEF f, g, h
  <2>7. Total(Blocks, g) = Total(Blocks, f) - f[x] + g[x]
    BY <1>4, <2>1, <2>2, <2>5, TotalOfOne
  <2>8. Total(Blocks, h) = Total(Blocks, g) - g[y] + h[y]
    BY <1>5, <2>1, <2>2, <2>5, TotalOfOne
  <2>9. Total(Blocks, f) \in Nat /\ Total(Blocks, g) \in Nat /\ Total(Blocks, h) \in Nat
    BY <2>1, <2>5, TotalIsNat
  <2>10. f[x] \in Nat
    BY <1>4, <2>1
  <2> QED BY <1>1, <2>1, <2>3, <2>4, <2>6, <2>7, <2>8, <2>9, <2>10
<1>14. InBlocks' <= nSize' /\ nSize' \in Nat
  <2>1. size[x] \in Nat
    BY <1>4, <1>7
  <2> QED BY <1>1, <1>2, <1>12, <1>13, <2>1 DEF Accounted
<1>15. nLimit # 0 => InBlocks' <= nLimit
  <2>1. nLimit # 0 => nSize' <= nLimit
    BY <1>12
  <2> QED BY <1>7, <1>13, <1>14, <2>1
<1>16. \A c \in Backends \ {b} : x \notin BlocksOf(c) /\ y \notin BlocksOf(c)
  BY <1>4, <1>6
<1>17. y # x => y \notin BlocksOf(b)
  BY <1>1, <1>6
<1> QED BY <1>3, <1>5, <1>8, <1>9, <1>11, <1>14, <1>15, <1>16, <1>17 DEF Accounted, x

\* All the blocks of a backend.
LEMMA BlocksReleased ==
    ASSUME MemTyped, Tracked, Accounted, NEW b \in Backends, SyMemBackendRelease(b)
    PROVE  /\ ListsTyped' /\ size' \in [Blocks -> Nat] /\ Tracked' /\ Accounted'
           /\ Relisted(b, {})
           /\ \A c \in Backends \ {b} : \A x \in BlocksOf(c) : size'[x] = size[x]
           /\ InBlocks' <= InBlocks
<1>1. /\ size' = [x \in Blocks |-> IF x \in BlocksOf(b) THEN 0 ELSE size[x]]
      /\ nSize' = nSize
  BY DEF SyMemBackendRelease, BlocksOf, Walked
<1>2. /\ parent' = [parent EXCEPT ![b] = Null]
      /\ pBlocks' = [pBlocks EXCEPT ![b] = EmptyList(Blocks)]
      /\ nBlock' = [nBlock EXCEPT ![b] = 0]
  BY DEF SyMemBackendRelease
<1>3. ListsTyped /\ ListsHold /\ size \in [Blocks -> Nat] /\ parent \in [Backends -> Backends \cup {Null}]
  BY DEF MemTyped, Tracked
<1>4. ListsTyped' /\ ListsHold' /\ Relisted(b, {})
  BY <1>2, <1>3, EmptyLists
<1>5. size' \in [Blocks -> Nat] /\ \A x \in Blocks : size'[x] <= size[x]
  BY <1>1, <1>3
<1>6. \A c \in Backends \ {b} : \A x \in BlocksOf(c) : x \in Blocks /\ x \notin BlocksOf(b)
  BY Listed
<1>7. \A c \in Backends \ {b} : \A x \in BlocksOf(c) : size'[x] = size[x]
  BY <1>1, <1>6
<1>8. Tracked'
  <2> DEFINE M == {}
  <2>1. ASSUME NEW y \in Blocks
        PROVE  size'[y] # 0 <=> y \in M \/ \E c \in Backends \ {b} : y \in BlocksOf(c)
    <3>1. size[y] # 0 <=> \E c \in Backends : y \in BlocksOf(c)
      BY DEF Tracked, BlocksSized
    <3>2. size'[y] = IF y \in BlocksOf(b) THEN 0 ELSE size[y]
      BY <1>1
    <3> QED BY <1>6, <3>1, <3>2
  <2>2. Relisted(b, M) /\ M = {}
    BY <1>4
  <2>3. \A c \in Backends \ {b} : parent[c] # Null => parent'[c] # Null
    BY <1>2, <1>3
  <2> HIDE DEF M
  <2> QED BY <1>4, <2>1, <2>2, <2>3, TrackedStep
<1>9. InBlocks' <= InBlocks /\ InBlocks \in Nat /\ InBlocks' \in Nat
  <2> DEFINE f == size
             h == size'
  <2>1. f \in [Blocks -> Nat] /\ h \in [Blocks -> Nat] /\ \A x \in Blocks : h[x] <= f[x]
    BY <1>3, <1>5
  <2>2. InBlocks = Total(Blocks, f) /\ InBlocks' = Total(Blocks, h) /\ IsFiniteSet(Blocks)
    BY InBlocksIsTotal, MemBackendAssumption
  <2> HIDE DEF f, h
  <2>3. Total(Blocks, h) <= Total(Blocks, f)
    BY <2>1, <2>2, TotalOfLess
  <2>4. Total(Blocks, f) \in Nat /\ Total(Blocks, h) \in Nat
    BY <2>1, <2>2, TotalIsNat
  <2> QED BY <2>2, <2>3, <2>4
<1>10. Accounted'
  BY <1>1, <1>9 DEF Accounted
<1> QED BY <1>4, <1>5, <1>7, <1>8, <1>9, <1>10

\* A step of another backend.
LEMMA OwnedElsewhere ==
    ASSUME NEW c \in Backends, OwnedBy(c), BlocksOf(c)' = BlocksOf(c),
           held'[c] = held[c], apPool'[c] = apPool[c],
           \A x \in BlocksOf(c) : size'[x] = size[x]
    PROVE  OwnedBy(c)'
<1>1. FreeIn(c)' = FreeIn(c) /\ PoolsSorted(c)'
  BY SamePools DEF OwnedBy
<1>2. GivenIn(c)' = GivenIn(c) /\ HeldApart(c)'
  BY <1>1 DEF GivenIn, HeldApart, OwnedBy
<1>3. PiecesApart(c)'
  BY <1>2 DEF PiecesApart, OwnedBy
<1>4. PiecesInPlace(c)'
  <2> SUFFICES ASSUME NEW p \in GivenIn(c) PROVE InPlace(c, p)'
    BY <1>2 DEF PiecesInPlace
  <2>1. InPlace(c, p)
    BY DEF OwnedBy, PiecesInPlace
  <2>2. size'[p.block] = size[p.block]
    BY <2>1 DEF InPlace
  <2> QED BY <2>1, <2>2 DEF InPlace
<1> QED BY <1>1, <1>2, <1>3, <1>4 DEF OwnedBy

\* Pieces that stay where they are, beside those of a block that b did not have.
LEMMA MorePieces ==
    ASSUME NEW b \in Backends, OwnedBy(b), NEW x, x \notin BlocksOf(b),
           BlocksOf(b)' = BlocksOf(b) \cup {x}, \A y \in BlocksOf(b) : size'[y] = size[y],
           NEW N, GivenIn(b)' = GivenIn(b) \cup N,
           \A p \in N : p.block = x /\ InPlace(b, p)',
           \A p, q \in N : p # q => p.bucket = q.bucket /\ p.bucket \in Buckets
    PROVE  PiecesInPlace(b)' /\ PiecesApart(b)'
<1>1. \A p \in GivenIn(b) : InPlace(b, p) /\ p.block \in BlocksOf(b) /\ p.block # x
  BY DEF OwnedBy, PiecesInPlace, InPlace
<1>2. PiecesInPlace(b)'
  <2> SUFFICES ASSUME NEW p \in GivenIn(b) \cup N PROVE InPlace(b, p)'
    BY DEF PiecesInPlace
  <2>1. CASE p \in N
    BY <2>1
  <2>2. CASE p \in GivenIn(b)
    <3>1. size'[p.block] = size[p.block] /\ p.block \in BlocksOf(b)' /\ InPlace(b, p)
      BY <1>1, <2>2
    <3> QED BY <3>1 DEF InPlace
  <2> QED BY <2>1, <2>2
<1>3. PiecesApart(b)'
  <2> SUFFICES ASSUME NEW p \in GivenIn(b) \cup N, NEW q \in GivenIn(b) \cup N,
                      p.block = q.block, p # q
               PROVE  p.bucket = q.bucket /\ p.bucket \in Buckets
    BY DEF PiecesApart
  <2>1. (p \in N /\ q \in N) \/ (p \in GivenIn(b) /\ q \in GivenIn(b))
    BY <1>1
  <2> QED BY <2>1 DEF OwnedBy, PiecesApart
<1> QED BY <1>2, <1>3

\* Pieces that change hands.
LEMMA SamePieces ==
    ASSUME NEW b \in Backends, OwnedBy(b), BlocksOf(b)' = BlocksOf(b), size' = size,
           GivenIn(b)' = GivenIn(b)
    PROVE  PiecesInPlace(b)' /\ PiecesApart(b)'
BY DEF OwnedBy, PiecesInPlace, PiecesApart, InPlace

\* A piece that goes with its block.
LEMMA FewerPieces ==
    ASSUME NEW b \in Backends, OwnedBy(b), NEW p \in GivenIn(b), p.bucket \notin Buckets,
           BlocksOf(b)' = BlocksOf(b) \ {p.block},
           \A y \in BlocksOf(b) \ {p.block} : size'[y] = size[y],
           GivenIn(b)' = GivenIn(b) \ {p}
    PROVE  PiecesInPlace(b)' /\ PiecesApart(b)'
<1>1. \A q \in GivenIn(b) \ {p} : InPlace(b, q) /\ q.block \in BlocksOf(b) /\ q.block # p.block
  BY DEF OwnedBy, PiecesInPlace, InPlace, PiecesApart
<1>2. PiecesInPlace(b)'
  <2> SUFFICES ASSUME NEW q \in GivenIn(b) \ {p} PROVE InPlace(b, q)'
    BY DEF PiecesInPlace
  <2>1. size'[q.block] = size[q.block] /\ q.block \in BlocksOf(b)' /\ InPlace(b, q)
    BY <1>1
  <2> QED BY <2>1 DEF InPlace
<1>3. PiecesApart(b)'
  BY DEF OwnedBy, PiecesApart
<1> QED BY <1>2, <1>3

\* A piece whose block another one stands for.
LEMMA MovedPiece ==
    ASSUME NEW b \in Backends, OwnedBy(b), NEW p \in held[b], p \in Piece, p.bucket \notin Buckets,
           NEW y, y # p.block => y \notin BlocksOf(b),
           BlocksOf(b)' = (BlocksOf(b) \ {p.block}) \cup {y},
           \A z \in BlocksOf(b) \ {p.block} : size'[z] = size[z],
           held'[b] = (held[b] \ {p}) \cup {[p EXCEPT !.block = y]},
           apPool' = apPool
    PROVE  OwnedBy(b)'
<1> DEFINE q == [p EXCEPT !.block = y]
<1>1. q.block = y /\ q.bucket = p.bucket /\ q.at = p.at
  BY DEF Piece
<1>2. FreeIn(b)' = FreeIn(b) /\ PoolsSorted(b)' /\ p \in GivenIn(b) /\ p \notin FreeIn(b)
  BY SamePools DEF OwnedBy, HeldApart, GivenIn
<1>3. held'[b] = (held[b] \ {p}) \cup {q}
  OBVIOUS
<1> HIDE DEF q
<1>4. GivenIn(b)' = (GivenIn(b) \ {p}) \cup {q}
  BY <1>2, <1>3 DEF GivenIn
<1>5. \A r \in GivenIn(b) \ {p} : InPlace(b, r) /\ r.block \in BlocksOf(b) /\ r.block # p.block
  BY <1>2 DEF OwnedBy, PiecesInPlace, InPlace, PiecesApart
<1>6. \A r \in GivenIn(b) \ {p} : r.block # y
  BY <1>5
<1>7. InPlace(b, q)'
  <2>1. p.at = 0
    BY <1>2 DEF OwnedBy, PiecesInPlace, InPlace
  <2> QED BY <1>1, <2>1 DEF InPlace
<1>8. PiecesInPlace(b)'
  <2> SUFFICES ASSUME NEW r \in (GivenIn(b) \ {p}) \cup {q} PROVE InPlace(b, r)'
    BY <1>4 DEF PiecesInPlace
  <2>1. CASE r = q
    BY <1>7, <2>1
  <2>2. CASE r \in GivenIn(b) \ {p}
    <3>1. size'[r.block] = size[r.block] /\ r.block \in BlocksOf(b)' /\ InPlace(b, r)
      BY <1>5, <2>2
    <3> QED BY <3>1 DEF InPlace
  <2> QED BY <2>1, <2>2
<1>9. PiecesApart(b)'
  <2> SUFFICES ASSUME NEW r \in (GivenIn(b) \ {p}) \cup {q}, NEW s \in (GivenIn(b) \ {p}) \cup {q},
                      r.block = s.block, r # s
               PROVE  r.bucket = s.bucket /\ r.bucket \in Buckets
    BY <1>4 DEF PiecesApart
  <2>1. r \in GivenIn(b) \ {p} /\ s \in GivenIn(b) \ {p}
    BY <1>1, <1>6
  <2> QED BY <2>1 DEF OwnedBy, PiecesApart
<1>10. HeldApart(b)'
  <2>1. q \notin FreeIn(b)
    BY <1>1, <1>2, <1>6 DEF GivenIn
  <2> QED BY <1>2, <1>3, <2>1 DEF OwnedBy, HeldApart
<1> QED BY <1>2, <1>8, <1>9, <1>10 DEF OwnedBy

-----------------------------------------------------------------------------
\* A piece with a block of its own is of no bucket.
LEMMA BucketNumbers ==
    Big \notin Buckets /\ Raw \notin Buckets /\ Buckets \subseteq Nat
BY MemBackendAssumption DEF Big, Raw, Buckets

\* A step that takes nothing honours the limit.
LEMMA NotMore ==
    ASSUME MemTyped, size' \in [Blocks -> Nat], InBlocks' <= InBlocks
    PROVE  Limited
<1>1. InBlocks \in Nat /\ InBlocks' \in Nat
  <2> DEFINE f == size
             h == size'
  <2>1. f \in [Blocks -> Nat] /\ h \in [Blocks -> Nat]
    BY DEF MemTyped
  <2>2. InBlocks = Total(Blocks, f) /\ InBlocks' = Total(Blocks, h) /\ IsFiniteSet(Blocks)
    BY InBlocksIsTotal, MemBackendAssumption
  <2> HIDE DEF f, h
  <2> QED BY <2>1, <2>2, TotalIsNat
<1> QED BY <1>1 DEF Limited

\* ... as does one that leaves the sizes alone.
LEMMA SameSizes ==
    ASSUME MemTyped, size' = size
    PROVE  InBlocks' = InBlocks /\ InBlocks \in Nat /\ Limited /\ size' \in [Blocks -> Nat]
<1>1. size \in [Blocks -> Nat] /\ IsFiniteSet(Blocks)
  BY MemBackendAssumption DEF MemTyped
<1>2. InBlocks' = InBlocks /\ InBlocks = Total(Blocks, size)
  BY InBlocksIsTotal
<1>3. Total(Blocks, size) \in Nat
  BY <1>1, TotalIsNat
<1> QED BY <1>1, <1>2, <1>3 DEF Limited

\* A step of the account alone: an allocation that fails, a new backend, a limit.
LEMMA AccountOnly ==
    ASSUME MemInv, UNCHANGED <<pBlocks, nBlock, size, apPool, held>>,
           nLimit' \in Limits \cup {0}, nSize' \in Nat, nSize <= nSize',
           parent' \in [Backends -> Backends \cup {Null}],
           \A c \in Backends : parent'[c] = Null => parent[c] = Null
    PROVE  MemInv' /\ Limited
<1>1. MemTyped /\ Tracked /\ Owned /\ Accounted
  BY DEF MemInv
<1>2. ListsTyped' /\ ListsHold' /\ \A c \in Backends : BlocksOf(c)' = BlocksOf(c)
  BY <1>1, SameLists DEF MemTyped, Tracked
<1>3. MemTyped'
  BY <1>1, <1>2 DEF MemTyped
<1>4. Tracked'
  <2>1. BlocksApart' /\ BlocksSized'
    BY <1>1, <1>2 DEF Tracked, BlocksApart, BlocksSized
  <2>2. UnusedEmpty'
    BY <1>1, <1>2 DEF Tracked, UnusedEmpty
  <2> QED BY <1>2, <2>1, <2>2 DEF Tracked
<1>5. Owned'
  <2> SUFFICES ASSUME NEW c \in Backends PROVE OwnedBy(c)'
    BY DEF Owned
  <2> QED BY <1>1, <1>2, OwnedElsewhere DEF Owned
<1>6. Accounted' /\ Limited
  <2>1. InBlocks' = InBlocks /\ InBlocks \in Nat /\ Limited
    BY <1>1, SameSizes
  <2> QED BY <1>1, <2>1 DEF Accounted
<1> QED BY <1>3, <1>4, <1>5, <1>6 DEF MemInv

\* A block of its own for what is asked.
LEMMA WholeBlock ==
    ASSUME MemInv, NEW b \in InUse, NEW n \in Nat \ {0}, NEW x \in Blocks, NEW k \in {Big, Raw},
           MemBackendAlloc(b, n, x), Hold(b, [block |-> x, at |-> 0, bucket |-> k]),
           UNCHANGED <<nLimit, parent, apPool>>
    PROVE  MemInv' /\ Limited
<1> DEFINE p == [block |-> x, at |-> 0, bucket |-> k]
<1>1. b \in Backends /\ MemTyped /\ Tracked /\ Owned /\ Accounted
  BY UsedBackend DEF MemInv
<1>2. /\ ListsTyped' /\ size' \in [Blocks -> Nat] /\ Tracked' /\ Accounted'
      /\ Relisted(b, BlocksOf(b) \cup {x})
      /\ \A c \in Backends : x \notin BlocksOf(c)
      /\ size'[x] = n + BlockUnits /\ \A y \in Blocks \ {x} : size'[y] = size[y]
      /\ nLimit # 0 => InBlocks' <= nLimit
  BY <1>1, NewBlock
<1>3. p \in Piece /\ p.block = x /\ p.at = 0 /\ p.bucket \notin Buckets
  BY BucketNumbers DEF Piece
<1>4. held' = [held EXCEPT ![b] = @ \cup {p}]
  BY DEF Hold
<1> HIDE DEF p
<1>5. held' \in [Backends -> SUBSET Piece] /\ held'[b] = held[b] \cup {p}
      /\ \A c \in Backends \ {b} : held'[c] = held[c]
  BY <1>1, <1>3, <1>4 DEF MemTyped
<1>6. MemTyped'
  BY <1>1, <1>2, <1>5 DEF MemTyped
<1>7. \A c \in Backends : \A y \in BlocksOf(c) : size'[y] = size[y]
  BY <1>1, <1>2 DEF Tracked, ListsHold
<1>8. BlocksOf(b)' = BlocksOf(b) \cup {x} /\ \A c \in Backends \ {b} : BlocksOf(c)' = BlocksOf(c)
  BY <1>2 DEF Relisted
<1>9. OwnedBy(b)'
  <2>1. OwnedBy(b)
    BY <1>1 DEF Owned
  <2>2. FreeIn(b)' = FreeIn(b) /\ PoolsSorted(b)'
    BY <2>1, SamePools DEF OwnedBy
  <2>3. GivenIn(b)' = GivenIn(b) \cup {p}
    BY <1>5, <2>2 DEF GivenIn
  <2>4. InPlace(b, p)'
    BY <1>3, <1>8 DEF InPlace
  <2> DEFINE N == {p}
  <2>5. /\ GivenIn(b)' = GivenIn(b) \cup N
        /\ \A q \in N : q.block = x /\ InPlace(b, q)'
        /\ \A q, r \in N : q # r => q.bucket = r.bucket /\ q.bucket \in Buckets
    BY <1>3, <2>3, <2>4
  <2>8. PiecesInPlace(b)' /\ PiecesApart(b)'
    <3> HIDE DEF N
    <3> QED BY <1>1, <1>2, <1>7, <1>8, <2>1, <2>5, MorePieces
  <2>6. p \notin FreeIn(b)
    BY <1>1, <1>2, <1>3, <2>1 DEF OwnedBy, PiecesInPlace, InPlace, GivenIn
  <2>7. HeldApart(b)'
    BY <1>5, <2>1, <2>2, <2>6 DEF OwnedBy, HeldApart
  <2> QED BY <2>2, <2>7, <2>8 DEF OwnedBy
<1>10. ASSUME NEW c \in Backends \ {b} PROVE OwnedBy(c)'
  BY <1>1, <1>5, <1>7, <1>8, OwnedElsewhere DEF Owned
<1>11. Owned'
  BY <1>9, <1>10 DEF Owned
<1> QED BY <1>2, <1>6, <1>11 DEF MemInv, Limited

\* A chunk from the free list.
LEMMA ChunkTaken ==
    ASSUME MemInv, NEW b \in InUse, NEW n \in Nat \ {0}, PoolAlloc(b, n)
    PROVE  MemInv' /\ Limited
<1> DEFINE k == SmallestBucket(n)
           s == apPool[b][k]
           p == Head(s)
           t == Tail(s)
<1>1. b \in Backends /\ MemTyped /\ Tracked /\ Owned /\ Accounted /\ OwnedBy(b)
  BY UsedBackend DEF MemInv, Owned
<1>2. /\ s # <<>> /\ held' = [held EXCEPT ![b] = @ \cup {p}]
      /\ apPool' = [apPool EXCEPT ![b] = [@ EXCEPT ![k] = t]]
      /\ UNCHANGED <<nSize, nLimit, parent, pBlocks, nBlock, size>>
  BY DEF PoolAlloc, Hold
<1>3. k \in Buckets
  BY SmallestFits DEF PoolAlloc
<1>4. s \in Seq(Piece) /\ IsInjective(s) /\ \A q \in Range(s) : q.bucket = k
  BY <1>1, <1>3, FreeTyped DEF OwnedBy, PoolsSorted
<1>5. Range(s) \subseteq FreeIn(b)
  BY <1>3 DEF FreeIn
<1> HIDE DEF k, s
<1>6. /\ p \in Piece /\ p \in Range(s)
      /\ t \in Seq(Piece) /\ IsInjective(t) /\ Range(t) = Range(s) \ {p}
  BY <1>2, <1>4, TakeFirst
<1> HIDE DEF p, t
<1>7. /\ apPool' \in [Backends -> [Buckets -> Seq(Piece)]]
      /\ PoolsSorted(b)'
      /\ FreeIn(b)' = (FreeIn(b) \ Range(s)) \cup Range(t)
  <2>1. PoolsSorted(b) /\ \A q \in Range(t) : q.bucket = k
    BY <1>1, <1>4, <1>6 DEF OwnedBy
  <2> QED BY <1>1, <1>2, <1>3, <1>6, <2>1, PoolStep DEF s
<1>8. FreeIn(b)' = FreeIn(b) \ {p} /\ p \in FreeIn(b)
  BY <1>5, <1>6, <1>7
<1>9. held' \in [Backends -> SUBSET Piece] /\ held'[b] = held[b] \cup {p}
      /\ \A c \in Backends \ {b} : held'[c] = held[c] /\ apPool'[c] = apPool[c]
  BY <1>1, <1>2, <1>6 DEF MemTyped
<1>10. ListsTyped' /\ ListsHold' /\ \A c \in Backends : BlocksOf(c)' = BlocksOf(c)
  BY <1>1, <1>2, SameLists DEF MemTyped, Tracked
<1>11. MemTyped'
  BY <1>1, <1>2, <1>7, <1>9, <1>10 DEF MemTyped
<1>12. Tracked'
  BY <1>1, <1>2, <1>10 DEF Tracked, BlocksApart, BlocksSized, UnusedEmpty
<1>13. OwnedBy(b)'
  <2>1. GivenIn(b)' = GivenIn(b)
    BY <1>8, <1>9 DEF GivenIn
  <2>2. PiecesInPlace(b)' /\ PiecesApart(b)'
    BY <1>1, <1>2, <1>10, <2>1, SamePieces
  <2>3. HeldApart(b)'
    BY <1>1, <1>8, <1>9 DEF OwnedBy, HeldApart
  <2> QED BY <1>7, <2>2, <2>3 DEF OwnedBy
<1>14. ASSUME NEW c \in Backends \ {b} PROVE OwnedBy(c)'
  BY <1>1, <1>2, <1>9, <1>10, OwnedElsewhere DEF Owned
<1>15. Owned'
  BY <1>13, <1>14 DEF Owned
<1>16. Accounted' /\ Limited
  <2>1. InBlocks' = InBlocks /\ Limited
    BY <1>1, <1>2, SameSizes
  <2> QED BY <1>1, <1>2, <2>1 DEF Accounted
<1> QED BY <1>11, <1>12, <1>15, <1>16 DEF MemInv

\* A chunk that returns to its free list.
LEMMA ChunkReturned ==
    ASSUME MemInv, NEW b \in InUse, NEW p \in held[b], p.bucket \in Buckets,
           apPool' = [apPool EXCEPT ![b][p.bucket] = <<p>> \o @], GiveBack(b, p),
           UNCHANGED <<nSize, nLimit, parent, pBlocks, nBlock, size>>
    PROVE  MemInv' /\ Limited
<1> DEFINE k == p.bucket
           s == apPool[b][k]
           t == <<p>> \o s
<1>1. b \in Backends /\ MemTyped /\ Tracked /\ Owned /\ Accounted /\ OwnedBy(b)
  BY UsedBackend DEF MemInv, Owned
<1>2. /\ held' = [held EXCEPT ![b] = @ \ {p}]
      /\ apPool' = [apPool EXCEPT ![b] = [@ EXCEPT ![k] = t]]
  BY DEF GiveBack
<1>3. k \in Buckets /\ p \in Piece
  BY <1>1, FreeTyped
<1>4. s \in Seq(Piece) /\ IsInjective(s) /\ \A q \in Range(s) : q.bucket = k
  BY <1>1, <1>3, FreeTyped DEF OwnedBy, PoolsSorted
<1>5. Range(s) \subseteq FreeIn(b) /\ p \notin FreeIn(b)
  BY <1>1, <1>3 DEF FreeIn, OwnedBy, HeldApart
<1> HIDE DEF s
<1>6. t \in Seq(Piece) /\ IsInjective(t) /\ Range(t) = Range(s) \cup {p}
  BY <1>3, <1>4, <1>5, PutFirst
<1> HIDE DEF t
<1>7. /\ apPool' \in [Backends -> [Buckets -> Seq(Piece)]]
      /\ PoolsSorted(b)'
      /\ FreeIn(b)' = (FreeIn(b) \ Range(s)) \cup Range(t)
  <2>1. PoolsSorted(b) /\ \A q \in Range(t) : q.bucket = k
    BY <1>1, <1>4, <1>6 DEF OwnedBy
  <2> QED BY <1>1, <1>2, <1>3, <1>6, <2>1, PoolStep DEF s
<1>8. FreeIn(b)' = FreeIn(b) \cup {p}
  BY <1>5, <1>6, <1>7
<1>9. held' \in [Backends -> SUBSET Piece] /\ held'[b] = held[b] \ {p}
      /\ \A c \in Backends \ {b} : held'[c] = held[c] /\ apPool'[c] = apPool[c]
  BY <1>1, <1>2 DEF MemTyped
<1>10. ListsTyped' /\ ListsHold' /\ \A c \in Backends : BlocksOf(c)' = BlocksOf(c)
  BY <1>1, SameLists DEF MemTyped, Tracked
<1>11. MemTyped'
  BY <1>1, <1>7, <1>9, <1>10 DEF MemTyped
<1>12. Tracked'
  BY <1>1, <1>10 DEF Tracked, BlocksApart, BlocksSized, UnusedEmpty
<1>13. OwnedBy(b)'
  <2>1. GivenIn(b)' = GivenIn(b)
    BY <1>8, <1>9 DEF GivenIn
  <2>2. PiecesInPlace(b)' /\ PiecesApart(b)'
    BY <1>1, <1>10, <2>1, SamePieces
  <2>3. HeldApart(b)'
    BY <1>1, <1>8, <1>9 DEF OwnedBy, HeldApart
  <2> QED BY <1>7, <2>2, <2>3 DEF OwnedBy
<1>14. ASSUME NEW c \in Backends \ {b} PROVE OwnedBy(c)'
  BY <1>1, <1>9, <1>10, OwnedElsewhere DEF Owned
<1>15. Owned'
  BY <1>13, <1>14 DEF Owned
<1>16. Accounted' /\ Limited
  <2>1. InBlocks' = InBlocks /\ Limited
    BY <1>1, SameSizes
  <2> QED BY <1>1, <2>1 DEF Accounted
<1> QED BY <1>11, <1>12, <1>15, <1>16 DEF MemInv

\* A chunk of a new block, whose others go to the free list.
LEMMA BlockCut ==
    ASSUME MemInv, NEW b \in InUse, NEW n \in Nat \ {0}, PoolAllocFresh(b, n)
    PROVE  MemInv' /\ Limited
<1> DEFINE k == SmallestBucket(n)
<1>1. b \in Backends /\ MemTyped /\ Tracked /\ Owned /\ Accounted /\ OwnedBy(b)
  BY UsedBackend DEF MemInv, Owned
<1>2. PICK x \in Blocks :
         /\ MemBackendAlloc(b, MaxAlloc, x)
         /\ Hold(b, Head(MemPoolBucket(x, k)))
         /\ apPool' = [apPool EXCEPT ![b][k] = Tail(MemPoolBucket(x, k))]
  BY DEF PoolAllocFresh
<1>3. k \in Buckets
  BY SmallestFits DEF PoolAllocFresh
<1>4. apPool[b][k] = <<>> /\ UNCHANGED <<nLimit, parent>>
  BY DEF PoolAllocFresh
<1> HIDE DEF k
<1>5. MaxAlloc \in Nat \ {0} /\ \A j \in Buckets : BucketSize(j) \in 1 .. MaxAlloc
  BY BucketSizes
<1>6. /\ ListsTyped' /\ size' \in [Blocks -> Nat] /\ Tracked' /\ Accounted'
      /\ Relisted(b, BlocksOf(b) \cup {x})
      /\ \A c \in Backends : x \notin BlocksOf(c)
      /\ size'[x] = MaxAlloc + BlockUnits /\ \A y \in Blocks \ {x} : size'[y] = size[y]
      /\ nLimit # 0 => InBlocks' <= nLimit
  BY <1>1, <1>2, <1>4, <1>5, NewBlock
<1> DEFINE c == MemPoolBucket(x, k)
           p == Head(c)
           t == Tail(c)
<1>7. /\ c \in Seq(Piece) /\ c # <<>> /\ Len(c) \in Nat
      /\ \A i \in 1 .. Len(c) : /\ c[i].block = x /\ c[i].bucket = k
                                /\ c[i].at = (i - 1) * BucketSize(k)
                                /\ c[i].at + BucketSize(k) <= MaxAlloc
      /\ \A i, j \in 1 .. Len(c) : c[i] = c[j] => i = j
  BY <1>3, ChunkTyped
<1>8. held' = [held EXCEPT ![b] = @ \cup {p}] /\ apPool' = [apPool EXCEPT ![b] = [@ EXCEPT ![k] = t]]
  BY <1>2 DEF Hold
<1> HIDE DEF c
<1>9. DOMAIN c = 1 .. Len(c)
  BY <1>7
<1>10. IsInjective(c)
  BY <1>7, <1>9 DEF IsInjective
<1>11. /\ p \in Piece /\ p \in Range(c)
       /\ t \in Seq(Piece) /\ IsInjective(t) /\ Range(t) = Range(c) \ {p}
  BY <1>7, <1>10, TakeFirst
<1> HIDE DEF p, t
<1>12. BlocksOf(b)' = BlocksOf(b) \cup {x} /\ \A d \in Backends \ {b} : BlocksOf(d)' = BlocksOf(d)
  BY <1>6 DEF Relisted
<1>13. ASSUME NEW q \in Range(c)
       PROVE  q.block = x /\ q.bucket = k /\ InPlace(b, q)'
  <2>1. PICK i \in 1 .. Len(c) : q = c[i]
    BY <1>9 DEF Range
  <2>2. /\ q.block = x /\ q.bucket = k /\ q.at = (i - 1) * BucketSize(k)
        /\ q.at + BucketSize(k) <= MaxAlloc
    BY <1>7, <2>1
  <2>3. i - 1 \in Nat /\ BucketSize(k) \in Nat \ {0} /\ MaxAlloc \in Nat
    BY <1>3, <1>5, <1>7, <2>1
  <2> DEFINE m == i - 1
             d == BucketSize(k)
  <2>4. m \in Nat /\ d \in Nat \ {0} /\ q.at = m * d /\ q.at + d <= MaxAlloc
    BY <2>2, <2>3
  <2> HIDE DEF m, d
  <2>5. m <= m * d
    BY <2>4
  <2>6. m \in 0 .. MaxAlloc
    BY <2>3, <2>4, <2>5
  <2>7. InPlace(b, q)'
    <3>1. \E j \in 0 .. MaxAlloc : q.at = j * BucketSize(k)
      BY <2>4, <2>6 DEF d
    <3> QED BY <1>3, <1>6, <1>12, <2>2, <3>1 DEF InPlace
  <2> QED BY <2>2, <2>7
<1>14. /\ apPool' \in [Backends -> [Buckets -> Seq(Piece)]]
       /\ PoolsSorted(b)'
       /\ FreeIn(b)' = (FreeIn(b) \ Range(apPool[b][k])) \cup Range(t)
  <2>1. PoolsSorted(b) /\ \A q \in Range(t) : q.bucket = k
    BY <1>1, <1>11, <1>13 DEF OwnedBy
  <2> QED BY <1>1, <1>3, <1>8, <1>11, <2>1, PoolStep
<1>15. FreeIn(b)' = FreeIn(b) \cup (Range(c) \ {p})
  <2>1. Range(apPool[b][k]) = {}
    BY <1>4 DEF Range
  <2> QED BY <1>11, <1>14, <2>1
<1>16. held' \in [Backends -> SUBSET Piece] /\ held'[b] = held[b] \cup {p}
       /\ \A d \in Backends \ {b} : held'[d] = held[d] /\ apPool'[d] = apPool[d]
  BY <1>1, <1>8, <1>11 DEF MemTyped
<1>17. MemTyped'
  BY <1>1, <1>4, <1>6, <1>14, <1>16 DEF MemTyped
<1>18. \A d \in Backends : \A y \in BlocksOf(d) : size'[y] = size[y]
  BY <1>1, <1>6 DEF Tracked, ListsHold
<1>19. OwnedBy(b)'
  <2>1. GivenIn(b)' = GivenIn(b) \cup Range(c)
    BY <1>11, <1>15, <1>16 DEF GivenIn
  <2>2. \A q \in Range(c) : q.block = x /\ InPlace(b, q)'
    BY <1>13
  <2>3. \A q, r \in Range(c) : q # r => q.bucket = r.bucket /\ q.bucket \in Buckets
    BY <1>3, <1>13
  <2>4. PiecesInPlace(b)' /\ PiecesApart(b)'
    BY <1>1, <1>6, <1>12, <1>18, <2>1, <2>2, <2>3, MorePieces
  <2>5. \A q \in GivenIn(b) : q \notin Range(c)
    BY <1>1, <1>6, <1>13 DEF OwnedBy, PiecesInPlace, InPlace
  <2>6. HeldApart(b)'
    BY <1>1, <1>11, <1>15, <1>16, <2>5 DEF OwnedBy, HeldApart, GivenIn
  <2> QED BY <1>14, <2>4, <2>6 DEF OwnedBy
<1>20. ASSUME NEW d \in Backends \ {b} PROVE OwnedBy(d)'
  BY <1>1, <1>12, <1>16, <1>18, OwnedElsewhere DEF Owned
<1>21. Owned'
  BY <1>19, <1>20 DEF Owned
<1> QED BY <1>6, <1>17, <1>21 DEF MemInv, Limited

\* A block of its own that is freed.
LEMMA WholeFreed ==
    ASSUME MemInv, NEW b \in InUse, NEW p \in held[b], p.bucket \notin Buckets,
           MemBackendFree(b, p.block), GiveBack(b, p), UNCHANGED <<nLimit, parent, apPool>>
    PROVE  MemInv' /\ Limited
<1> DEFINE x == p.block
<1>1. b \in Backends /\ MemTyped /\ Tracked /\ Owned /\ Accounted /\ OwnedBy(b)
  BY UsedBackend DEF MemInv, Owned
<1>2. p \in GivenIn(b) /\ x \in BlocksOf(b)
  BY <1>1 DEF OwnedBy, PiecesInPlace, InPlace, GivenIn
<1>3. /\ ListsTyped' /\ size' \in [Blocks -> Nat] /\ Tracked' /\ Accounted'
      /\ Relisted(b, BlocksOf(b) \ {x})
      /\ \A c \in Backends \ {b} : x \notin BlocksOf(c)
      /\ \A y \in Blocks \ {x} : size'[y] = size[y]
      /\ InBlocks' <= InBlocks
  BY <1>1, <1>2, BlockFreed
<1>4. held' = [held EXCEPT ![b] = @ \ {p}]
  BY DEF GiveBack
<1>5. held' \in [Backends -> SUBSET Piece] /\ held'[b] = held[b] \ {p}
      /\ \A c \in Backends \ {b} : held'[c] = held[c]
  BY <1>1, <1>4 DEF MemTyped
<1>6. MemTyped'
  BY <1>1, <1>3, <1>5 DEF MemTyped
<1>7. BlocksOf(b)' = BlocksOf(b) \ {x} /\ \A c \in Backends \ {b} : BlocksOf(c)' = BlocksOf(c)
  BY <1>3 DEF Relisted
<1>8. /\ \A y \in BlocksOf(b) \ {x} : size'[y] = size[y]
      /\ \A c \in Backends \ {b} : \A y \in BlocksOf(c) : size'[y] = size[y]
  BY <1>1, <1>3 DEF Tracked, ListsHold
<1>9. OwnedBy(b)'
  <2>1. FreeIn(b)' = FreeIn(b) /\ PoolsSorted(b)' /\ p \notin FreeIn(b)
    BY <1>1, SamePools DEF OwnedBy, HeldApart
  <2>2. GivenIn(b)' = GivenIn(b) \ {p}
    BY <1>5, <2>1 DEF GivenIn
  <2>3. PiecesInPlace(b)' /\ PiecesApart(b)'
    BY <1>1, <1>2, <1>7, <1>8, <2>2, FewerPieces
  <2>4. HeldApart(b)'
    BY <1>1, <1>5, <2>1 DEF OwnedBy, HeldApart
  <2> QED BY <2>1, <2>3, <2>4 DEF OwnedBy
<1>10. ASSUME NEW c \in Backends \ {b} PROVE OwnedBy(c)'
  BY <1>1, <1>5, <1>7, <1>8, OwnedElsewhere DEF Owned
<1>11. Owned'
  BY <1>9, <1>10 DEF Owned
<1>12. Limited
  BY <1>1, <1>3, NotMore
<1> QED BY <1>3, <1>6, <1>11, <1>12 DEF MemInv

\* A block that grows.
LEMMA WholeGrown ==
    ASSUME MemInv, NEW b \in InUse, NEW n \in Nat \ {0}, NEW p \in held[b], p.bucket = Raw,
           SyMemBackendRealloc(b, p, n)
    PROVE  MemInv' /\ Limited
<1> DEFINE x == p.block
<1>1. b \in Backends /\ MemTyped /\ Tracked /\ Owned /\ Accounted /\ OwnedBy(b)
  BY UsedBackend DEF MemInv, Owned
<1>2. p \in GivenIn(b) /\ x \in BlocksOf(b) /\ p \in Piece /\ p.bucket \notin Buckets
  BY <1>1, BucketNumbers, FreeTyped DEF OwnedBy, PiecesInPlace, InPlace, GivenIn
<1>3. PICK y \in Blocks :
           /\ held' = [held EXCEPT ![b] = (@ \ {p}) \cup {[p EXCEPT !.block = y]}]
           /\ ListsTyped' /\ size' \in [Blocks -> Nat] /\ Tracked' /\ Accounted'
           /\ Relisted(b, (BlocksOf(b) \ {x}) \cup {y})
           /\ \A c \in Backends \ {b} : x \notin BlocksOf(c) /\ y \notin BlocksOf(c)
           /\ y # x => y \notin BlocksOf(b)
           /\ \A z \in Blocks \ {x, y} : size'[z] = size[z]
           /\ nLimit # 0 => InBlocks' <= nLimit
  BY <1>1, <1>2, BlockGrown
<1>4. [p EXCEPT !.block = y] \in Piece
  BY <1>2 DEF Piece
<1>5. /\ held' \in [Backends -> SUBSET Piece]
      /\ held'[b] = (held[b] \ {p}) \cup {[p EXCEPT !.block = y]}
      /\ \A c \in Backends \ {b} : held'[c] = held[c]
  BY <1>1, <1>3, <1>4 DEF MemTyped
<1>6. UNCHANGED <<nLimit, parent, apPool>>
  BY DEF SyMemBackendRealloc
<1>7. MemTyped'
  BY <1>1, <1>3, <1>5, <1>6 DEF MemTyped
<1>8. /\ BlocksOf(b)' = (BlocksOf(b) \ {x}) \cup {y}
      /\ \A c \in Backends \ {b} : BlocksOf(c)' = BlocksOf(c)
  BY <1>3 DEF Relisted
<1>9. \A c \in Backends : BlocksOf(c) \subseteq Blocks
  BY <1>1 DEF Tracked, ListsHold
<1>10. /\ \A z \in BlocksOf(b) \ {x} : size'[z] = size[z]
       /\ \A c \in Backends \ {b} : \A z \in BlocksOf(c) : size'[z] = size[z]
  BY <1>1, <1>3, <1>9
<1>11. OwnedBy(b)'
  BY <1>1, <1>2, <1>3, <1>5, <1>6, <1>8, <1>10, MovedPiece
<1>12. ASSUME NEW c \in Backends \ {b} PROVE OwnedBy(c)'
  BY <1>1, <1>5, <1>6, <1>8, <1>10, OwnedElsewhere DEF Owned
<1>13. Owned'
  BY <1>11, <1>12 DEF Owned
<1> QED BY <1>3, <1>6, <1>7, <1>13 DEF MemInv, Limited

\* A backend with all it has.
LEMMA BackendReleased ==
    ASSUME MemInv, NEW b \in Backends, SyMemBackendRelease(b)
    PROVE  MemInv' /\ Limited
<1>1. MemTyped /\ Tracked /\ Owned /\ Accounted
  BY DEF MemInv
<1>2. /\ ListsTyped' /\ size' \in [Blocks -> Nat] /\ Tracked' /\ Accounted'
      /\ Relisted(b, {})
      /\ \A c \in Backends \ {b} : \A x \in BlocksOf(c) : size'[x] = size[x]
      /\ InBlocks' <= InBlocks
  BY <1>1, BlocksReleased
<1>3. /\ parent' = [parent EXCEPT ![b] = Null] /\ apPool' = [apPool EXCEPT ![b] = Empty]
      /\ held' = [held EXCEPT ![b] = {}] /\ UNCHANGED <<nSize, nLimit>>
  BY DEF SyMemBackendRelease
<1>4. Empty \in [Buckets -> Seq(Piece)]
  BY DEF Empty
<1>5. MemTyped'
  BY <1>1, <1>2, <1>3, <1>4 DEF MemTyped
<1>6. \A c \in Backends \ {b} : held'[c] = held[c] /\ apPool'[c] = apPool[c]
  BY <1>1, <1>3 DEF MemTyped
<1>7. held'[b] = {} /\ apPool'[b] = Empty
  BY <1>1, <1>3 DEF MemTyped
<1>8. OwnedBy(b)'
  <2>1. \A k \in Buckets : apPool'[b][k] = <<>> /\ Range(apPool'[b][k]) = {}
    BY <1>7 DEF Empty, Range
  <2>2. FreeIn(b)' = {}
    BY <2>1 DEF FreeIn
  <2>3. GivenIn(b)' = {}
    BY <1>7, <2>2 DEF GivenIn
  <2>4. PoolsSorted(b)'
    BY <2>1 DEF PoolsSorted, IsInjective
  <2> QED BY <1>7, <2>3, <2>4 DEF OwnedBy, PiecesInPlace, PiecesApart, HeldApart
<1>9. ASSUME NEW c \in Backends \ {b} PROVE OwnedBy(c)'
  <2>1. BlocksOf(c)' = BlocksOf(c)
    BY <1>2 DEF Relisted
  <2> QED BY <1>1, <1>2, <1>6, <2>1, OwnedElsewhere DEF Owned
<1>10. Owned'
  BY <1>8, <1>9 DEF Owned
<1>11. Limited
  BY <1>1, <1>2, NotMore
<1> QED BY <1>2, <1>5, <1>10, <1>11 DEF MemInv

-----------------------------------------------------------------------------
\* MemInv holds at first ...
LEMMA MemInvInit == MemInit => MemInv
<1> SUFFICES ASSUME MemInit PROVE MemInv
  OBVIOUS
<1>1. NBuckets \in Nat /\ BlockUnits \in Nat /\ HeapUnits \in Nat /\ IsFiniteSet(Blocks)
  BY MemBackendAssumption
<1> DEFINE e == EmptyList(Blocks)
<1>2. e \in Lists(Blocks) /\ Holds(e, {}, 0)
  BY EmptyHolds
<1> HIDE DEF e
<1>3. \A b \in Backends : pBlocks[b] = e /\ nBlock[b] = 0
  BY DEF MemInit, e
<1>4. ListsTyped
  <2>1. pBlocks = [b \in Backends |-> e] /\ nBlock = [b \in Backends |-> 0]
    BY DEF MemInit, e
  <2> QED BY <1>2, <2>1 DEF ListsTyped
<1>5. \A b \in Backends : BlocksOf(b) = {}
  <2>1. Walked(Steps(e, 0), 0) = {}
    BY <1>2, WalkedAll
  <2> QED BY <1>3, <2>1 DEF BlocksOf
<1>6. Empty \in [Buckets -> Seq(Piece)]
  BY DEF Empty
<1>7. MemTyped
  BY <1>1, <1>4, <1>6 DEF MemInit, MemTyped, Backends
<1>8. ListsHold
  <2> SUFFICES ASSUME NEW b \in Backends
               PROVE  BlocksOf(b) \subseteq Blocks /\ Holds(pBlocks[b], BlocksOf(b), nBlock[b])
    BY DEF ListsHold
  <2> QED BY <1>2, <1>3, <1>5
<1>9. BlocksApart /\ BlocksSized /\ UnusedEmpty
  BY <1>5 DEF BlocksApart, BlocksSized, UnusedEmpty, MemInit
<1>10. ASSUME NEW b \in Backends PROVE OwnedBy(b)
  <2>1. held[b] = {} /\ \A k \in Buckets : apPool[b][k] = <<>>
    BY DEF MemInit, Empty
  <2>2. \A k \in Buckets : Range(apPool[b][k]) = {}
    BY <2>1 DEF Range
  <2>3. FreeIn(b) = {}
    BY <2>2 DEF FreeIn
  <2>4. PoolsSorted(b)
    BY <2>1, <2>2 DEF PoolsSorted, IsInjective
  <2> QED BY <2>1, <2>3, <2>4 DEF OwnedBy, PiecesInPlace, PiecesApart, HeldApart, GivenIn
<1>11. Accounted
  <2>1. size \in [Blocks -> Nat] /\ \A x \in Blocks : size[x] = 0
    BY DEF MemInit
  <2>2. InBlocks = Total(Blocks, size)
    BY InBlocksIsTotal
  <2>3. PICK g \in [SUBSET Blocks -> Nat] : Total(Blocks, size) = g[Blocks] /\ AddsUp(Blocks, g, size)
    BY <1>1, <2>1, TotalSums
  <2> DEFINE T == {s \in SUBSET Blocks : g[s] # 0}
  <2>4. ASSUME T # {} PROVE FALSE
    <3>1. PICK s \in T : \A c \in s : s \ {c} \notin T
      <4>1. T \in SUBSET SUBSET Blocks /\ T # {}
        BY <2>4
      <4> HIDE DEF T
      <4> QED BY <1>1, <4>1, SmallestSet
    <3>2. s \in SUBSET Blocks /\ g[s] # 0 /\ s # {}
      BY <2>3 DEF AddsUp
    <3>3. PICK c \in s : g[s] = g[s \ {c}] + size[c]
      BY <2>3, <3>2 DEF AddsUp
    <3>4. g[s \ {c}] = 0 /\ size[c] = 0
      BY <2>1, <3>1, <3>2
    <3> QED BY <3>2, <3>3, <3>4
  <2>5. InBlocks = 0
    BY <2>2, <2>3, <2>4
  <2>6. nSize = HeapUnits
    BY DEF MemInit
  <2> QED BY <1>1, <2>5, <2>6 DEF Accounted
<1> QED BY <1>7, <1>8, <1>9, <1>10, <1>11 DEF MemInv, Tracked, Owned

\* ... and every step keeps it, and honours the limit.
LEMMA MemInvStep == MemInv /\ [MemNext]_memVars => MemInv' /\ Limited
<1> SUFFICES ASSUME MemInv, [MemNext]_memVars PROVE MemInv' /\ Limited
  OBVIOUS
<1>1. /\ Requests \subseteq Nat \ {0} /\ Limits \subseteq Nat /\ HeapUnits \in Nat /\ BlockUnits \in Nat
      /\ MemTyped /\ nSize \in Nat /\ nLimit \in Limits \cup {0}
      /\ parent \in [Backends -> Backends \cup {Null}]
  BY MemBackendAssumption DEF MemInv, Accounted, MemTyped
<1>2. ASSUME NEW b \in InUse, NEW n \in Requests PROVE n \in Nat \ {0}
  BY <1>1
<1>3. ASSUME NEW b \in InUse, NEW n \in Requests, SyMemBackendAlloc(b, n)
      PROVE  MemInv' /\ Limited
  <2>1. PICK x \in Blocks : /\ MemBackendAlloc(b, n, x)
                            /\ Hold(b, [block |-> x, at |-> 0, bucket |-> Raw])
    BY <1>3 DEF SyMemBackendAlloc
  <2>2. UNCHANGED <<nLimit, parent, apPool>>
    BY <1>3 DEF SyMemBackendAlloc
  <2> QED BY <1>2, <2>1, <2>2, WholeBlock
<1>4. ASSUME NEW b \in InUse, NEW n \in Requests, PoolAllocBig(b, n)
      PROVE  MemInv' /\ Limited
  <2>1. PICK x \in Blocks : /\ MemBackendAlloc(b, n + HeaderUnits, x)
                            /\ Hold(b, [block |-> x, at |-> 0, bucket |-> Big])
    BY <1>4 DEF PoolAllocBig
  <2>2. UNCHANGED <<nLimit, parent, apPool>>
    BY <1>4 DEF PoolAllocBig
  <2>3. n + HeaderUnits \in Nat \ {0}
    BY <1>2 DEF HeaderUnits
  <2> QED BY <2>1, <2>2, <2>3, WholeBlock
<1>5. ASSUME NEW b \in InUse, NEW n \in Requests, PoolAlloc(b, n)
      PROVE  MemInv' /\ Limited
  BY <1>2, <1>5, ChunkTaken
<1>6. ASSUME NEW b \in InUse, NEW n \in Requests, PoolAllocFresh(b, n)
      PROVE  MemInv' /\ Limited
  BY <1>2, <1>6, BlockCut
<1>7. ASSUME NEW b \in InUse, NEW n \in Requests, NEW p \in held[b], p.bucket = Raw,
             SyMemBackendRealloc(b, p, n)
      PROVE  MemInv' /\ Limited
  BY <1>2, <1>7, WholeGrown
<1>8. ASSUME NEW b \in InUse, NEW p \in held[b], SyMemBackendFree(b, p)
      PROVE  MemInv' /\ Limited
  <2>1. /\ p.bucket \notin Buckets /\ MemBackendFree(b, p.block) /\ GiveBack(b, p)
        /\ UNCHANGED <<nLimit, parent, apPool>>
    BY <1>8, BucketNumbers DEF SyMemBackendFree
  <2> QED BY <2>1, WholeFreed
<1>9. ASSUME NEW b \in InUse, NEW p \in held[b], SyMemBackendPoolFree(b, p)
      PROVE  MemInv' /\ Limited
  <2>1. GiveBack(b, p) /\ UNCHANGED <<nLimit, parent>> /\ p.bucket # Raw
    BY <1>9 DEF SyMemBackendPoolFree
  <2>2. CASE p.bucket = Big
    <3>1. MemBackendFree(b, p.block) /\ UNCHANGED apPool /\ p.bucket \notin Buckets
      BY <1>9, <2>2, BucketNumbers DEF SyMemBackendPoolFree
    <3> QED BY <2>1, <3>1, WholeFreed
  <2>3. CASE p.bucket # Big
    <3>1. /\ apPool' = [apPool EXCEPT ![b][p.bucket] = <<p>> \o @]
          /\ UNCHANGED <<nSize, size, pBlocks, nBlock>>
      BY <1>9, <2>3 DEF SyMemBackendPoolFree
    <3>2. b \in Backends
      BY UsedBackend
    <3>3. p \in Piece
      BY <1>1, <3>2, FreeTyped
    <3>4. p.bucket \in Buckets
      BY <2>1, <2>3, <3>3 DEF Piece
    <3> QED BY <2>1, <3>1, <3>4, ChunkReturned
  <2> QED BY <2>2, <2>3
<1>10. ASSUME NEW n \in Requests, AllocFails(n)
       PROVE  MemInv' /\ Limited
  <2>1. /\ nSize' = nSize + (n + BlockUnits)
        /\ UNCHANGED <<nLimit, parent, pBlocks, nBlock, size, apPool, held>>
    BY <1>10 DEF AllocFails, Counts
  <2>2. nSize' \in Nat /\ nSize <= nSize'
    BY <1>1, <2>1
  <2> QED BY <1>1, <2>1, <2>2, AccountOnly
<1>11. ASSUME NEW b \in Children, NEW p \in InUse, SyMemBackendInitFromParent(b, p)
       PROVE  MemInv' /\ Limited
  <2>1. /\ nSize' = nSize + HeapUnits /\ parent[b] = Null
        /\ parent' = [parent EXCEPT ![b] = p]
        /\ UNCHANGED <<nLimit, pBlocks, nBlock, size, apPool, held>>
    BY <1>11 DEF SyMemBackendInitFromParent, Counts
  <2>2. nSize' \in Nat /\ nSize <= nSize'
    BY <1>1, <2>1
  <2>3. parent' \in [Backends -> Backends \cup {Null}]
    BY <1>1, <2>1, UsedBackend
  <2>4. \A c \in Backends : parent'[c] = Null => parent[c] = Null
    BY <1>1, <2>1
  <2> QED BY <1>1, <2>1, <2>2, <2>3, <2>4, AccountOnly
<1>12. ASSUME NEW b \in Children, SyMemBackendRelease(b)
       PROVE  MemInv' /\ Limited
  <2>1. b \in Backends
    BY DEF Backends
  <2> QED BY <1>12, <2>1, BackendReleased
<1>13. ASSUME NEW n \in Limits, ConfigureLimit(n)
       PROVE  MemInv' /\ Limited
  <2>1. nLimit' = n /\ UNCHANGED <<nSize, parent, pBlocks, nBlock, size, apPool, held>>
    BY <1>13 DEF ConfigureLimit
  <2> QED BY <1>1, <2>1, AccountOnly
<1>14. CASE UNCHANGED memVars
  <2>1. UNCHANGED <<nSize, nLimit, parent, pBlocks, nBlock, size, apPool, held>>
    BY <1>14 DEF memVars
  <2> QED BY <1>1, <2>1, AccountOnly
<1> QED BY <1>3, <1>4, <1>5, <1>6, <1>7, <1>8, <1>9, <1>10, <1>11, <1>12, <1>13, <1>14 DEF MemNext

(* MemInv is an invariant of the memory backends, whatever their number, the
   sizes asked for, the buckets and the limits. *)
THEOREM MemInvariance == MemSpec => []MemInv
<1>1. MemInv /\ [MemNext]_memVars => MemInv'
  BY MemInvStep
<1> QED BY <1>1, MemInvInit, PTL DEF MemSpec

\* BlocksTracked follows.
LEMMA TrackedIsTracked == Tracked => BlocksTracked
<1> SUFFICES ASSUME Tracked PROVE BlocksTracked
  OBVIOUS
<1>1. InUse \subseteq Backends /\ \A b \in Backends \ InUse : BlocksOf(b) = {}
  BY DEF InUse, Tracked, UnusedEmpty
<1>2. \A b \in Backends : BlocksOf(b) \subseteq Blocks /\ Null \notin BlocksOf(b)
                          /\ Holds(pBlocks[b], BlocksOf(b), nBlock[b])
  BY MemBackendAssumption DEF Tracked, ListsHold
<1>3. {x \in Blocks : size[x] # 0} = UNION {BlocksOf(b) : b \in InUse}
  <2>1. \A x : x \in UNION {BlocksOf(b) : b \in InUse} <=> \E b \in InUse : x \in BlocksOf(b)
    OBVIOUS
  <2>2. \A x \in Blocks : size[x] # 0 <=> \E b \in InUse : x \in BlocksOf(b)
    BY <1>1 DEF Tracked, BlocksSized
  <2> QED BY <1>1, <1>2, <2>1, <2>2
<1>4. ASSUME NEW b \in InUse
      PROVE  Cardinality(BlocksOf(b)) = nBlock[b] /\ Linked(pBlocks[b], BlocksOf(b))
  BY <1>1, <1>2, HoldsLinked
<1>5. \A b, c \in InUse : b # c => BlocksOf(b) \cap BlocksOf(c) = {}
  BY <1>1 DEF Tracked, BlocksApart
<1> QED BY <1>3, <1>4, <1>5 DEF BlocksTracked

(* The blocks that are allocated are those in the lists of the backends in use,
   each in one of them: what SyMemBackendRelease walks frees all of them once. *)
THEOREM MemBlocksTracked == MemSpec => []BlocksTracked
<1>1. MemInv => BlocksTracked
  BY TrackedIsTracked DEF MemInv
<1> QED BY <1>1, MemInvariance, PTL

(* No block is taken or grown beyond the limit: MemBackendCalculate's account
   never says less than the blocks take. *)
THEOREM MemLimitHonoured == MemSpec => LimitHonoured
<1>1. MemInv /\ [MemNext]_memVars => [InBlocks' > InBlocks /\ nLimit # 0 => InBlocks' <= nLimit]_memVars
  BY MemInvStep DEF Limited
<1> QED BY <1>1, MemInvariance, PTL DEF MemSpec, LimitHonoured

-----------------------------------------------------------------------------
\* The units that a piece gives its owner.
LEMMA UnitsWithin ==
    ASSUME MemTyped, NEW b \in Backends, NEW p \in Piece, InPlace(b, p), NEW unit \in Units(p)
    PROVE  unit[1] = p.block /\ unit[2] < size[unit[1]] - BlockUnits
<1>1. BlockUnits \in Nat /\ size[p.block] \in Nat /\ p.at \in Nat
  BY MemBackendAssumption DEF MemTyped, Piece
<1>2. CASE p.bucket \in Buckets
  <2>1. BucketSize(p.bucket) \in Nat /\ MaxAlloc \in Nat
    BY <1>2, BucketSizes
  <2>2. size[p.block] = MaxAlloc + BlockUnits /\ p.at + BucketSize(p.bucket) <= MaxAlloc
    BY <1>2 DEF InPlace
  <2>3. PICK u \in p.at .. p.at + BucketSize(p.bucket) - 1 : unit = <<p.block, u>>
    BY <1>2 DEF Units
  <2> QED BY <1>1, <2>1, <2>2, <2>3
<1>3. CASE p.bucket \notin Buckets
  <2>1. p.at = 0
    BY <1>3 DEF InPlace
  <2>2. PICK u \in p.at .. p.at + (size[p.block] - BlockUnits) - 1 : unit = <<p.block, u>>
    BY <1>3 DEF Units
  <2> QED BY <1>1, <2>1, <2>2
<1> QED BY <1>2, <1>3

\* Two chunks of a block.
LEMMA ChunksApart ==
    ASSUME NEW b \in Backends, NEW p \in Piece, NEW q \in Piece, InPlace(b, p), InPlace(b, q),
           p # q, p.block = q.block, p.bucket = q.bucket, p.bucket \in Buckets
    PROVE  Units(p) \cap Units(q) = {}
<1> DEFINE d == BucketSize(p.bucket)
<1>1. d \in Nat \ {0}
  BY BucketSizes
<1>2. /\ \E i \in 0 .. MaxAlloc : p.at = i * d
      /\ \E i \in 0 .. MaxAlloc : q.at = i * d
  BY DEF InPlace
<1>3. p.at # q.at
  BY DEF Piece
<1>4. /\ Units(p) = {<<p.block, u>> : u \in p.at .. p.at + d - 1}
      /\ Units(q) = {<<q.block, u>> : u \in q.at .. q.at + d - 1}
  BY DEF Units
<1> HIDE DEF d
<1>5. PICK i \in 0 .. MaxAlloc : p.at = i * d
  BY <1>2
<1>6. PICK j \in 0 .. MaxAlloc : q.at = j * d
  BY <1>2
<1>7. i \in Nat /\ j \in Nat /\ p.at \in Nat /\ q.at \in Nat /\ i # j
  BY <1>3, <1>5, <1>6, BucketSizes DEF Piece
<1>8. p.at + d <= q.at \/ q.at + d <= p.at
  <2>1. CASE i < j
    <3>1. i * d + d <= j * d
      BY <1>1, <1>7, <2>1
    <3> QED BY <1>5, <1>6, <3>1
  <2>2. CASE j < i
    <3>1. j * d + d <= i * d
      BY <1>1, <1>7, <2>2
    <3> QED BY <1>5, <1>6, <3>1
  <2> QED BY <1>7, <2>1, <2>2
<1>9. ASSUME NEW u \in p.at .. p.at + d - 1, u \in q.at .. q.at + d - 1 PROVE FALSE
  BY <1>1, <1>7, <1>8, <1>9
<1>10. ASSUME NEW unit, unit \in Units(p), unit \in Units(q) PROVE FALSE
  <2>1. PICK u \in p.at .. p.at + d - 1 : unit = <<p.block, u>>
    BY <1>4, <1>10
  <2>2. PICK v \in q.at .. q.at + d - 1 : unit = <<q.block, v>>
    BY <1>4, <1>10
  <2>3. u = v
    BY <2>1, <2>2
  <2> QED BY <1>9, <2>2, <2>3
<1> QED BY <1>10

\* OneOwner follows.
LEMMA OwnedIsOwned == MemInv => OneOwner
<1> SUFFICES ASSUME MemInv PROVE OneOwner
  OBVIOUS
<1>1. InUse \subseteq Backends /\ MemTyped /\ Tracked /\ \A b \in Backends : OwnedBy(b)
  BY DEF InUse, MemInv, Owned
<1>2. \A given \in Given : /\ given[1] \in InUse /\ given[2] \in GivenIn(given[1])
                           /\ given = <<given[1], given[2]>>
  BY DEF Given, GivenIn
<1>3. \A b \in Backends : \A p \in GivenIn(b) : p \in Piece /\ InPlace(b, p) /\ p.block \in BlocksOf(b)
  BY <1>1, FreeTyped DEF OwnedBy, PiecesInPlace, InPlace
<1>4. ASSUME NEW b \in InUse
      PROVE  held[b] \cap FreeIn(b) = {} /\ \A k \in Buckets : IsInjective(apPool[b][k])
  BY <1>1 DEF OwnedBy, HeldApart, PoolsSorted
<1>5. ASSUME NEW given \in Given, NEW other \in Given, Overlap(given, other) PROVE FALSE
  <2> DEFINE b == given[1]
             p == given[2]
             c == other[1]
             q == other[2]
  <2>1. /\ b \in Backends /\ c \in Backends /\ p \in GivenIn(b) /\ q \in GivenIn(c)
        /\ given = <<b, p>> /\ other = <<c, q>>
    BY <1>1, <1>2
  <2>2. given # other /\ Units(p) \cap Units(q) # {}
    BY <1>5 DEF Overlap
  <2> HIDE DEF b, p, c, q
  <2>3. p \in Piece /\ q \in Piece /\ InPlace(b, p) /\ InPlace(c, q)
        /\ p.block \in BlocksOf(b) /\ q.block \in BlocksOf(c)
    BY <1>3, <2>1
  <2>4. PICK unit \in Units(p) : unit \in Units(q)
    BY <2>2
  <2>5. p.block = q.block
    BY <1>1, <2>1, <2>3, <2>4, UnitsWithin
  <2>6. b = c
    BY <1>1, <2>1, <2>3, <2>5 DEF Tracked, BlocksApart
  <2>7. p # q
    BY <2>1, <2>2, <2>6
  <2>8. p.bucket = q.bucket /\ p.bucket \in Buckets
    BY <1>1, <2>1, <2>5, <2>6, <2>7 DEF OwnedBy, PiecesApart
  <2> QED BY <2>1, <2>2, <2>3, <2>5, <2>6, <2>7, <2>8, ChunksApart
<1>6. ASSUME NEW given \in Given
      PROVE  /\ given[2].block \in BlocksOf(given[1])
             /\ \A unit \in Units(given[2]) : unit[2] < size[unit[1]] - BlockUnits
  <2> DEFINE b == given[1]
             p == given[2]
  <2>1. b \in Backends /\ p \in GivenIn(b)
    BY <1>1, <1>2
  <2> HIDE DEF b, p
  <2>2. p \in Piece /\ InPlace(b, p) /\ p.block \in BlocksOf(b)
    BY <1>3, <2>1
  <2>3. \A unit \in Units(p) : unit[2] < size[unit[1]] - BlockUnits
    BY <1>1, <2>1, <2>2, UnitsWithin
  <2> QED BY <2>2, <2>3 DEF b, p
<1> QED BY <1>4, <1>5, <1>6 DEF OneOwner

(* A unit of memory belongs to one owner or one free list, whatever sequence of
   calls of the pool and of the raw allocator led there, and lies within a
   block that its backend will free. *)
THEOREM MemOneOwner == MemSpec => []OneOwner
BY OwnedIsOwned, MemInvariance, PTL

\* The backends keep their types; the account is never negative.
THEOREM MemTypeCorrect == MemSpec => []MemTypeOK
<1>1. MemInv => MemTypeOK
  BY DEF MemInv, MemTyped, Accounted, MemTypeOK, ListsTyped
<1> QED BY <1>1, MemInvariance, PTL

=============================================================================
