--------------------------- MODULE HashmapProofs ---------------------------
(***************************************************************************)
(* Proofs about Hashmap: whatever a script does to an array, its entries   *)
(* stay one doubly linked list of nEntry nodes, every node hangs in the    *)
(* bucket of its key, and no key names two entries.                        *)
(*                                                                         *)
(* A list is a sequence with the links of its items (Strung): one for the  *)
(* entries, one for each bucket.  Every helper of the model has a lemma    *)
(* that says what it does to the sequences.  The walks, the lookups, the   *)
(* merges and the folds are recursive: a recursion over ranked values has  *)
(* a solution (Recursion), and what holds of a value if it holds of those  *)
(* of lower rank holds of all (RankInduction).  A fold is one over sets of *)
(* indices (FoldDefined, FoldSolution).  Clones, Ranked and SortOf say     *)
(* which entries the copies, the renumberings and the sorts leave, and in  *)
(* which order: what HashmapRefinement needs.                              *)
(***************************************************************************)
EXTENDS Hashmap, SequenceTheorems, FiniteSetTheorems, WellFoundedInduction, TLAPS

-----------------------------------------------------------------------------
(* Recursion and folds.                                                     *)

\* A set of naturals has a least element.
LEMMA LeastNat ==
    ASSUME NEW T, T \subseteq Nat, T # {}
    PROVE  \E m \in T : \A l \in T : ~(l < m)
<1>1. IsWellFoundedOn(OpToRel(<, Nat), Nat)
  BY NatLessThanWellFounded
<1>2. PICK m \in T : \A l \in T : ~(<<l, m>> \in OpToRel(<, Nat))
  BY <1>1, WFMin
<1>3. \A l \in T : l \in Nat /\ m \in Nat
  OBVIOUS
<1> QED BY <1>2, <1>3 DEF OpToRel

\* What holds of 0, and of i if of i - 1, holds up to n.
LEMMA UpTo ==
    ASSUME NEW n \in Nat, NEW T, 0 \in T, \A i \in 1 .. n : i - 1 \in T => i \in T
    PROVE  \A i \in 0 .. n : i \in T
<1> DEFINE B == {i \in 0 .. n : i \notin T}
<1>1. ASSUME B # {} PROVE FALSE
  <2>1. PICK m \in B : \A l \in B : ~(l < m)
    <3>1. B \subseteq Nat /\ B # {}
      BY <1>1
    <3> HIDE DEF B
    <3> QED BY <3>1, LeastNat
  <2>2. m \in 1 .. n /\ m - 1 \in 0 .. n /\ m - 1 < m
    BY <2>1
  <2>3. m - 1 \in T
    BY <2>1, <2>2
  <2> QED BY <2>1, <2>2, <2>3
<1> QED BY <1>1

\* A recursion over S, with values in U, in which each value depends on values
\* of lower rank; those of x belong to V[x].
Recursive(S, N, rank, U, V, step) ==
    /\ N \in Nat /\ rank \in [S -> 0 .. N] /\ U # {} /\ V \in [S -> SUBSET U]
    /\ \A x \in S, g \in [S -> U] :
           (\A y \in S : rank[y] < rank[x] => g[y] \in V[y]) => step[x][g] \in V[x]
    /\ \A x \in S, g, k \in [S -> U] :
           (\A y \in S : rank[y] < rank[x] => g[y] = k[y]) => step[x][g] = step[x][k]

\* It has a solution.
LEMMA Recursion ==
    ASSUME NEW S, NEW N, NEW rank, NEW U, NEW V, NEW step, Recursive(S, N, rank, U, V, step)
    PROVE  \E g \in [S -> U] : \A x \in S : g[x] = step[x][g] /\ g[x] \in V[x]
<1> USE DEF Recursive
<1> DEFINE Solves(g, n) == \A x \in S : rank[x] < n => g[x] = step[x][g] /\ g[x] \in V[x]
           T == {n \in 0 .. N + 1 : \E g \in [S -> U] : Solves(g, n)}
<1>0. \A x \in S : rank[x] \in Nat /\ rank[x] <= N
  OBVIOUS
<1>1. 0 \in T
  <2>1. PICK u \in U : TRUE
    OBVIOUS
  <2>2. [x \in S |-> u] \in [S -> U] /\ Solves([x \in S |-> u], 0)
    BY <1>0
  <2>3. 0 \in 0 .. N + 1
    OBVIOUS
  <2> QED BY <2>2, <2>3
<1>2. ASSUME NEW i \in 1 .. N + 1, i - 1 \in T PROVE i \in T
  <2>1. PICK g \in [S -> U] : Solves(g, i - 1)
    BY <1>2
  <2> DEFINE k == [x \in S |-> IF rank[x] = i - 1 THEN step[x][g] ELSE g[x]]
  <2>2. \A x \in S : rank[x] < i => \A y \in S : rank[y] < rank[x] => rank[y] < i - 1
    BY <1>0
  <2>3. \A x \in S : rank[x] < i => step[x][g] \in V[x]
    BY <2>1, <2>2
  <2>4. k \in [S -> U]
    <3>1. \A x \in S : rank[x] = i - 1 => step[x][g] \in U
      BY <1>0, <2>3
    <3> QED BY <3>1
  <2>5. \A x \in S : rank[x] < i => \A y \in S : rank[y] < rank[x] => g[y] = k[y]
    BY <1>0, <2>2
  <2>6. \A x \in S : k[x] = IF rank[x] = i - 1 THEN step[x][g] ELSE g[x]
    OBVIOUS
  <2> HIDE DEF k
  <2>7. \A x \in S : rank[x] < i => step[x][g] = step[x][k]
    BY <2>4, <2>5
  <2>8. \A x \in S : rank[x] < i => rank[x] = i - 1 \/ rank[x] < i - 1
    BY <1>0
  <2>9. Solves(k, i)
    <3> SUFFICES ASSUME NEW x \in S, rank[x] < i PROVE k[x] = step[x][k] /\ k[x] \in V[x]
      OBVIOUS
    <3>1. k[x] = step[x][g]
      BY <2>1, <2>6, <2>8
    <3> QED BY <2>3, <2>7, <3>1
  <2> QED BY <2>4, <2>9
<1>3. N + 1 \in Nat /\ N + 1 \in 0 .. N + 1
  OBVIOUS
<1>4. N + 1 \in T
  <2> HIDE DEF T
  <2> QED BY <1>1, <1>2, <1>3, UpTo
<1>5. PICK g \in [S -> U] : Solves(g, N + 1)
  BY <1>4
<1>6. \A x \in S : rank[x] < N + 1
  BY <1>0
<1>7. \A x \in S : g[x] = step[x][g] /\ g[x] \in V[x]
  BY <1>5, <1>6
<1> QED BY ONLY <1>5, <1>7

\* The greatest index of a set, and of a beginning of a sequence.
LEMMA Greatest ==
    ASSUME NEW n \in Nat, NEW s \in SUBSET (1 .. n), s # {}
    PROVE  Max(s) \in s
<1> DEFINE T == {n - i : i \in s}
<1>1. T \subseteq Nat /\ T # {}
  <2>1. \A i \in s : i \in 1 .. n /\ n - i \in Nat
    OBVIOUS
  <2>2. PICK i \in s : TRUE
    OBVIOUS
  <2>3. n - i \in T
    OBVIOUS
  <2> QED BY <2>1, <2>3
<1> HIDE DEF T
<1>2. PICK t \in T : \A l \in T : ~(l < t)
  BY <1>1, LeastNat
<1>3. PICK i \in s : t = n - i
  BY DEF T
<1>4. \A j \in s : n - j \in T /\ ~(n - j < n - i)
  BY <1>2, <1>3 DEF T
<1>5. \A j \in s : i >= j
  BY <1>4
<1> QED BY <1>5 DEF Max

\* A set of indices is finite; without its greatest member it has one less.
LEMMA Subsets ==
    ASSUME NEW n \in Nat, NEW s \in SUBSET (1 .. n)
    PROVE  /\ Cardinality(s) \in 0 .. n /\ IsFiniteSet(s) /\ (s = {} <=> Cardinality(s) = 0)
           /\ s # {} => /\ Max(s) \in s /\ s \ {Max(s)} \in SUBSET (1 .. n)
                        /\ Cardinality(s \ {Max(s)}) = Cardinality(s) - 1
<1>1. IsFiniteSet(1 .. n) /\ Cardinality(1 .. n) = n
  BY FS_Interval
<1>2. IsFiniteSet(s) /\ Cardinality(s) <= n
  <2> DEFINE I == 1 .. n
  <2>1. s \in SUBSET I /\ IsFiniteSet(I) /\ Cardinality(I) = n
    BY <1>1
  <2> HIDE DEF I
  <2>2. IsFiniteSet(s) /\ Cardinality(s) <= Cardinality(I)
    BY ONLY <2>1, FS_Subset
  <2> QED BY <2>1, <2>2
<1>3. Cardinality(s) \in Nat /\ (s = {} <=> Cardinality(s) = 0)
  BY <1>2, FS_CardinalityType, FS_EmptySet
<1>4. s # {} => Max(s) \in s
  BY Greatest
<1>5. ASSUME s # {} PROVE Cardinality(s \ {Max(s)}) = Cardinality(s) - 1
  <2>1. Max(s) \in s
    BY <1>4, <1>5
  <2> QED BY <1>2, <2>1, FS_RemoveElement
<1>6. Cardinality(s) \in 0 .. n
  BY <1>2, <1>3
<1>7. s \ {Max(s)} \in SUBSET (1 .. n)
  OBVIOUS
<1> QED BY ONLY <1>2, <1>3, <1>4, <1>5, <1>6, <1>7

\* A fold over the indices 1 .. n that starts from base, and types V[s] for what
\* it makes of the indices in s.
FoldTyped(n, U, V, base, step) ==
    /\ n \in Nat /\ U # {} /\ V \in [SUBSET (1 .. n) -> SUBSET U] /\ base \in V[{}]
    /\ \A s \in SUBSET (1 .. n) : s # {} =>
          \A x \in V[s \ {Max(s)}] : step[Max(s)][x] \in V[s]

\* The function by which FoldLeft is defined.
FoldsTo(f, n, U, base, step) ==
    /\ f \in [SUBSET (1 .. n) -> U]
    /\ \A s \in SUBSET (1 .. n) : f[s] = IF s = {} THEN base ELSE step[Max(s)][f[s \ {Max(s)}]]

\* It exists.
LEMMA FoldDefined ==
    ASSUME NEW n, NEW U, NEW V, NEW base, NEW step, FoldTyped(n, U, V, base, step)
    PROVE  \E f : FoldsTo(f, n, U, base, step)
<1> DEFINE S == SUBSET (1 .. n)
           rank == [s \in S |-> Cardinality(s)]
           all == [s \in S |-> [g \in [S -> U] |->
                      IF s = {} THEN base ELSE step[Max(s)][g[s \ {Max(s)}]]]]
<1>1. n \in Nat
  BY DEF FoldTyped
<1>0. \A s \in S : Cardinality(s) \in 0 .. n
  BY <1>1, Subsets
<1>2. \A s \in S : s # {} => /\ Max(s) \in s /\ s \ {Max(s)} \in S
                            /\ Cardinality(s \ {Max(s)}) = Cardinality(s) - 1
  BY <1>1, Subsets
<1>3. \A s \in S : s # {} => s \ {Max(s)} \in S /\ rank[s \ {Max(s)}] < rank[s]
  <2> SUFFICES ASSUME NEW s \in S, s # {} PROVE s \ {Max(s)} \in S /\ rank[s \ {Max(s)}] < rank[s]
    OBVIOUS
  <2> DEFINE t == s \ {Max(s)}
  <2>0. Cardinality(s) \in Int
    BY <1>0
  <2>1. t \in S /\ Cardinality(t) = Cardinality(s) - 1
    BY <1>2
  <2> HIDE DEF t, S
  <2>2. rank[t] = Cardinality(t) /\ rank[s] = Cardinality(s)
    BY <2>1
  <2>3. t \in S /\ rank[t] < rank[s]
    BY <2>0, <2>1, <2>2
  <2> QED BY <2>3 DEF t
<1>4. n \in Nat /\ rank \in [S -> 0 .. n] /\ U # {} /\ V \in [S -> SUBSET U]
  <2>1. rank \in [S -> 0 .. n]
    <3> HIDE DEF S
    <3> QED BY <1>0
  <2> QED BY <2>1 DEF FoldTyped
<1>5. \A s \in S, g \in [S -> U] :
          (\A y \in S : rank[y] < rank[s] => g[y] \in V[y]) => all[s][g] \in V[s]
  <2> SUFFICES ASSUME NEW s \in S, NEW g \in [S -> U], \A y \in S : rank[y] < rank[s] => g[y] \in V[y]
               PROVE  (IF s = {} THEN base ELSE step[Max(s)][g[s \ {Max(s)}]]) \in V[s]
    OBVIOUS
  <2>1. CASE s = {}
    BY <2>1 DEF FoldTyped
  <2>2. CASE s # {}
    <3>1. g[s \ {Max(s)}] \in V[s \ {Max(s)}]
      BY <1>3, <2>2
    <3> QED BY <2>2, <3>1 DEF FoldTyped
  <2> QED BY <2>1, <2>2
<1>6. \A s \in S, g, k \in [S -> U] :
          (\A y \in S : rank[y] < rank[s] => g[y] = k[y]) => all[s][g] = all[s][k]
  <2> SUFFICES ASSUME NEW s \in S, NEW g \in [S -> U], NEW k \in [S -> U],
                      \A y \in S : rank[y] < rank[s] => g[y] = k[y]
               PROVE  all[s][g] = all[s][k]
    OBVIOUS
  <2>1. s # {} => g[s \ {Max(s)}] = k[s \ {Max(s)}]
    BY <1>3
  <2> QED BY <2>1
<1>7. Recursive(S, n, rank, U, V, all)
  <2> HIDE DEF S, rank, all
  <2> QED BY <1>4, <1>5, <1>6 DEF Recursive
<1>8. PICK g \in [S -> U] : \A s \in S : g[s] = all[s][g]
  <2> HIDE DEF S, rank, all
  <2> QED BY <1>7, Recursion
<1>9. \A s \in S : g[s] = IF s = {} THEN base ELSE step[Max(s)][g[s \ {Max(s)}]]
  BY <1>8
<1> QED BY ONLY <1>9, g \in [S -> U] DEF FoldsTo

\* What holds of x if it holds of all of lower rank holds of all.
LEMMA RankInduction ==
    ASSUME NEW S, NEW N \in Nat, NEW rank \in [S -> 0 .. N], NEW T,
           \A x \in S : (\A y \in S : rank[y] < rank[x] => y \in T) => x \in T
    PROVE  S \subseteq T
<1> DEFINE B == {rank[x] : x \in S \ T}
<1>1. ASSUME S \ T # {} PROVE FALSE
  <2>1. B \subseteq Nat /\ B # {}
    <3>1. \A x \in S : rank[x] \in Nat
      OBVIOUS
    <3> QED BY <1>1, <3>1
  <2>2. PICK b \in B : \A c \in B : ~(c < b)
    <3> HIDE DEF B
    <3> QED BY <2>1, LeastNat
  <2>3. PICK x \in S \ T : b = rank[x]
    BY <2>2
  <2>4. \A y \in S : rank[y] < rank[x] => y \in T
    BY <2>2, <2>3
  <2> QED BY <2>3, <2>4
<1> QED BY <1>1

\* What it makes of all the indices has their type.
FoldKeeps(F, n, V) ==
    /\ n \in Nat /\ F[{}] \in V[{}]
    /\ \A s \in SUBSET (1 .. n) : s # {} /\ F[s \ {Max(s)}] \in V[s \ {Max(s)}] => F[s] \in V[s]

\* So does the fold itself, by induction over the indices taken.
LEMMA FoldSolution ==
    ASSUME NEW n, NEW F, NEW V, FoldKeeps(F, n, V)
    PROVE  F[1 .. n] \in V[1 .. n]
<1> USE DEF FoldKeeps
<1> DEFINE S == SUBSET (1 .. n)
           rank == [s \in S |-> Cardinality(s)]
           T == {s \in S : F[s] \in V[s]}
<1>0. \A s \in S : Cardinality(s) \in 0 .. n
  BY Subsets
<1>1. \A s \in S : s # {} => /\ Max(s) \in s /\ s \ {Max(s)} \in S
                            /\ Cardinality(s \ {Max(s)}) = Cardinality(s) - 1
  BY Subsets
<1>2. rank \in [S -> 0 .. n]
  <2> HIDE DEF S
  <2> QED BY <1>0
<1>3. ASSUME NEW s \in S, \A y \in S : rank[y] < rank[s] => y \in T
      PROVE  s \in T
  <2>1. CASE s = {}
    BY <2>1
  <2>2. CASE s # {}
    <3> DEFINE t == s \ {Max(s)}
    <3>0. Cardinality(s) \in Int
      BY <1>0
    <3>1. t \in S /\ Cardinality(t) = Cardinality(s) - 1
      BY <1>1, <2>2
    <3>2. rank[t] < rank[s]
      <4> HIDE DEF t, S
      <4>1. rank[t] = Cardinality(t) /\ rank[s] = Cardinality(s)
        BY <3>1
      <4> QED BY <3>0, <3>1, <4>1
    <3>3. F[t] \in V[t]
      BY <1>3, <3>1, <3>2
    <3> QED BY <2>2, <3>3
  <2> QED BY <2>1, <2>2
<1>4. S \subseteq T
  <2> HIDE DEF S, T, rank
  <2> QED BY <1>2, <1>3, RankInduction
<1> QED BY <1>4

-----------------------------------------------------------------------------
(* Orders: sequences in which each member of a set stands once.             *)

Items(s) == {s[i] : i \in 1 .. Len(s)}
Distinct(s) == \A i, j \in 1 .. Len(s) : s[i] = s[j] => i = j
IsOrder(s, S) == s \in Seq(S) /\ Distinct(s) /\ Items(s) = S

\* The i-th item, or the null pointer.
At(s, i) == IF i \in 1 .. Len(s) THEN s[i] ELSE Nil

\* A set has as many members as an order of it.
LEMMA OrderLength ==
    ASSUME NEW S, NEW s, IsOrder(s, S)
    PROVE  IsFiniteSet(S) /\ Cardinality(S) = Len(s) /\ Len(s) \in Nat
<1>1. Len(s) \in Nat /\ s \in [1 .. Len(s) -> S]
  BY DEF IsOrder
<1>2. s \in Bijection(1 .. Len(s), S)
  <2>1. \A x \in S : \E i \in 1 .. Len(s) : s[i] = x
    BY DEF IsOrder, Items
  <2> QED BY <1>1, <2>1 DEF IsOrder, Distinct, Bijection, Injection, Surjection, IsInjective
<1>3. ExistsBijection(1 .. Len(s), S)
  BY <1>2 DEF ExistsBijection
<1>4. Cardinality(S) = Len(s)
  BY <1>1, <1>3, FS_CountingElements
<1>5. IsFiniteSet(S)
  BY <1>1, <1>3, FS_NatBijection
<1> QED BY <1>1, <1>4, <1>5

\* An item put in front.
LEMMA FrontOrder ==
    ASSUME NEW S, NEW s, IsOrder(s, S), NEW x, x \notin S
    PROVE  IsOrder(<<x>> \o s, S \cup {x})
<1> DEFINE T == S \cup {x}
           t == <<x>> \o s
           n == Len(s)
<1>1. n \in Nat /\ s \in Seq(T) /\ <<x>> \in Seq(T) /\ Len(<<x>>) = 1 /\ <<x>>[1] = x
  BY DEF IsOrder
<1>2. /\ t \in Seq(T) /\ Len(t) = n + 1
      /\ \A i \in 1 .. 1 + n : t[i] = IF i <= 1 THEN <<x>>[i] ELSE s[i - 1]
  BY <1>1, ConcatProperties
<1>3. t[1] = x /\ \A i \in 1 .. n : t[i + 1] = s[i]
  BY <1>1, <1>2
<1>4. \A i \in 1 .. n + 1 : i = 1 \/ (i - 1 \in 1 .. n /\ t[i] = s[i - 1])
  BY <1>1, <1>3
<1>5. \A i \in 1 .. n : s[i] \in S
  BY DEF IsOrder
<1> HIDE DEF t
<1>6. Distinct(t)
  <2> SUFFICES ASSUME NEW i \in 1 .. n + 1, NEW j \in 1 .. n + 1, t[i] = t[j] PROVE i = j
    BY <1>2 DEF Distinct
  <2>1. CASE i = 1 \/ j = 1
    BY <1>3, <1>4, <1>5, <2>1
  <2>2. CASE i # 1 /\ j # 1
    <3>1. i - 1 \in 1 .. n /\ j - 1 \in 1 .. n /\ s[i - 1] = s[j - 1]
      BY <1>4, <2>2
    <3>2. i - 1 = j - 1
      BY <3>1 DEF IsOrder, Distinct
    <3> QED BY <1>1, <3>2
  <2> QED BY <2>1, <2>2
<1>7. Items(t) = T
  <2>1. ASSUME NEW y \in S PROVE y \in Items(t)
    <3>1. PICK i \in 1 .. n : s[i] = y
      BY DEF IsOrder, Items
    <3>2. i + 1 \in 1 .. Len(t) /\ t[i + 1] = y
      BY <1>1, <1>2, <1>3, <3>1
    <3> QED BY <3>2 DEF Items
  <2>2. x \in Items(t)
    BY <1>1, <1>2, <1>3 DEF Items
  <2>3. \A i \in 1 .. Len(t) : t[i] \in T
    BY <1>2, <1>3, <1>4, <1>5
  <2> QED BY <2>1, <2>2, <2>3 DEF Items
<1> QED BY <1>2, <1>6, <1>7 DEF IsOrder, t

\* A part of an order.
LEMMA PartOrder ==
    ASSUME NEW S, NEW s, IsOrder(s, S), NEW k \in 1 .. Len(s) + 1, NEW l \in 0 .. Len(s)
    PROVE  IsOrder(SubSeq(s, k, l), {s[i] : i \in k .. l})
<1> DEFINE t == SubSeq(s, k, l)
           T == {s[i] : i \in k .. l}
           n == IF k <= l THEN l - k + 1 ELSE 0
<1>1. Len(s) \in Nat /\ k \in Int /\ l \in Int /\ n \in Nat
  BY DEF IsOrder
<1>2. t \in Seq(T) /\ Len(t) = n /\ \A i \in 1 .. l - k + 1 : t[i] = s[k + i - 1]
  <2>1. \A i \in k .. l : s[i] \in T
    OBVIOUS
  <2> HIDE DEF T
  <2> QED BY <1>1, <2>1, SubSeqProperties
<1>3. \A i \in 1 .. n : t[i] = s[k + i - 1] /\ k + i - 1 \in k .. l /\ k + i - 1 \in 1 .. Len(s)
  BY <1>1, <1>2
<1> HIDE DEF t
<1>4. Distinct(t)
  <2> SUFFICES ASSUME NEW i \in 1 .. n, NEW j \in 1 .. n, t[i] = t[j] PROVE i = j
    BY <1>2 DEF Distinct
  <2>1. k + i - 1 = k + j - 1
    BY <1>3 DEF IsOrder, Distinct
  <2> QED BY <1>1, <2>1
<1>5. Items(t) = T
  <2>1. ASSUME NEW i \in k .. l PROVE s[i] \in Items(t)
    <3>1. i - k + 1 \in 1 .. n /\ k + (i - k + 1) - 1 = i
      BY <1>1
    <3>2. t[i - k + 1] = s[i]
      BY <1>3, <3>1
    <3> QED BY <1>2, <3>1, <3>2 DEF Items
  <2>2. \A i \in 1 .. n : t[i] \in T
    BY <1>3
  <2> QED BY <1>2, <2>1, <2>2 DEF Items
<1> QED BY <1>2, <1>4, <1>5 DEF IsOrder, t

-----------------------------------------------------------------------------
(* Merging and sorting.                                                     *)

Pairs(a, b) == (1 .. Len(a) + 1) \X (1 .. Len(b) + 1)
Left(a, b, p) == (Len(a) + 1 - p[1]) + (Len(b) + 1 - p[2])

\* What is merged when the loop has come to the nodes p[1] of a and p[2] of b.
Merging(m, up, a, b, f, p) ==
    IF p[1] > Len(a) THEN SubSeq(b, p[2], Len(b))
    ELSE IF p[2] > Len(b) THEN SubSeq(a, p[1], Len(a))
    ELSE IF LessVal(m, up, a[p[1]], b[p[2]])
         THEN <<a[p[1]]>> \o f[<<p[1] + 1, p[2]>>]
         ELSE <<b[p[2]]>> \o f[<<p[1], p[2] + 1>>]

\* The pairs the loop comes to next.
NextPairs(S, a, b, p) ==
    /\ p[1] \in 1 .. Len(a) + 1 /\ p[2] \in 1 .. Len(b) + 1 /\ Len(a) \in Nat /\ Len(b) \in Nat
    /\ Left(a, b, p) \in 0 .. Len(a) + Len(b)
    /\ p[1] <= Len(a) => /\ <<p[1] + 1, p[2]>> \in Pairs(a, b)
                         /\ Left(a, b, <<p[1] + 1, p[2]>>) = Left(a, b, p) - 1
                         /\ a[p[1]] \in S
    /\ p[2] <= Len(b) => /\ <<p[1], p[2] + 1>> \in Pairs(a, b)
                         /\ Left(a, b, <<p[1], p[2] + 1>>) = Left(a, b, p) - 1
                         /\ b[p[2]] \in S

\* Where a merge stands: the next step leaves less, or one list is used up.
LEMMA NextPair ==
    ASSUME NEW S, NEW a \in Seq(S), NEW b \in Seq(S), NEW p \in Pairs(a, b)
    PROVE  NextPairs(S, a, b, p)
<1>1. p[1] \in 1 .. Len(a) + 1 /\ p[2] \in 1 .. Len(b) + 1 /\ Len(a) \in Nat /\ Len(b) \in Nat
  BY DEF Pairs
<1>2. Left(a, b, p) \in 0 .. Len(a) + Len(b)
  BY <1>1, SMTT(60) DEF Left
<1>3. ASSUME p[1] <= Len(a)
      PROVE  /\ <<p[1] + 1, p[2]>> \in Pairs(a, b) /\ a[p[1]] \in S
             /\ Left(a, b, <<p[1] + 1, p[2]>>) = Left(a, b, p) - 1
  <2>1. p[1] + 1 \in 1 .. Len(a) + 1 /\ p[1] \in 1 .. Len(a)
    BY <1>1, <1>3
  <2>2. a[p[1]] \in S
    BY <2>1
  <2>3. <<p[1] + 1, p[2]>> \in Pairs(a, b)
    BY <1>1, <2>1 DEF Pairs
  <2>4. Left(a, b, <<p[1] + 1, p[2]>>) = Left(a, b, p) - 1
    BY <1>1 DEF Left
  <2> QED BY <2>2, <2>3, <2>4
<1>4. ASSUME p[2] <= Len(b)
      PROVE  /\ <<p[1], p[2] + 1>> \in Pairs(a, b) /\ b[p[2]] \in S
             /\ Left(a, b, <<p[1], p[2] + 1>>) = Left(a, b, p) - 1
  <2>1. p[2] + 1 \in 1 .. Len(b) + 1 /\ p[2] \in 1 .. Len(b)
    BY <1>1, <1>4
  <2>2. b[p[2]] \in S
    BY <2>1
  <2>3. <<p[1], p[2] + 1>> \in Pairs(a, b)
    BY <1>1, <2>1 DEF Pairs
  <2>4. Left(a, b, <<p[1], p[2] + 1>>) = Left(a, b, p) - 1
    <3> DEFINE q == <<p[1], p[2] + 1>>
    <3>1. q[1] = p[1] /\ q[2] = p[2] + 1 /\ p[1] \in Int /\ p[2] \in Int
      BY <1>1
    <3> HIDE DEF q
    <3> QED BY <1>1, <3>1 DEF Left
  <2> QED BY <2>2, <2>3, <2>4
<1> QED BY <1>1, <1>2, <1>3, <1>4 DEF NextPairs

\* A step of the merge gives a list if the rest is one.
LEMMA MergingTyped ==
    ASSUME NEW m, NEW up, NEW S, NEW a \in Seq(S), NEW b \in Seq(S), NEW f, NEW p \in Pairs(a, b),
           \A q \in Pairs(a, b) : Left(a, b, q) < Left(a, b, p) => f[q] \in Seq(S)
    PROVE  Merging(m, up, a, b, f, p) \in Seq(S)
<1> DEFINE i == p[1]
           j == p[2]
<1>0. NextPairs(S, a, b, p)
  BY NextPair
<1>1. i \in 1 .. Len(a) + 1 /\ j \in 1 .. Len(b) + 1 /\ Len(a) \in Nat /\ Len(b) \in Nat
      /\ Left(a, b, p) \in Nat
  BY <1>0 DEF NextPairs
<1>2. i <= Len(a) => f[<<i + 1, j>>] \in Seq(S) /\ <<a[i]>> \in Seq(S)
  BY <1>0, <1>1 DEF NextPairs
<1>3. j <= Len(b) => f[<<i, j + 1>>] \in Seq(S) /\ <<b[j]>> \in Seq(S)
  BY <1>0, <1>1 DEF NextPairs
<1>4. SubSeq(b, j, Len(b)) \in Seq(S) /\ SubSeq(a, i, Len(a)) \in Seq(S)
  <2>1. (\A k \in j .. Len(b) : b[k] \in S) /\ (\A k \in i .. Len(a) : a[k] \in S)
    BY <1>1
  <2> QED BY <1>1, <2>1, SubSeqProperties
<1>5. i <= Len(a) => <<a[i]>> \o f[<<i + 1, j>>] \in Seq(S)
  BY <1>2, ConcatProperties
<1>6. j <= Len(b) => <<b[j]>> \o f[<<i, j + 1>>] \in Seq(S)
  BY <1>3, ConcatProperties
<1> QED BY <1>1, <1>4, <1>5, <1>6 DEF Merging

\* HashmapNodeMerge does these steps.
LEMMA MergeDefined ==
    ASSUME NEW m, NEW up, NEW S, NEW a \in Seq(S), NEW b \in Seq(S)
    PROVE  \E f : /\ \A p \in Pairs(a, b) : f[p] = Merging(m, up, a, b, f, p)
                  /\ HashmapNodeMerge(m, up, a, b) = f[<<1, 1>>]
<1> DEFINE P == Pairs(a, b)
           U == Seq(S)
           N == Len(a) + Len(b)
           rank == [p \in P |-> Left(a, b, p)]
           V == [p \in P |-> U]
           step == [p \in P |-> [g \in [P -> U] |-> Merging(m, up, a, b, g, p)]]
           F == CHOOSE f : f = [p \in P |-> Merging(m, up, a, b, f, p)]
<1>1. Recursive(P, N, rank, U, V, step)
  <2>1. N \in Nat /\ rank \in [P -> 0 .. N] /\ U # {} /\ V \in [P -> SUBSET U]
    <3>1. Len(a) \in Nat /\ Len(b) \in Nat /\ \A p \in P : Left(a, b, p) \in 0 .. N
      <4>1. \A p \in P : NextPairs(S, a, b, p)
        BY NextPair
      <4>2. \A p \in P : Left(a, b, p) \in 0 .. N
        BY <4>1 DEF NextPairs
      <4>3. Len(a) \in Nat /\ Len(b) \in Nat
        OBVIOUS
      <4> QED BY <4>2, <4>3
    <3>2. U # {}
      OBVIOUS
    <3> QED BY <3>1, <3>2
  <2>2. ASSUME NEW p \in P, NEW g \in [P -> U], \A q \in P : rank[q] < rank[p] => g[q] \in V[q]
        PROVE  step[p][g] \in V[p]
    <3>1. \A q \in P : Left(a, b, q) < Left(a, b, p) => g[q] \in Seq(S)
      BY <2>2
    <3>2. Merging(m, up, a, b, g, p) \in Seq(S)
      BY <3>1, MergingTyped
    <3> QED BY <3>2
  <2>3. ASSUME NEW p \in P, NEW g \in [P -> U], NEW k \in [P -> U],
               \A q \in P : rank[q] < rank[p] => g[q] = k[q]
        PROVE  step[p][g] = step[p][k]
    <3>0. NextPairs(S, a, b, p)
      BY NextPair
    <3>3. p[1] \in Int /\ p[2] \in Int /\ Len(a) \in Nat /\ Len(b) \in Nat /\ Left(a, b, p) \in Int
      BY <3>0 DEF NextPairs
    <3>1. p[1] <= Len(a) => g[<<p[1] + 1, p[2]>>] = k[<<p[1] + 1, p[2]>>]
      BY <2>3, <3>0, <3>3 DEF NextPairs
    <3>2. p[2] <= Len(b) => g[<<p[1], p[2] + 1>>] = k[<<p[1], p[2] + 1>>]
      BY <2>3, <3>0, <3>3 DEF NextPairs
    <3>4. Merging(m, up, a, b, g, p) = Merging(m, up, a, b, k, p)
      BY <3>1, <3>2, <3>3, SMTT(60) DEF Merging
    <3> QED BY <3>4
  <2> HIDE DEF P, U, N, rank, V, step
  <2> QED BY <2>1, <2>2, <2>3 DEF Recursive
<1>2. PICK g \in [P -> U] : \A p \in P : g[p] = step[p][g]
  <2> HIDE DEF P, U, N, rank, V, step
  <2> QED BY <1>1, Recursion
<1>3. g = [p \in P |-> Merging(m, up, a, b, g, p)]
  BY <1>2
<1>4. F = [p \in P |-> Merging(m, up, a, b, F, p)]
  <2> HIDE DEF P
  <2> QED BY <1>3
<1>5. HashmapNodeMerge(m, up, a, b) = F[<<1, 1>>]
  BY DEF HashmapNodeMerge, Merging, Pairs
<1> QED
  <2> HIDE DEF F, P
  <2>1. \A p \in P : F[p] = Merging(m, up, a, b, F, p)
    BY <1>4
  <2> QED BY <1>5, <2>1 DEF P

\* The nodes from p[1] of a on and from p[2] of b on.
Rest(a, b, p) == {a[i] : i \in p[1] .. Len(a)} \cup {b[i] : i \in p[2] .. Len(b)}

\* In the order of the sort: no item is before one that is less.
Rising(m, up, s) == \A i, j \in 1 .. Len(s) : i < j => ~LessVal(m, up, s[j], s[i])
Sorted(m, up, s, S) == IsOrder(s, S) /\ Rising(m, up, s)
Valued(m, S) == \A p \in S : m.node[p].val \in Int

\* What is below an item is below all that come no earlier.
LEMMA LessBelow ==
    ASSUME NEW m, NEW up, NEW p, NEW q, NEW r, m.node[p].val \in Int, m.node[q].val \in Int, m.node[r].val \in Int,
           LessVal(m, up, p, q) \/ ~LessVal(m, up, q, p), ~LessVal(m, up, r, q)
    PROVE  ~LessVal(m, up, r, p)
<1>1. CASE up
  BY <1>1 DEF LessVal
<1>2. CASE ~up
  BY <1>2 DEF LessVal
<1> QED BY <1>1, <1>2

\* An item no greater than any, put before a rising list.
LEMMA FrontRising ==
    ASSUME NEW m, NEW up, NEW S, NEW s, Sorted(m, up, s, S), NEW x, x \notin S,
           \A y \in S : ~LessVal(m, up, y, x)
    PROVE  Sorted(m, up, <<x>> \o s, S \cup {x})
<1> DEFINE t == <<x>> \o s
           n == Len(s)
<1>0. s \in Seq(S) /\ n \in Nat /\ IsOrder(s, S)
  BY DEF Sorted, IsOrder
<1>1. Len(t) = n + 1 /\ t[1] = x /\ \A i \in 1 .. n + 1 : i # 1 => i - 1 \in 1 .. n /\ t[i] = s[i - 1] /\ t[i] \in S
  <2>1. s \in Seq(S \cup {x}) /\ <<x>> \in Seq(S \cup {x}) /\ Len(<<x>>) = 1 /\ <<x>>[1] = x
    BY <1>0
  <2>2. /\ Len(t) = n + 1
        /\ \A i \in 1 .. 1 + n : t[i] = IF i <= 1 THEN <<x>>[i] ELSE s[i - 1]
    BY <1>0, <2>1, ConcatProperties
  <2>3. \A i \in 1 .. n + 1 : i # 1 => i - 1 \in 1 .. n /\ ~(i <= 1)
    BY <1>0
  <2> HIDE DEF t
  <2> QED BY <1>0, <2>1, <2>2, <2>3
<1>2. IsOrder(t, S \cup {x})
  BY <1>0, FrontOrder
<1> HIDE DEF t
<1>3. Rising(m, up, t)
  <2> SUFFICES ASSUME NEW i \in 1 .. n + 1, NEW j \in 1 .. n + 1, i < j PROVE ~LessVal(m, up, t[j], t[i])
    BY <1>1 DEF Rising
  <2>1. CASE i = 1
    BY <1>0, <1>1, <2>1
  <2>2. CASE i # 1
    <3>1. i - 1 \in 1 .. n /\ j - 1 \in 1 .. n /\ i - 1 < j - 1 /\ t[i] = s[i - 1] /\ t[j] = s[j - 1]
      BY <1>0, <1>1, <2>2
    <3> QED BY <3>1 DEF Sorted, Rising
  <2> QED BY <2>1, <2>2
<1> QED BY <1>2, <1>3 DEF Sorted, t

\* A part of a rising list rises.
LEMMA PartRising ==
    ASSUME NEW m, NEW up, NEW S, NEW s, Sorted(m, up, s, S), NEW k \in 1 .. Len(s) + 1, NEW l \in 0 .. Len(s)
    PROVE  Sorted(m, up, SubSeq(s, k, l), {s[i] : i \in k .. l})
<1> DEFINE t == SubSeq(s, k, l)
<1>0. s \in Seq(S) /\ Len(s) \in Nat /\ IsOrder(s, S)
  BY DEF Sorted, IsOrder
<1>1. IsOrder(t, {s[i] : i \in k .. l})
  BY <1>0, PartOrder
<1>2. /\ Len(t) = IF k <= l THEN l - k + 1 ELSE 0
      /\ \A i \in 1 .. l - k + 1 : t[i] = s[k + i - 1]
  <2>1. \A i \in k .. l : s[i] \in S
    BY <1>0
  <2> QED BY <1>0, <2>1, SubSeqProperties
<1> HIDE DEF t
<1>3. Rising(m, up, t)
  <2> SUFFICES ASSUME NEW i \in 1 .. Len(t), NEW j \in 1 .. Len(t), i < j PROVE ~LessVal(m, up, t[j], t[i])
    BY DEF Rising
  <2>1. /\ i \in 1 .. l - k + 1 /\ j \in 1 .. l - k + 1 /\ k + i - 1 \in 1 .. Len(s)
        /\ k + j - 1 \in 1 .. Len(s) /\ k + i - 1 < k + j - 1
    BY <1>0, <1>2
  <2> QED BY <1>2, <2>1 DEF Sorted, Rising
<1> QED BY <1>1, <1>3 DEF Sorted, t

\* So does the end of a list.
LEMMA RestRising ==
    ASSUME NEW m, NEW up, NEW S, NEW s, Sorted(m, up, s, S), NEW k \in 1 .. Len(s) + 1
    PROVE  Sorted(m, up, SubSeq(s, k, Len(s)), {s[i] : i \in k .. Len(s)})
<1>1. s \in Seq(S)
  BY DEF Sorted, IsOrder
<1>2. Len(s) \in 0 .. Len(s)
  BY <1>1
<1> QED BY <1>2, PartRising

\* A merge of two sorted lists is a sorted list of the nodes of both (HashmapNodeMerge).
LEMMA MergeOrder ==
    ASSUME NEW m, NEW up, NEW A, NEW B, NEW a, NEW b, Sorted(m, up, a, A), Sorted(m, up, b, B),
           A \cap B = {}, Valued(m, A), Valued(m, B)
    PROVE  Sorted(m, up, HashmapNodeMerge(m, up, a, b), A \cup B)
<1> DEFINE S == A \cup B
           P == Pairs(a, b)
           N == Len(a) + Len(b)
           rank == [p \in P |-> Left(a, b, p)]
<1>1. a \in Seq(S) /\ b \in Seq(S) /\ Len(a) \in Nat /\ Len(b) \in Nat
  BY DEF Sorted, IsOrder
<1>2. PICK f : /\ \A p \in P : f[p] = Merging(m, up, a, b, f, p)
               /\ HashmapNodeMerge(m, up, a, b) = f[<<1, 1>>]
  BY <1>1, MergeDefined
<1> DEFINE T == {p \in P : Sorted(m, up, f[p], Rest(a, b, p))}
<1>3. \A p \in P : NextPairs(S, a, b, p)
  BY <1>1, NextPair
<1>4. N \in Nat /\ rank \in [P -> 0 .. N]
  <2>1. \A p \in P : Left(a, b, p) \in 0 .. N
    BY <1>3 DEF NextPairs
  <2> QED BY <1>1, <2>1
<1>5. /\ \A k \in 1 .. Len(a) : m.node[a[k]].val \in Int
      /\ \A k \in 1 .. Len(b) : m.node[b[k]].val \in Int
  BY DEF Sorted, IsOrder, Valued
<1>6. ASSUME NEW p \in P, \A q \in P : rank[q] < rank[p] => q \in T
      PROVE  p \in T
  <2> DEFINE i == p[1]
             j == p[2]
  <2>0. NextPairs(S, a, b, p)
    BY <1>3
  <2>1. /\ i \in 1 .. Len(a) + 1 /\ j \in 1 .. Len(b) + 1 /\ Left(a, b, p) \in Int
        /\ f[p] = Merging(m, up, a, b, f, p)
    <3>1. i \in 1 .. Len(a) + 1 /\ j \in 1 .. Len(b) + 1 /\ Left(a, b, p) \in Int
      BY <2>0 DEF NextPairs
    <3> QED BY <1>2, <3>1
  <2>2. CASE i > Len(a)
    <3>1. f[p] = SubSeq(b, j, Len(b))
      BY <2>1, <2>2 DEF Merging
    <3>2. Sorted(m, up, SubSeq(b, j, Len(b)), {b[k] : k \in j .. Len(b)})
      <4>1. j \in 1 .. Len(b) + 1
        BY <2>1
      <4> HIDE DEF i, j, S, P, N, rank, T
      <4> QED BY <4>1, RestRising
    <3>3. Rest(a, b, p) = {b[k] : k \in j .. Len(b)}
      BY <1>1, <2>1, <2>2 DEF Rest
    <3> QED BY <3>1, <3>2, <3>3
  <2>3. CASE ~(i > Len(a)) /\ j > Len(b)
    <3>1. f[p] = SubSeq(a, i, Len(a))
      BY <2>1, <2>3 DEF Merging
    <3>2. Sorted(m, up, SubSeq(a, i, Len(a)), {a[k] : k \in i .. Len(a)})
      <4>1. i \in 1 .. Len(a) + 1
        BY <2>1
      <4> HIDE DEF i, j, S, P, N, rank, T
      <4> QED BY <4>1, RestRising
    <3>3. Rest(a, b, p) = {a[k] : k \in i .. Len(a)}
      BY <1>1, <2>1, <2>3 DEF Rest
    <3> QED BY <3>1, <3>2, <3>3
  <2>4. CASE ~(i > Len(a)) /\ ~(j > Len(b)) /\ LessVal(m, up, a[i], b[j])
    <3> DEFINE q == <<i + 1, j>>
               R == Rest(a, b, q)
    <3>1. f[p] = <<a[i]>> \o f[q]
      BY <2>1, <2>4 DEF Merging
    <3>2. Sorted(m, up, f[q], R)
      <4>1. q \in P /\ Left(a, b, q) = Left(a, b, p) - 1
        BY <2>0, <2>1, <2>4, <1>1 DEF NextPairs
      <4> HIDE DEF q
      <4>2. rank[q] < rank[p]
        BY <2>1, <4>1
      <4>3. q \in T
        BY <1>6, <4>1, <4>2
      <4> QED BY <4>3
    <3>3. i \in 1 .. Len(a) /\ j \in 1 .. Len(b) /\ i + 1 \in Nat
      BY <1>1, <2>1, <2>4
    <3>4. a[i] \notin R
      <4>1. \A k \in i + 1 .. Len(a) : k \in 1 .. Len(a) /\ k # i
        BY <3>3
      <4>2. \A k \in i + 1 .. Len(a) : a[k] # a[i]
        BY <3>3, <4>1 DEF Sorted, IsOrder, Distinct
      <4>3. \A k \in j .. Len(b) : b[k] \in B
        BY <1>1, <3>3 DEF Sorted, IsOrder
      <4>4. a[i] \in A
        BY <3>3 DEF Sorted, IsOrder
      <4> QED BY <4>2, <4>3, <4>4 DEF Rest
    <3>5. Rest(a, b, p) = R \cup {a[i]}
      <4>1. \A k \in i .. Len(a) : k = i \/ k \in i + 1 .. Len(a)
        BY <3>3
      <4>2. \A k \in i + 1 .. Len(a) : k \in i .. Len(a)
        BY <3>3
      <4>3. i \in i .. Len(a)
        BY <3>3
      <4> QED BY <4>1, <4>2, <4>3 DEF Rest
    <3>6. Sorted(m, up, <<a[i]>> \o f[q], R \cup {a[i]})
      <4>1. \A y \in R : ~LessVal(m, up, y, a[i])
        <5>1. \A k \in i + 1 .. Len(a) : ~LessVal(m, up, a[k], a[i])
          BY <1>1, <3>3 DEF Sorted, Rising
        <5>2. \A k \in j .. Len(b) : ~LessVal(m, up, b[k], a[i])
          <6> SUFFICES ASSUME NEW k \in j .. Len(b) PROVE ~LessVal(m, up, b[k], a[i])
            OBVIOUS
          <6>1. k \in 1 .. Len(b) /\ (k = j \/ j < k)
            BY <1>1, <3>3
          <6>0. m.node[b[k]].val \in Int /\ m.node[a[i]].val \in Int /\ m.node[b[j]].val \in Int
            BY <1>5, <3>3, <6>1
          <6>2. ~LessVal(m, up, b[k], b[j])
            <7>1. CASE k = j
              BY <6>0, <7>1 DEF LessVal
            <7>2. CASE j < k
              BY <3>3, <6>1, <7>2 DEF Sorted, Rising
            <7> QED BY <6>1, <7>1, <7>2
          <6> QED BY <2>4, <6>0, <6>2, LessBelow
        <5> QED BY <5>1, <5>2 DEF Rest
      <4> HIDE DEF q, R
      <4> QED BY <3>2, <3>4, <4>1, FrontRising
    <3>7. Sorted(m, up, f[p], Rest(a, b, p))
      BY <3>1, <3>5, <3>6
    <3> QED BY <3>7
  <2>5. CASE ~(i > Len(a)) /\ ~(j > Len(b)) /\ ~LessVal(m, up, a[i], b[j])
    <3> DEFINE q == <<i, j + 1>>
               R == Rest(a, b, q)
    <3>1. f[p] = <<b[j]>> \o f[q]
      BY <2>1, <2>5 DEF Merging
    <3>2. Sorted(m, up, f[q], R)
      <4>1. q \in P /\ Left(a, b, q) = Left(a, b, p) - 1
        BY <2>0, <2>1, <2>5, <1>1 DEF NextPairs
      <4> HIDE DEF q
      <4>2. rank[q] < rank[p]
        BY <2>1, <4>1
      <4>3. q \in T
        BY <1>6, <4>1, <4>2
      <4> QED BY <4>3
    <3>3. i \in 1 .. Len(a) /\ j \in 1 .. Len(b) /\ j + 1 \in Nat
      BY <1>1, <2>1, <2>5
    <3>4. b[j] \notin R
      <4>1. \A k \in j + 1 .. Len(b) : k \in 1 .. Len(b) /\ k # j
        BY <3>3
      <4>2. \A k \in j + 1 .. Len(b) : b[k] # b[j]
        BY <3>3, <4>1 DEF Sorted, IsOrder, Distinct
      <4>3. \A k \in i .. Len(a) : a[k] \in A
        BY <1>1, <3>3 DEF Sorted, IsOrder
      <4>4. b[j] \in B
        BY <3>3 DEF Sorted, IsOrder
      <4> QED BY <4>2, <4>3, <4>4 DEF Rest
    <3>5. Rest(a, b, p) = R \cup {b[j]}
      <4>1. \A k \in j .. Len(b) : k = j \/ k \in j + 1 .. Len(b)
        BY <3>3
      <4>2. \A k \in j + 1 .. Len(b) : k \in j .. Len(b)
        BY <3>3
      <4>3. j \in j .. Len(b)
        BY <3>3
      <4> QED BY <4>1, <4>2, <4>3 DEF Rest
    <3>6. Sorted(m, up, <<b[j]>> \o f[q], R \cup {b[j]})
      <4>1. \A y \in R : ~LessVal(m, up, y, b[j])
        <5>1. \A k \in j + 1 .. Len(b) : ~LessVal(m, up, b[k], b[j])
          BY <1>1, <3>3 DEF Sorted, Rising
        <5>2. \A k \in i .. Len(a) : ~LessVal(m, up, a[k], b[j])
          <6> SUFFICES ASSUME NEW k \in i .. Len(a) PROVE ~LessVal(m, up, a[k], b[j])
            OBVIOUS
          <6>1. k \in 1 .. Len(a) /\ (k = i \/ i < k)
            BY <1>1, <3>3
          <6>0. m.node[a[k]].val \in Int /\ m.node[a[i]].val \in Int /\ m.node[b[j]].val \in Int
            BY <1>5, <3>3, <6>1
          <6>2. ~LessVal(m, up, a[k], a[i])
            <7>1. CASE k = i
              BY <6>0, <7>1 DEF LessVal
            <7>2. CASE i < k
              BY <3>3, <6>1, <7>2 DEF Sorted, Rising
            <7> QED BY <6>1, <7>1, <7>2
          <6> QED BY <2>5, <6>0, <6>2, LessBelow
        <5> QED BY <5>1, <5>2 DEF Rest
      <4> HIDE DEF q, R
      <4> QED BY <3>2, <3>4, <4>1, FrontRising
    <3>7. Sorted(m, up, f[p], Rest(a, b, p))
      BY <3>1, <3>5, <3>6
    <3> QED BY <3>7
  <2> QED BY <2>2, <2>3, <2>4, <2>5
<1>7. P \subseteq T
  <2> HIDE DEF P, N, rank, T
  <2> QED BY <1>4, <1>6, RankInduction
<1>8. <<1, 1>> \in P
  BY <1>1 DEF Pairs
<1>9. Rest(a, b, <<1, 1>>) = A \cup B
  <2>1. {a[i] : i \in 1 .. Len(a)} = A /\ {b[i] : i \in 1 .. Len(b)} = B
    BY DEF Sorted, IsOrder, Items
  <2> QED BY <2>1 DEF Rest
<1> QED BY <1>2, <1>7, <1>8, <1>9

\* Merging lists gives a list.
LEMMA MergeTyped ==
    ASSUME NEW m, NEW up, NEW S, NEW a \in Seq(S), NEW b \in Seq(S)
    PROVE  HashmapNodeMerge(m, up, a, b) \in Seq(S)
<1> DEFINE P == Pairs(a, b)
           N == Len(a) + Len(b)
           rank == [p \in P |-> Left(a, b, p)]
<1>1. Len(a) \in Nat /\ Len(b) \in Nat
  OBVIOUS
<1>2. PICK f : /\ \A p \in P : f[p] = Merging(m, up, a, b, f, p)
               /\ HashmapNodeMerge(m, up, a, b) = f[<<1, 1>>]
  BY MergeDefined
<1> DEFINE T == {p \in P : f[p] \in Seq(S)}
<1>3. \A p \in P : NextPairs(S, a, b, p)
  BY NextPair
<1>4. N \in Nat /\ rank \in [P -> 0 .. N]
  <2>1. \A p \in P : Left(a, b, p) \in 0 .. N
    BY <1>3 DEF NextPairs
  <2> QED BY <1>1, <2>1
<1>5. ASSUME NEW p \in P, \A q \in P : rank[q] < rank[p] => q \in T
      PROVE  p \in T
  <2>1. \A q \in P : Left(a, b, q) < Left(a, b, p) => f[q] \in Seq(S)
    BY <1>5
  <2>2. Merging(m, up, a, b, f, p) \in Seq(S)
    BY <2>1, MergingTyped
  <2> QED BY <1>2, <2>2
<1>6. P \subseteq T
  <2> HIDE DEF P, N, rank, T
  <2> QED BY <1>4, <1>5, RankInduction
<1>7. <<1, 1>> \in P
  BY <1>1 DEF Pairs
<1> QED BY <1>2, <1>6, <1>7

-----------------------------------------------------------------------------
(* Doubly linked lists: an order, and the links forth and back of its items. *)

Strung(s, F, B) == \A i \in 1 .. Len(s) : F[s[i]] = At(s, i + 1) /\ B[s[i]] = At(s, i - 1)

\* s without its k-th item.
Less(s, k) == [i \in 1 .. Len(s) - 1 |-> IF i < k THEN s[i] ELSE s[i + 1]]

\* Links from which the item x is put before or behind s, or its k-th item taken out.
LinkedFirst(S, s, x, F, B, F2, B2) ==
    /\ IsOrder(s, S) /\ Strung(s, F, B) /\ x \notin S /\ Nil \notin S
    /\ F2[x] = At(s, 1) /\ B2[x] = Nil
    /\ \A y \in S : F2[y] = F[y] /\ B2[y] = IF y = At(s, 1) THEN x ELSE B[y]
LinkedLast(S, s, x, F, B, F2, B2) ==
    /\ IsOrder(s, S) /\ Strung(s, F, B) /\ x \notin S /\ Nil \notin S
    /\ F2[x] = Nil /\ B2[x] = At(s, Len(s))
    /\ \A y \in S : B2[y] = B[y] /\ F2[y] = IF y = At(s, Len(s)) THEN x ELSE F[y]
LinkedOut(S, s, k, F, B, F2, B2) ==
    /\ IsOrder(s, S) /\ Strung(s, F, B) /\ Nil \notin S /\ k \in 1 .. Len(s)
    /\ \A y \in S \ {s[k]} : /\ F2[y] = IF y = At(s, k - 1) THEN At(s, k + 1) ELSE F[y]
                             /\ B2[y] = IF y = At(s, k + 1) THEN At(s, k - 1) ELSE B[y]

\* An order is a sequence on which each member of the set stands once.
LEMMA OrderFacts ==
    ASSUME NEW S, NEW s, IsOrder(s, S)
    PROVE  /\ Len(s) \in Nat /\ s \in Seq(S) /\ \A i \in 1 .. Len(s) : s[i] \in S
           /\ \A x \in S : \E i \in 1 .. Len(s) : s[i] = x
           /\ \A i, j \in 1 .. Len(s) : s[i] = s[j] => i = j
  BY DEF IsOrder, Items, Distinct

\* An item linked before the first: its order, and the links of all items.
LEMMA FirstStrung ==
    ASSUME NEW S, NEW s, NEW x, NEW F, NEW B, NEW F2, NEW B2,
           LinkedFirst(S, s, x, F, B, F2, B2)
    PROVE  Strung(<<x>> \o s, F2, B2)
<1> USE DEF LinkedFirst
<1>0. /\ Len(s) \in Nat /\ s \in Seq(S) /\ \A i \in 1 .. Len(s) : s[i] \in S
      /\ \A i, j \in 1 .. Len(s) : s[i] = s[j] => i = j
  BY OrderFacts
<1> DEFINE t == <<x>> \o s
           n == Len(s)
<1>1. Len(t) = n + 1 /\ t[1] = x /\ \A i \in 1 .. n : t[i + 1] = s[i]
  <2>1. s \in Seq(S \cup {x}) /\ <<x>> \in Seq(S \cup {x}) /\ Len(<<x>>) = 1 /\ <<x>>[1] = x
    BY <1>0
  <2>2. /\ Len(t) = n + 1
        /\ \A i \in 1 .. 1 + n : t[i] = IF i <= 1 THEN <<x>>[i] ELSE s[i - 1]
    BY <1>0, <2>1, ConcatProperties
  <2> QED BY <1>0, <2>1, <2>2
<1> HIDE DEF t
<1>2. \A i \in 1 .. n : At(t, i + 1) = At(s, i)
  BY <1>0, <1>1 DEF At
<1>3. At(t, n + 2) = Nil /\ At(t, 0) = Nil /\ At(t, 1) = x /\ At(s, n + 1) = Nil /\ At(s, 0) = Nil
  BY <1>0, <1>1 DEF At
<1>4. At(t, 2) = At(s, 1)
  <2>1. CASE n = 0
    BY <1>0, <1>3, <2>1 DEF At
  <2>2. CASE n # 0
    <3>1. 1 \in 1 .. n
      BY <1>0, <2>2
    <3> QED BY <1>2, <3>1
  <2> QED BY <2>1, <2>2
<1>5. ASSUME NEW i \in 1 .. n PROVE F2[s[i]] = At(t, i + 2) /\ B2[s[i]] = At(t, i)
  <2>1. F2[s[i]] = At(s, i + 1)
    BY <1>0 DEF Strung
  <2>2. At(s, i + 1) = At(t, i + 2)
    <3>1. CASE i = n
      BY <1>0, <1>3, <3>1
    <3>2. CASE i # n
      <4>1. i + 1 \in 1 .. n /\ (i + 1) + 1 = i + 2
        BY <1>0, <3>2
      <4> QED BY <1>2, <4>1
    <3> QED BY <3>1, <3>2
  <2>3. CASE i = 1
    <3>1. At(s, 1) = s[i]
      BY <2>3 DEF At
    <3> QED BY <1>0, <1>3, <2>1, <2>2, <2>3, <3>1
  <2>4. CASE i # 1
    <3>1. 1 \in 1 .. n /\ i - 1 \in 1 .. n /\ (i - 1) + 1 = i
      BY <1>0, <2>4
    <3>2. s[i] # At(s, 1)
      BY <1>0, <2>4, <3>1 DEF At
    <3>3. B2[s[i]] = At(s, i - 1)
      BY <1>0, <3>2 DEF Strung
    <3>4. At(t, i) = At(s, i - 1)
      BY <1>2, <3>1
    <3> QED BY <2>1, <2>2, <3>3, <3>4
  <2> QED BY <2>3, <2>4
<1>6. ASSUME NEW i \in 1 .. n + 1 PROVE F2[t[i]] = At(t, i + 1) /\ B2[t[i]] = At(t, i - 1)
  <2>1. CASE i = 1
    BY <1>1, <1>3, <1>4, <2>1
  <2>2. CASE i # 1
    <3>1. i - 1 \in 1 .. n /\ (i - 1) + 1 = i /\ (i - 1) + 2 = i + 1
      BY <1>0, <2>2
    <3>2. t[i] = s[i - 1]
      BY <1>1, <3>1
    <3> QED BY <1>5, <3>1, <3>2
  <2> QED BY <2>1, <2>2
<1> QED BY <1>1, <1>6 DEF Strung, t

\* An item linked behind the last.
LEMMA LastStrung ==
    ASSUME NEW S, NEW s, NEW x, NEW F, NEW B, NEW F2, NEW B2,
           LinkedLast(S, s, x, F, B, F2, B2)
    PROVE  Strung(Append(s, x), F2, B2) /\ IsOrder(Append(s, x), S \cup {x})
<1> USE DEF LinkedLast
<1>0. /\ Len(s) \in Nat /\ s \in Seq(S) /\ \A i \in 1 .. Len(s) : s[i] \in S
      /\ \A y \in S : \E i \in 1 .. Len(s) : s[i] = y
      /\ \A i, j \in 1 .. Len(s) : s[i] = s[j] => i = j
  BY OrderFacts
<1> DEFINE t == Append(s, x)
           n == Len(s)
<1>1. Len(t) = n + 1 /\ t[n + 1] = x /\ t \in Seq(S \cup {x}) /\ \A i \in 1 .. n : t[i] = s[i]
  <2>1. s \in Seq(S \cup {x})
    BY <1>0
  <2> QED BY <1>0, <2>1, AppendProperties
<1> HIDE DEF t
<1>2. \A i \in 1 .. n : At(t, i) = s[i] /\ At(s, i) = s[i]
  BY <1>0, <1>1 DEF At
<1>3. At(t, n + 2) = Nil /\ At(t, 0) = Nil /\ At(t, n + 1) = x /\ At(s, n + 1) = Nil /\ At(s, 0) = Nil
  BY <1>0, <1>1 DEF At
<1>4. ASSUME NEW i \in 1 .. n PROVE F2[t[i]] = At(t, i + 1) /\ B2[t[i]] = At(t, i - 1)
  <2>0. i - 1 = 0 \/ i - 1 \in 1 .. n
    BY <1>0
  <2>1. B2[s[i]] = At(s, i - 1) /\ At(s, i - 1) = At(t, i - 1)
    BY <1>0, <1>2, <1>3, <2>0, ZenonT(60) DEF Strung
  <2>2. CASE i = n
    BY <1>0, <1>1, <1>2, <1>3, <2>1, <2>2
  <2>3. CASE i # n
    <3>1. n \in 1 .. n /\ i + 1 \in 1 .. n
      BY <1>0, <2>3
    <3>2. At(s, n) = s[n] /\ s[i] # s[n]
      BY <1>0, <1>2, <2>3, <3>1
    <3>3. F2[s[i]] = At(s, i + 1)
      BY <1>0, <3>2 DEF Strung
    <3> QED BY <1>1, <1>2, <2>1, <3>1, <3>3
  <2> QED BY <2>2, <2>3
<1>5. F2[t[n + 1]] = At(t, n + 2) /\ B2[t[n + 1]] = At(t, n)
  <2>1. At(t, n) = At(s, n)
    <3>1. n = 0 \/ n \in 1 .. n
      BY <1>0
    <3> QED BY <1>2, <1>3, <3>1
  <2> QED BY <1>1, <1>3, <2>1
<1>6. \A i \in 1 .. n + 1 : i = n + 1 \/ i \in 1 .. n
  BY <1>0
<1>7. Strung(t, F2, B2)
  <2>1. (n + 1) + 1 = n + 2 /\ (n + 1) - 1 = n
    BY <1>0
  <2> QED BY <1>1, <1>4, <1>5, <1>6, <2>1 DEF Strung
<1>8. Distinct(t)
  <2>1. \A i \in 1 .. n : t[i] # x
    BY <1>0, <1>1
  <2>2. ASSUME NEW i \in 1 .. n + 1, NEW j \in 1 .. n + 1, t[i] = t[j] PROVE i = j
    <3>1. CASE i = n + 1 \/ j = n + 1
      BY <1>1, <1>6, <2>1, <2>2, <3>1
    <3>2. CASE i \in 1 .. n /\ j \in 1 .. n
      BY <1>0, <1>1, <2>2, <3>2
    <3> QED BY <1>6, <3>1, <3>2
  <2> QED BY <1>1, <2>2 DEF Distinct
<1>9. Items(t) = S \cup {x}
  <2>1. ASSUME NEW y \in S PROVE \E i \in 1 .. n + 1 : t[i] = y
    <3>1. PICK i \in 1 .. n : s[i] = y
      BY <1>0
    <3>2. i \in 1 .. n + 1
      BY <1>0
    <3>3. t[i] = y
      BY <1>1, <3>1
    <3> QED BY <3>2, <3>3
  <2>2. n + 1 \in 1 .. n + 1
    BY <1>0
  <2>3. \A i \in 1 .. n + 1 : t[i] \in S \cup {x}
    BY <1>0, <1>1, <1>6
  <2> QED BY <1>1, <2>1, <2>2, <2>3 DEF Items
<1> QED BY <1>1, <1>7, <1>8, <1>9 DEF IsOrder, t

\* An order without its k-th item.
LEMMA LessOrder ==
    ASSUME NEW S, NEW s, IsOrder(s, S), NEW k \in 1 .. Len(s)
    PROVE  /\ IsOrder(Less(s, k), S \ {s[k]})
           /\ Len(Less(s, k)) = Len(s) - 1
           /\ \A i \in Nat : At(Less(s, k), i) = IF i < k THEN At(s, i) ELSE At(s, i + 1)
<1>0. /\ Len(s) \in Nat /\ s \in Seq(S) /\ \A i \in 1 .. Len(s) : s[i] \in S
      /\ \A y \in S : \E i \in 1 .. Len(s) : s[i] = y
      /\ \A i, j \in 1 .. Len(s) : s[i] = s[j] => i = j
  BY OrderFacts
<1> DEFINE t == Less(s, k)
           n == Len(s)
           R == S \ {s[k]}
           up(i) == IF i < k THEN i ELSE i + 1
<1>1. \A i \in 1 .. n - 1 : up(i) \in 1 .. n /\ up(i) # k /\ t[i] = s[up(i)] /\ s[up(i)] \in R
  <2>1. \A i \in 1 .. n - 1 : up(i) \in 1 .. n /\ up(i) # k
    BY <1>0, SMTT(60)
  <2>2. \A i \in 1 .. n - 1 : t[i] = s[up(i)]
    BY DEF Less
  <2> HIDE DEF up, t
  <2> QED BY <1>0, <2>1, <2>2
<1>2. t \in [1 .. n - 1 -> R] /\ n - 1 \in Nat
  <2>1. n - 1 \in Nat /\ t = [i \in 1 .. n - 1 |-> t[i]]
    BY <1>0 DEF Less
  <2> HIDE DEF t, R, up
  <2> QED BY <1>1, <2>1
<1>3. t \in Seq(R) /\ Len(t) = n - 1
  BY <1>2, SeqDef
<1> HIDE DEF t
<1>4. Distinct(t)
  <2> SUFFICES ASSUME NEW i \in 1 .. n - 1, NEW j \in 1 .. n - 1, t[i] = t[j] PROVE i = j
    BY <1>3 DEF Distinct
  <2>1. up(i) \in 1 .. n /\ up(j) \in 1 .. n /\ s[up(i)] = s[up(j)]
    BY <1>1
  <2>2. up(i) = up(j)
    <3> HIDE DEF up
    <3> QED BY <1>0, <2>1
  <2> QED BY <2>2
<1>5. Items(t) = R
  <2>1. ASSUME NEW y \in R PROVE \E i \in 1 .. n - 1 : t[i] = y
    <3>1. PICK j \in 1 .. n : s[j] = y
      BY <1>0
    <3>2. j # k
      BY <3>1
    <3>3. CASE j < k
      <4>1. j \in 1 .. n - 1 /\ up(j) = j
        BY <1>0, <3>3
      <4> QED BY <1>1, <3>1, <4>1
    <3>4. CASE j > k
      <4>1. j - 1 \in 1 .. n - 1 /\ up(j - 1) = j
        BY <1>0, <3>4
      <4> QED BY <1>1, <3>1, <4>1
    <3> QED BY <3>2, <3>3, <3>4
  <2>2. \A i \in 1 .. n - 1 : t[i] \in R
    BY <1>2
  <2> HIDE DEF R
  <2> QED BY <1>3, <2>1, <2>2 DEF Items
<1>6. \A i \in Nat : At(t, i) = IF i < k THEN At(s, i) ELSE At(s, i + 1)
  <2> SUFFICES ASSUME NEW i \in Nat PROVE At(t, i) = At(s, up(i))
    OBVIOUS
  <2>1. i \in 1 .. n - 1 <=> up(i) \in 1 .. n
    BY <1>0
  <2> HIDE DEF up
  <2> QED BY <1>1, <1>3, <2>1 DEF At
<1> QED BY <1>3, <1>4, <1>5, <1>6 DEF IsOrder, t

\* An item linked out: its neighbours name each other.
LEMMA OutStrung ==
    ASSUME NEW S, NEW s, NEW k, NEW F, NEW B, NEW F2, NEW B2,
           LinkedOut(S, s, k, F, B, F2, B2)
    PROVE  Strung(Less(s, k), F2, B2)
<1> USE DEF LinkedOut
<1>0. /\ Len(s) \in Nat /\ s \in Seq(S) /\ \A i \in 1 .. Len(s) : s[i] \in S /\ s[i] # Nil
      /\ \A i, j \in 1 .. Len(s) : s[i] = s[j] => i = j
  BY OrderFacts, ZenonT(60)
<1> DEFINE t == Less(s, k)
           n == Len(s)
           up(i) == IF i < k THEN i ELSE i + 1
<1>1. \A i \in 1 .. n - 1 : up(i) \in 1 .. n /\ up(i) # k /\ t[i] = s[up(i)]
  <2>1. \A i \in 1 .. n - 1 : up(i) \in 1 .. n /\ up(i) # k
    BY <1>0
  <2>2. \A i \in 1 .. n - 1 : t[i] = s[up(i)]
    BY DEF Less
  <2> HIDE DEF up, t
  <2> QED BY <2>1, <2>2
<1>2. Len(t) = n - 1 /\ \A i \in Nat : At(t, i) = At(s, up(i))
  BY LessOrder, ZenonT(60)
<1> HIDE DEF t
<1>3. \A i \in 1 .. n, j \in 0 .. n + 1 : s[i] = At(s, j) <=> i = j
  BY <1>0 DEF At
<1>4. ASSUME NEW i \in 1 .. n - 1 PROVE F2[t[i]] = At(t, i + 1) /\ B2[t[i]] = At(t, i - 1)
  <2> DEFINE j == up(i)
  <2>1. j \in 1 .. n /\ j # k /\ t[i] = s[j] /\ s[j] \in S \ {s[k]}
    BY <1>0, <1>1
  <2>2. At(t, i + 1) = At(s, up(i + 1)) /\ At(t, i - 1) = At(s, up(i - 1))
    BY <1>2
  <2>3. F[s[j]] = At(s, j + 1) /\ B[s[j]] = At(s, j - 1)
    BY <2>1 DEF Strung
  <2>4. k - 1 \in 0 .. n + 1 /\ k + 1 \in 0 .. n + 1
    BY <1>0
  <2>5. F2[s[j]] = IF j = k - 1 THEN At(s, k + 1) ELSE At(s, j + 1)
    <3> HIDE DEF j
    <3> QED BY <1>3, <2>1, <2>3, <2>4
  <2>6. B2[s[j]] = IF j = k + 1 THEN At(s, k - 1) ELSE At(s, j - 1)
    <3> HIDE DEF j
    <3> QED BY <1>3, <2>1, <2>3, <2>4
  <2>7. up(i + 1) = IF j = k - 1 THEN k + 1 ELSE j + 1
    BY <1>0
  <2>8. up(i - 1) = IF j = k + 1 THEN k - 1 ELSE j - 1
    BY <1>0
  <2> HIDE DEF j, up
  <2> QED BY <2>1, <2>2, <2>5, <2>6, <2>7, <2>8
<1> QED BY <1>2, <1>4 DEF Strung, t

-----------------------------------------------------------------------------
(* Arrays: their types, and what the assignments to a link change.           *)

Ptr == Nodes \cup {Nil}
LinkFields == {"next", "prev", "nextC", "prevC"}
Fields == LinkFields \cup {"key", "hash", "val"}
Cell == [key : Keys, hash : Nat, val : Values, next : Ptr, prev : Ptr, nextC : Ptr, prevC : Ptr]
Arrays(D, n) ==
    [node : [D -> Cell], pFirst : Ptr, pLast : Ptr, pCur : Ptr, apBucket : [0 .. n - 1 -> Ptr],
     nSize : {n}, nEntry : Nat, iNextIdx : Int]

Typed(m) == /\ m \in Arrays(DOMAIN m.node, m.nSize) /\ m.nSize \in Nat
            /\ DOMAIN m.node \in SUBSET Nodes

\* All but the nodes and the buckets is the same.
SameHead(m, g) ==
    /\ DOMAIN g.node = DOMAIN m.node /\ g.pFirst = m.pFirst /\ g.pLast = m.pLast /\ g.pCur = m.pCur
    /\ g.nSize = m.nSize /\ g.nEntry = m.nEntry /\ g.iNextIdx = m.iNextIdx

\* All but the collision chains.
SameButChains(m, g) ==
    /\ SameHead(m, g)
    /\ \A p \in DOMAIN m.node, f \in Fields \ {"nextC", "prevC"} : g.node[p][f] = m.node[p][f]

Col(m, f) == [p \in DOMAIN m.node |-> m.node[p][f]]

\* A link of a node assigned.
LEMMA CellExcept ==
    ASSUME NEW c \in Cell, NEW f \in LinkFields, NEW q \in Ptr
    PROVE  [c EXCEPT ![f] = q] \in Cell /\ \A g \in Fields : [c EXCEPT ![f] = q][g] = IF g = f THEN q ELSE c[g]
  BY DEF Cell, LinkFields, Fields

\* g is m with q in the field f of node p.
Linking(m, g, p, f, q) ==
    /\ Typed(g) /\ SameHead(m, g) /\ g.apBucket = m.apBucket
    /\ \A z \in DOMAIN m.node, k \in Fields :
           g.node[z][k] = IF z = p /\ k = f THEN q ELSE m.node[z][k]

\* Set assigns that link of that node and nothing else.
LEMMA SetLinks ==
    ASSUME NEW m, Typed(m), NEW p \in DOMAIN m.node \cup {Nil}, NEW f \in LinkFields, NEW q \in Ptr
    PROVE  Linking(m, Set(m, p, f, q), p, f, q)
<1> DEFINE D == DOMAIN m.node
           g == Set(m, p, f, q)
<1>1. m \in Arrays(D, m.nSize) /\ m.nSize \in Nat /\ D \in SUBSET Nodes /\ Nil \notin D
  BY HashmapAssumption DEF Typed
<1>2. CASE p = Nil
  <2>1. g = m
    BY <1>2 DEF Set
  <2> QED BY <1>1, <1>2, <2>1 DEF Linking, SameHead, Typed
<1>3. CASE p # Nil
  <2>1. g = [m EXCEPT !.node[p][f] = q] /\ p \in D
    BY <1>3 DEF Set
  <2> HIDE DEF g
  <2>2. m.node \in [D -> Cell]
    BY <1>1 DEF Arrays
  <2>3. /\ g.node = [m.node EXCEPT ![p] = [m.node[p] EXCEPT ![f] = q]]
        /\ g.apBucket = m.apBucket /\ g.pFirst = m.pFirst /\ g.pLast = m.pLast /\ g.pCur = m.pCur
        /\ g.nSize = m.nSize /\ g.nEntry = m.nEntry /\ g.iNextIdx = m.iNextIdx
    BY <1>1, <2>1 DEF Arrays
  <2>4. [m.node[p] EXCEPT ![f] = q] \in Cell
        /\ \A k \in Fields : [m.node[p] EXCEPT ![f] = q][k] = IF k = f THEN q ELSE m.node[p][k]
    BY <2>1, <2>2, CellExcept
  <2>5. g.node \in [D -> Cell] /\ DOMAIN g.node = D
    BY <2>2, <2>3, <2>4
  <2>6. g \in Arrays(D, m.nSize)
    <3>1. g = [m EXCEPT !.node = g.node]
      BY <1>1, <2>1, <2>3 DEF Arrays
    <3> QED BY <1>1, <2>5, <3>1 DEF Arrays
  <2>7. \A z \in D, k \in Fields : g.node[z][k] = IF z = p /\ k = f THEN q ELSE m.node[z][k]
    BY <2>1, <2>2, <2>3, <2>4
  <2> QED BY <1>1, <2>3, <2>5, <2>6, <2>7 DEF Linking, SameHead, Typed, g
<1> QED BY <1>2, <1>3

-----------------------------------------------------------------------------
(* Walks.                                                                   *)

\* The items from the k-th on.
From(s, k) == [i \in 1 .. Len(s) - k + 1 |-> s[k + i - 1]]

\* A walk counts to nEntry; from the k-th item it passes the rest.
LEMMA WalkOrder ==
    ASSUME NEW m, Nil \notin DOMAIN m.node, m.nEntry \in Nat, NEW f, NEW S, NEW s, IsOrder(s, S),
           S \subseteq DOMAIN m.node, Len(s) <= m.nEntry, NEW k \in 1 .. Len(s) + 1,
           \A i \in 1 .. Len(s) : m.node[s[i]][f] = At(s, i + 1)
    PROVE  Walk(m, At(s, k), f) = From(s, k)
<1> DEFINE n == m.nEntry
           l == Len(s)
           c == l - k + 1
           p == At(s, k)
           W(a) == [i \in 1 .. n |-> IF i = 1 THEN p ELSE Link(m, a[i - 1], f)]
           F == CHOOSE a : a = W(a)
           a0 == [i \in 1 .. n |-> At(s, k + i - 1)]
<1>0. /\ l \in Nat /\ n \in Nat /\ c \in 0 .. n /\ s \in Seq(S)
      /\ \A i \in 1 .. l : s[i] \in S /\ s[i] \in DOMAIN m.node
  <2>1. l \in Nat /\ s \in Seq(S) /\ \A i \in 1 .. l : s[i] \in S
    BY OrderFacts
  <2> QED BY <2>1
<1>1. \A i \in 1 .. l : Link(m, At(s, i), f) = At(s, i + 1)
  BY <1>0 DEF Link, At
<1>2. \A i \in l + 1 .. l + n : Link(m, At(s, i), f) = Nil /\ At(s, i + 1) = Nil
  BY <1>0 DEF Link, At
<1>3. \A i \in 2 .. n : Link(m, At(s, k + (i - 1) - 1), f) = At(s, k + i - 1)
  <2> TAKE i \in 2 .. n
  <2>1. k + (i - 1) - 1 \in 1 .. l \/ k + (i - 1) - 1 \in l + 1 .. l + n
    BY <1>0
  <2>2. (k + (i - 1) - 1) + 1 = k + i - 1
    BY <1>0
  <2> QED BY <1>0, <1>1, <1>2, <2>1, <2>2 DEF At
<1>4. a0 = W(a0)
  <2>1. \A i \in 1 .. n : a0[i] = IF i = 1 THEN p ELSE Link(m, a0[i - 1], f)
    <3> TAKE i \in 1 .. n
    <3>1. CASE i = 1
      BY <1>0, <3>1
    <3>2. CASE i # 1
      <4>1. i \in 2 .. n /\ i - 1 \in 1 .. n
        BY <1>0, <3>2
      <4> QED BY <1>3, <3>2, <4>1
    <3> QED BY <3>1, <3>2
  <2> QED BY <2>1
<1>5. F = W(F)
  <2> HIDE DEF W, a0
  <2> QED BY <1>4
<1> HIDE DEF F
<1> DEFINE T == {i \in 0 .. n : i = 0 \/ F[i] = At(s, k + i - 1)}
<1>6. \A i \in 0 .. n : i \in T
  <2>1. 0 \in T
    BY <1>0
  <2>2. ASSUME NEW i \in 1 .. n, i - 1 \in T PROVE i \in T
    <3>1. CASE i = 1
      BY <1>0, <1>5, <3>1
    <3>2. CASE i # 1
      <4>1. i \in 2 .. n /\ F[i - 1] = At(s, k + (i - 1) - 1)
        BY <1>0, <2>2, <3>2
      <4>2. F[i] = Link(m, F[i - 1], f)
        BY <1>5, <3>2
      <4> QED BY <1>3, <4>1, <4>2
    <3> QED BY <3>1, <3>2
  <2> HIDE DEF T
  <2> QED BY <1>0, <2>1, <2>2, UpTo
<1>7. \A i \in 1 .. n : F[i] = At(s, k + i - 1)
  BY <1>0, <1>6
<1>8. {i \in 1 .. n : F[i] # Nil} = 1 .. c
  <2>1. \A i \in 1 .. n : F[i] # Nil <=> i <= c
    BY <1>0, <1>7 DEF At
  <2> QED BY <1>0, <2>1
<1>9. Cardinality(1 .. c) = c
  <2> HIDE DEF c
  <2>1. c \in Int /\ c - 1 + 1 = c /\ (1 > c <=> c = 0)
    BY <1>0
  <2>2. Cardinality(1 .. c) = IF 1 > c THEN 0 ELSE c - 1 + 1
    BY <2>1, FS_Interval
  <2> QED BY <2>1, <2>2
<1>10. \A i \in 1 .. c : F[i] = s[k + i - 1] /\ s[k + i - 1] \in S
  <2> TAKE i \in 1 .. c
  <2>1. i \in 1 .. n /\ k + i - 1 \in 1 .. l
    BY <1>0
  <2>2. F[i] = At(s, k + i - 1)
    BY <1>7, <2>1
  <2> QED BY <1>0, <2>1, <2>2 DEF At
<1>11. SubSeq(F, 1, c) = From(s, k)
  <2>1. SubSeq(F, 1, c) \in Seq(S) /\ Len(SubSeq(F, 1, c)) = c /\ \A i \in 1 .. c : SubSeq(F, 1, c)[i] = F[i]
    <3>1. /\ SubSeq(F, 1, c) \in Seq(S)
          /\ Len(SubSeq(F, 1, c)) = IF 1 <= c THEN c - 1 + 1 ELSE 0
          /\ \A i \in 1 .. c - 1 + 1 : SubSeq(F, 1, c)[i] = F[1 + i - 1]
      BY <1>0, <1>10, SubSeqProperties
    <3> QED BY <1>0, <3>1
  <2>2. From(s, k) \in Seq(S) /\ Len(From(s, k)) = c /\ \A i \in 1 .. c : From(s, k)[i] = s[k + i - 1]
    <3>1. From(s, k) = [i \in 1 .. c |-> s[k + i - 1]]
      BY DEF From
    <3>2. From(s, k) \in [1 .. c -> S] /\ c \in Nat
      BY <1>0, <1>10, <3>1
    <3> HIDE DEF c
    <3>3. From(s, k) \in Seq(S) /\ Len(From(s, k)) = c
      BY <3>2, SeqDef
    <3> QED BY <3>1, <3>3
  <2> QED BY <1>10, <2>1, <2>2, SeqEqual
<1>12. Walk(m, p, f) = SubSeq(F, 1, Cardinality({i \in 1 .. n : F[i] # Nil}))
  BY DEF Walk, F
<1> QED BY <1>8, <1>9, <1>11, <1>12

\* From the first item on: all of them.
LEMMA FromFirst ==
    ASSUME NEW S, NEW s, IsOrder(s, S)
    PROVE  From(s, 1) = s
<1>1. Len(s) \in Nat /\ s \in [1 .. Len(s) -> S]
  BY OrderFacts
<1>2. From(s, 1) = [i \in 1 .. Len(s) |-> s[i]]
  BY <1>1 DEF From
<1> QED BY <1>1, <1>2

-----------------------------------------------------------------------------
(* Collision chains.  Those of the nodes of S: while the table grows, only   *)
(* some of the nodes are on one.                                             *)

InBucket(m, S, b) == {p \in S : Bucket(m, m.node[p].hash) = b}

Hangs(m, S, b, s) ==
    /\ IsOrder(s, InBucket(m, S, b)) /\ m.apBucket[b] = At(s, 1)
    /\ Strung(s, Col(m, "nextC"), Col(m, "prevC"))

Hung(m, S) == \A b \in 0 .. m.nSize - 1 : \E s : Hangs(m, S, b, s)

\* The chain of bucket b is as it was.
LEMMA HangsStill ==
    ASSUME NEW m, NEW g, NEW S, NEW T, NEW b, NEW s, Hangs(m, S, b, s),
           InBucket(g, T, b) = InBucket(m, S, b), g.apBucket[b] = m.apBucket[b],
           \A y \in InBucket(m, S, b) : /\ y \in DOMAIN m.node /\ y \in DOMAIN g.node
                                        /\ g.node[y].nextC = m.node[y].nextC
                                        /\ g.node[y].prevC = m.node[y].prevC
    PROVE  Hangs(g, T, b, s)
<1>1. \A i \in 1 .. Len(s) : s[i] \in InBucket(m, S, b)
  BY OrderFacts DEF Hangs
<1>2. Strung(s, Col(g, "nextC"), Col(g, "prevC"))
  BY <1>1 DEF Hangs, Strung, Col
<1> QED BY <1>2 DEF Hangs

\* A node's bucket is one of the table.
LEMMA BucketOf ==
    ASSUME NEW m, Typed(m), m.nSize # 0, NEW p \in DOMAIN m.node
    PROVE  Bucket(m, m.node[p].hash) \in 0 .. m.nSize - 1 /\ m.node[p].hash \in Nat
<1>1. m.node[p] \in Cell /\ m.nSize \in Nat \ {0}
  BY DEF Typed, Arrays
<1>2. m.node[p].hash \in Nat
  BY <1>1 DEF Cell
<1> QED BY <1>1, <1>2 DEF Bucket

\* A bucket assigned.
LEMMA SetBucket ==
    ASSUME NEW m, Typed(m), NEW b \in 0 .. m.nSize - 1, NEW q \in Ptr
    PROVE  LET g == [m EXCEPT !.apBucket[b] = q]
           IN  /\ Typed(g) /\ SameHead(m, g) /\ g.node = m.node
               /\ \A c \in 0 .. m.nSize - 1 : g.apBucket[c] = IF c = b THEN q ELSE m.apBucket[c]
<1> DEFINE g == [m EXCEPT !.apBucket[b] = q]
           D == DOMAIN m.node
<1>1. m \in Arrays(D, m.nSize) /\ m.nSize \in Nat /\ D \in SUBSET Nodes
  BY DEF Typed
<1>2. m.apBucket \in [0 .. m.nSize - 1 -> Ptr]
  BY <1>1 DEF Arrays
<1>3. /\ g.node = m.node /\ g.apBucket = [m.apBucket EXCEPT ![b] = q]
      /\ g.pFirst = m.pFirst /\ g.pLast = m.pLast /\ g.pCur = m.pCur
      /\ g.nSize = m.nSize /\ g.nEntry = m.nEntry /\ g.iNextIdx = m.iNextIdx
  BY <1>1 DEF Arrays
<1>4. g.apBucket \in [0 .. m.nSize - 1 -> Ptr]
  BY <1>2, <1>3
<1>5. g \in Arrays(D, m.nSize)
  BY <1>1, <1>3, <1>4 DEF Arrays
<1> HIDE DEF g
<1>6. Typed(g) /\ SameHead(m, g)
  BY <1>1, <1>3, <1>5 DEF Typed, SameHead
<1>7. \A c \in 0 .. m.nSize - 1 : g.apBucket[c] = IF c = b THEN q ELSE m.apBucket[c]
  BY <1>2, <1>3
<1> QED BY <1>3, <1>6, <1>7 DEF g

\* A node put at the head of its chain (HashmapNodeLink).
LEMMA ChainedHung ==
    ASSUME NEW m, Typed(m), m.nSize # 0, NEW S \in SUBSET DOMAIN m.node, Hung(m, S),
           NEW p \in DOMAIN m.node \ S, m.node[p].prevC = Nil
    PROVE  LET g == Chained(m, p, Bucket(m, m.node[p].hash))
           IN  Typed(g) /\ SameButChains(m, g) /\ Hung(g, S \cup {p})
<1> DEFINE b == Bucket(m, m.node[p].hash)
           D == DOMAIN m.node
           q == m.apBucket[b]
           g1 == Set(m, q, "prevC", p)
           g2 == Set(g1, p, "nextC", q)
           g == Chained(m, p, b)
           B == 0 .. m.nSize - 1
<1>0. b \in B /\ D \subseteq Nodes /\ Nil \notin D /\ p \in Ptr
  BY BucketOf, HashmapAssumption DEF Typed, Ptr
<1> HIDE DEF b
<1>1. PICK s : Hangs(m, S, b, s)
  BY <1>0 DEF Hung
<1>2. IsOrder(s, InBucket(m, S, b)) /\ q = At(s, 1)
  BY <1>1 DEF Hangs
<1>3. q \in InBucket(m, S, b) \cup {Nil} /\ q # p
  <2>1. \A i \in 1 .. Len(s) : s[i] \in InBucket(m, S, b)
    BY <1>2, OrderFacts
  <2>2. q \in InBucket(m, S, b) \cup {Nil}
    BY <1>2, <2>1 DEF At
  <2> QED BY <1>0, <2>2 DEF InBucket
<1>4. q \in D \cup {Nil} /\ q \in Ptr
  BY <1>0, <1>3 DEF InBucket, Ptr
<1>5. Linking(m, g1, q, "prevC", p)
  BY <1>0, <1>4, SetLinks DEF LinkFields
<1>6. Linking(g1, g2, p, "nextC", q)
  <2>1. p \in DOMAIN g1.node /\ Typed(g1)
    BY <1>5 DEF Linking, SameHead
  <2> HIDE DEF g1
  <2> QED BY <1>4, <2>1, SetLinks DEF LinkFields
<1>7. g = [g2 EXCEPT !.apBucket[b] = p]
  <2>1. p # Nil
    BY <1>0
  <2>2. g = [g1 EXCEPT !.node[p].nextC = q, !.apBucket[b] = p]
    BY DEF Chained
  <2>3. g2 = [g1 EXCEPT !.node[p]["nextC"] = q]
    BY <2>1 DEF Set
  <2>4. g1 \in Arrays(DOMAIN g1.node, g1.nSize)
    BY <1>5 DEF Linking, Typed
  <2> HIDE DEF g, g1, g2
  <2> QED BY <2>2, <2>3, <2>4 DEF Arrays
<1>8. /\ Typed(g) /\ SameHead(g2, g) /\ g.node = g2.node
      /\ \A c \in B : g.apBucket[c] = IF c = b THEN p ELSE g2.apBucket[c]
  <2>1. b \in 0 .. g2.nSize - 1 /\ g2.nSize = m.nSize /\ Typed(g2)
    BY <1>0, <1>5, <1>6 DEF Linking, SameHead
  <2> HIDE DEF g, g1, g2
  <2> QED BY <1>0, <1>7, <2>1, SetBucket
<1> HIDE DEF g1, g2, g, B
<1>9. \A z \in D, k \in Fields :
          g.node[z][k] = IF z = p /\ k = "nextC" THEN q
                         ELSE IF z = q /\ k = "prevC" THEN p ELSE m.node[z][k]
  BY <1>5, <1>6, <1>8 DEF Linking, SameHead
<1>10. SameHead(m, g) /\ g.nSize = m.nSize /\ DOMAIN g.node = D
       /\ \A c \in B : g.apBucket[c] = IF c = b THEN p ELSE m.apBucket[c]
  BY <1>5, <1>6, <1>8 DEF Linking, SameHead
<1>11. SameButChains(m, g)
  BY <1>9, <1>10 DEF SameButChains
<1>12. /\ \A z \in D : g.node[z].hash = m.node[z].hash
       /\ \A z \in D : g.node[z].nextC = IF z = p THEN q ELSE m.node[z].nextC
       /\ \A z \in D : g.node[z].prevC = IF z = q THEN p ELSE m.node[z].prevC
  BY <1>9 DEF Fields, LinkFields
<1>13. \A c \in B : InBucket(g, S \cup {p}, c) = IF c = b THEN InBucket(m, S, c) \cup {p}
                                                ELSE InBucket(m, S, c)
  <2> TAKE c \in B
  <2>1. \A z \in D : Bucket(g, g.node[z].hash) = Bucket(m, m.node[z].hash)
    BY <1>10, <1>12 DEF Bucket
  <2>2. Bucket(m, m.node[p].hash) = b
    BY DEF b
  <2> QED BY <2>1, <2>2 DEF InBucket
<1>14. ASSUME NEW c \in B PROVE \E t : Hangs(g, S \cup {p}, c, t)
  <2>1. CASE c # b
    <3>1. PICK t : Hangs(m, S, c, t)
      BY <1>14 DEF Hung, B
    <3>2. \A y \in InBucket(m, S, c) : y \in D /\ y # p /\ y # q
      BY <1>0, <1>3, <2>1 DEF InBucket
    <3>3. Hangs(g, S \cup {p}, c, t)
      BY <1>10, <1>12, <1>13, <2>1, <3>1, <3>2, HangsStill
    <3> QED BY <3>3
  <2>2. CASE c = b
    <3> DEFINE R == InBucket(m, S, b)
               t == <<p>> \o s
    <3>1. p \notin R /\ Nil \notin R /\ R \subseteq D
      BY <1>0 DEF InBucket
    <3>2. LinkedFirst(R, s, p, Col(m, "nextC"), Col(m, "prevC"), Col(g, "nextC"), Col(g, "prevC"))
      <4>1. Strung(s, Col(m, "nextC"), Col(m, "prevC"))
        BY <1>1 DEF Hangs
      <4>2. Col(g, "nextC")[p] = q /\ Col(g, "prevC")[p] = Nil
        BY <1>3, <1>10, <1>12 DEF Col
      <4>3. \A y \in R : /\ Col(g, "nextC")[y] = Col(m, "nextC")[y]
                         /\ Col(g, "prevC")[y] = IF y = q THEN p ELSE Col(m, "prevC")[y]
        BY <1>10, <1>12, <3>1 DEF Col
      <4> HIDE DEF R
      <4> QED BY <1>2, <3>1, <4>1, <4>2, <4>3 DEF LinkedFirst, R
    <3>3. Strung(t, Col(g, "nextC"), Col(g, "prevC"))
      BY <3>2, FirstStrung
    <3>4. IsOrder(t, R \cup {p})
      <4> HIDE DEF R
      <4> QED BY <1>2, <3>1, FrontOrder DEF R
    <3>5. At(t, 1) = p
      <4>1. Len(s) \in Nat /\ s \in Seq(R)
        BY <1>2, OrderFacts
      <4>2. t \in Seq(R \cup {p}) /\ Len(t) = 1 + Len(s) /\ t[1] = p
        <5>1. s \in Seq(R \cup {p}) /\ <<p>> \in Seq(R \cup {p}) /\ Len(<<p>>) = 1 /\ <<p>>[1] = p
          BY <4>1
        <5> HIDE DEF R
        <5>2. /\ Len(t) = 1 + Len(s) /\ t \in Seq(R \cup {p})
              /\ \A i \in 1 .. 1 + Len(s) : t[i] = IF i <= 1 THEN <<p>>[i] ELSE s[i - 1]
          BY <5>1, ConcatProperties
        <5> QED BY <4>1, <5>1, <5>2
      <4> QED BY <4>1, <4>2 DEF At
    <3>6. Hangs(g, S \cup {p}, b, t)
      <4> HIDE DEF t
      <4> QED BY <1>0, <1>10, <1>13, <3>3, <3>4, <3>5 DEF Hangs
    <3> QED BY <2>2, <3>6
  <2> QED BY <2>1, <2>2
<1>15. Hung(g, S \cup {p})
  BY <1>10, <1>14 DEF Hung, B
<1> QED BY <1>8, <1>11, <1>15 DEF g, b

\* The i-th item is a member of the set, or Nil outside the order.
LEMMA AtTyped ==
    ASSUME NEW S, NEW s, IsOrder(s, S), NEW i \in Int
    PROVE  At(s, i) \in S \cup {Nil} /\ (Nil \notin S => (At(s, i) = Nil <=> i \notin 1 .. Len(s)))
<1>1. \A j \in 1 .. Len(s) : s[j] \in S
  BY OrderFacts
<1> QED BY <1>1 DEF At

\* A node taken out of its chain (PH7_HashmapUnlinkNode).
LEMMA UnchainedHung ==
    ASSUME NEW m, Typed(m), m.nSize # 0, NEW S \in SUBSET DOMAIN m.node, Hung(m, S), NEW p \in S
    PROVE  LET g == Unchained(m, p)
           IN  Typed(g) /\ SameButChains(m, g) /\ Hung(g, S \ {p})
<1> DEFINE n == m.node[p]
           b == Bucket(m, n.hash)
           D == DOMAIN m.node
           g1 == IF n.prevC = Nil THEN [m EXCEPT !.apBucket[b] = n.nextC]
                                  ELSE Set(m, n.prevC, "nextC", n.nextC)
           g == Set(g1, n.nextC, "prevC", n.prevC)
           B == 0 .. m.nSize - 1
           R == InBucket(m, S, b)
<1>0. b \in B /\ D \subseteq Nodes /\ Nil \notin D /\ p \in D /\ p \in R /\ R \subseteq D
  BY BucketOf, HashmapAssumption DEF Typed, InBucket
<1> HIDE DEF b
<1>1. PICK s : Hangs(m, S, b, s)
  BY <1>0 DEF Hung
<1>2. IsOrder(s, R) /\ m.apBucket[b] = At(s, 1) /\ Strung(s, Col(m, "nextC"), Col(m, "prevC"))
  BY <1>1 DEF Hangs
<1>3. Len(s) \in Nat /\ \A i, j \in 1 .. Len(s) : s[i] = s[j] => i = j
  BY <1>2, OrderFacts
<1>4. PICK k \in 1 .. Len(s) : s[k] = p
  BY <1>0, <1>2, OrderFacts
<1> DEFINE u == At(s, k - 1)
           d == At(s, k + 1)
<1>5. n.nextC = d /\ n.prevC = u
  BY <1>0, <1>2, <1>4 DEF Strung, Col
<1>6. u \in R \cup {Nil} /\ d \in R \cup {Nil} /\ (u = Nil <=> k = 1) /\ u # p /\ d # p
  <2>1. k - 1 \in Int /\ k + 1 \in Int /\ Nil \notin R
    BY <1>0, <1>3
  <2>2. u \in R \cup {Nil} /\ d \in R \cup {Nil} /\ (u = Nil <=> k - 1 \notin 1 .. Len(s))
    <3> HIDE DEF R
    <3> QED BY <1>2, <2>1, AtTyped
  <2>3. k - 1 \notin 1 .. Len(s) <=> k = 1
    BY <1>3
  <2>4. u # p /\ d # p
    BY <1>0, <1>3, <1>4 DEF At
  <2> HIDE DEF u, d, R
  <2> QED BY <2>2, <2>3, <2>4
<1>7. u \in D \cup {Nil} /\ d \in D \cup {Nil} /\ u \in Ptr /\ d \in Ptr
  BY <1>0, <1>6 DEF Ptr
<1> HIDE DEF u, d, R
<1>8. /\ Typed(g1) /\ SameHead(m, g1)
      /\ \A z \in D, f \in Fields :
             g1.node[z][f] = IF z = u /\ f = "nextC" THEN d ELSE m.node[z][f]
      /\ \A c \in B : g1.apBucket[c] = IF c = b /\ k = 1 THEN d ELSE m.apBucket[c]
  <2>1. CASE u = Nil
    <3>1. g1 = [m EXCEPT !.apBucket[b] = d] /\ k = 1
      BY <1>5, <1>6, <2>1
    <3> HIDE DEF g1
    <3>2. /\ Typed(g1) /\ SameHead(m, g1) /\ g1.node = m.node
          /\ \A c \in B : g1.apBucket[c] = IF c = b THEN d ELSE m.apBucket[c]
      BY <1>0, <1>7, <3>1, SetBucket
    <3> QED BY <1>0, <2>1, <3>1, <3>2
  <2>2. CASE u # Nil
    <3>1. g1 = Set(m, u, "nextC", d) /\ k # 1
      BY <1>5, <1>6, <2>2
    <3> HIDE DEF g1
    <3>2. Linking(m, g1, u, "nextC", d)
      BY <1>7, <3>1, SetLinks DEF LinkFields
    <3> QED BY <3>1, <3>2 DEF Linking
  <2> QED BY <2>1, <2>2
<1>9. Linking(g1, g, d, "prevC", u)
  <2>1. g = Set(g1, d, "prevC", u)
    BY <1>5
  <2>2. d \in DOMAIN g1.node \cup {Nil}
    BY <1>7, <1>8 DEF SameHead
  <2> HIDE DEF g, g1
  <2> QED BY <1>7, <1>8, <2>1, <2>2, SetLinks DEF LinkFields
<1>10. g = Unchained(m, p)
  BY DEF Unchained, b
<1> HIDE DEF g, g1, n, B
<1>11. Typed(g) /\ SameHead(m, g) /\ g.nSize = m.nSize /\ DOMAIN g.node = D
       /\ \A c \in B : g.apBucket[c] = IF c = b /\ k = 1 THEN d ELSE m.apBucket[c]
  BY <1>8, <1>9 DEF Linking, SameHead
<1>12. \A z \in D, f \in Fields :
          g.node[z][f] = IF z = d /\ f = "prevC" THEN u
                         ELSE IF z = u /\ f = "nextC" THEN d ELSE m.node[z][f]
  BY <1>8, <1>9 DEF Linking, SameHead
<1>13. SameButChains(m, g)
  BY <1>11, <1>12 DEF SameButChains
<1>14. /\ \A z \in D : g.node[z].hash = m.node[z].hash
       /\ \A z \in D : g.node[z].nextC = IF z = u THEN d ELSE m.node[z].nextC
       /\ \A z \in D : g.node[z].prevC = IF z = d THEN u ELSE m.node[z].prevC
  BY <1>12 DEF Fields, LinkFields
<1>15. \A c \in B : InBucket(g, S \ {p}, c) = IF c = b THEN R \ {p} ELSE InBucket(m, S, c)
  <2> TAKE c \in B
  <2>1. \A z \in D : Bucket(g, g.node[z].hash) = Bucket(m, m.node[z].hash)
    BY <1>11, <1>14 DEF Bucket
  <2>2. Bucket(m, m.node[p].hash) = b
    BY DEF b, n
  <2> QED BY <2>1, <2>2 DEF InBucket, R
<1>16. ASSUME NEW c \in B PROVE \E t : Hangs(g, S \ {p}, c, t)
  <2>1. CASE c # b
    <3>1. PICK t : Hangs(m, S, c, t)
      BY <1>16 DEF Hung, B
    <3>2. \A y \in InBucket(m, S, c) : y \in D /\ y # u /\ y # d
      BY <1>0, <1>6, <2>1 DEF InBucket, R
    <3>3. Hangs(g, S \ {p}, c, t)
      BY <1>11, <1>14, <1>15, <2>1, <3>1, <3>2, HangsStill
    <3> QED BY <3>3
  <2>2. CASE c = b
    <3> DEFINE t == Less(s, k)
    <3>1. LinkedOut(R, s, k, Col(m, "nextC"), Col(m, "prevC"), Col(g, "nextC"), Col(g, "prevC"))
      <4>1. \A y \in R \ {s[k]} : /\ Col(g, "nextC")[y] = IF y = u THEN d ELSE Col(m, "nextC")[y]
                                  /\ Col(g, "prevC")[y] = IF y = d THEN u ELSE Col(m, "prevC")[y]
        BY <1>0, <1>11, <1>14 DEF Col
      <4> QED BY <1>0, <1>2, <4>1 DEF LinkedOut, u, d
    <3>2. Strung(t, Col(g, "nextC"), Col(g, "prevC"))
      BY <3>1, OutStrung
    <3>3. IsOrder(t, R \ {p}) /\ \A i \in Nat : At(t, i) = IF i < k THEN At(s, i) ELSE At(s, i + 1)
      BY <1>2, <1>4, LessOrder
    <3>4. At(t, 1) = IF k = 1 THEN d ELSE At(s, 1)
      <4>1. 1 < k <=> k # 1
        BY <1>3
      <4> HIDE DEF t
      <4> QED BY <3>3, <4>1 DEF d
    <3>5. g.apBucket[b] = At(t, 1)
      BY <1>0, <1>2, <1>11, <3>4
    <3>6. Hangs(g, S \ {p}, b, t)
      <4> HIDE DEF t
      <4> QED BY <1>0, <1>15, <3>2, <3>3, <3>5 DEF Hangs
    <3> QED BY <2>2, <3>6
  <2> QED BY <2>1, <2>2
<1>17. Hung(g, S \ {p})
  BY <1>11, <1>16 DEF Hung, B
<1> QED BY <1>10, <1>11, <1>13, <1>17

\* The links of a node on no chain are reset (HashmapGrowBucket).
LEMMA OffChainHung ==
    ASSUME NEW m, Typed(m), NEW S \in SUBSET DOMAIN m.node, Hung(m, S), NEW p \in DOMAIN m.node \ S
    PROVE  LET g == OffChain(m, p)
           IN  Typed(g) /\ SameButChains(m, g) /\ Hung(g, S) /\ g.node[p].prevC = Nil
<1> DEFINE g1 == Set(m, p, "nextC", Nil)
           g == Set(g1, p, "prevC", Nil)
           D == DOMAIN m.node
<1>0. p \in D /\ Nil \in Ptr /\ p # Nil /\ m \in Arrays(D, m.nSize) /\ "nextC" \in LinkFields /\ "prevC" \in LinkFields
  BY HashmapAssumption DEF Typed, Ptr, LinkFields
<1>1. Linking(m, g1, p, "nextC", Nil)
  BY <1>0, SetLinks
<1>2. Linking(g1, g, p, "prevC", Nil)
  <2>1. p \in DOMAIN g1.node /\ Typed(g1)
    BY <1>1 DEF Linking, SameHead
  <2> HIDE DEF g1
  <2> QED BY <1>0, <2>1, SetLinks
<1>3. g = OffChain(m, p)
  <2>1. g1 = [m EXCEPT !.node[p]["nextC"] = Nil] /\ g = [g1 EXCEPT !.node[p]["prevC"] = Nil]
    BY <1>0 DEF Set
  <2>2. g1 \in Arrays(DOMAIN g1.node, g1.nSize)
    BY <1>1 DEF Linking, Typed
  <2> HIDE DEF g, g1
  <2> QED BY <1>0, <2>1, <2>2 DEF Arrays, OffChain
<1> HIDE DEF g, g1
<1>4. Typed(g) /\ SameHead(m, g) /\ g.apBucket = m.apBucket /\ g.nSize = m.nSize /\ DOMAIN g.node = D
      /\ \A z \in D, k \in Fields :
            g.node[z][k] = IF z = p /\ k \in {"nextC", "prevC"} THEN Nil ELSE m.node[z][k]
  BY <1>1, <1>2 DEF Linking, SameHead
<1>5. SameButChains(m, g)
  BY <1>4 DEF SameButChains
<1>6. /\ \A z \in D : g.node[z].hash = m.node[z].hash
      /\ \A z \in D \ {p} : g.node[z].nextC = m.node[z].nextC /\ g.node[z].prevC = m.node[z].prevC
      /\ g.node[p].prevC = Nil
  BY <1>4 DEF Fields, LinkFields
<1>7. \A b \in 0 .. m.nSize - 1 : InBucket(g, S, b) = InBucket(m, S, b)
  BY <1>4, <1>6 DEF InBucket, Bucket
<1>8. ASSUME NEW b \in 0 .. m.nSize - 1 PROVE \E s : Hangs(g, S, b, s)
  <2>1. PICK s : Hangs(m, S, b, s)
    BY DEF Hung
  <2>2. \A y \in InBucket(m, S, b) : y \in D \ {p}
    BY DEF InBucket
  <2>3. Hangs(g, S, b, s)
    BY <1>4, <1>6, <1>7, <2>1, <2>2, HangsStill
  <2> QED BY <2>3
<1>9. Hung(g, S)
  BY <1>4, <1>8 DEF Hung
<1> QED BY <1>3, <1>4, <1>5, <1>6, <1>9

\* Two changes of chains only are a change of chains only.
LEMMA SameTransitive ==
    ASSUME NEW m, NEW g, NEW k, SameButChains(m, g), SameButChains(g, k)
    PROVE  SameButChains(m, k)
  BY DEF SameButChains, SameHead

\* A node hung in the grown table.
LEMMA RechainedHung ==
    ASSUME NEW m, Typed(m), m.nSize # 0, NEW S \in SUBSET DOMAIN m.node, Hung(m, S),
           NEW p \in DOMAIN m.node \ S
    PROVE  LET g == Rechained(m, p)
           IN  Typed(g) /\ SameButChains(m, g) /\ Hung(g, S \cup {p})
<1> DEFINE k == OffChain(m, p)
           g == Chained(k, p, Bucket(k, k.node[p].hash))
<1>1. Typed(k) /\ SameButChains(m, k) /\ Hung(k, S) /\ k.node[p].prevC = Nil
  BY OffChainHung
<1>2. DOMAIN k.node = DOMAIN m.node /\ k.nSize = m.nSize /\ k.node[p].hash = m.node[p].hash
  BY <1>1 DEF SameButChains, SameHead, Fields, LinkFields
<1>3. g = Rechained(m, p)
  BY <1>2 DEF Rechained, Bucket
<1> HIDE DEF k
<1>4. Typed(g) /\ SameButChains(k, g) /\ Hung(g, S \cup {p})
  BY <1>1, <1>2, ChainedHung
<1>5. SameButChains(m, g)
  <2> HIDE DEF g
  <2> QED BY <1>1, <1>4, SameTransitive
<1> QED BY <1>3, <1>4, <1>5

-----------------------------------------------------------------------------
(* The list of the entries, and the growth of the table.                     *)

Threaded(m, s) ==
    /\ IsOrder(s, DOMAIN m.node) /\ m.nEntry = Len(s) /\ m.pFirst = At(s, 1)
    /\ Strung(s, Col(m, "prev"), Col(m, "next"))

Listed(m, s) == Threaded(m, s) /\ m.pLast = At(s, Len(s))

\* All but the table and the collision chains.
SameButTable(m, g) ==
    /\ DOMAIN g.node = DOMAIN m.node /\ g.pFirst = m.pFirst /\ g.pLast = m.pLast /\ g.pCur = m.pCur
    /\ g.nEntry = m.nEntry /\ g.iNextIdx = m.iNextIdx
    /\ \A p \in DOMAIN m.node, f \in Fields \ {"nextC", "prevC"} : g.node[p][f] = m.node[p][f]

\* A change of chains only leaves all but the table the same.
LEMMA SameTable ==
    ASSUME NEW m, NEW g, SameButChains(m, g)
    PROVE  SameButTable(m, g)
  BY DEF SameButChains, SameHead, SameButTable

\* Two changes of the table only are a change of the table only.
LEMMA SameTableTransitive ==
    ASSUME NEW m, NEW g, NEW k, SameButTable(m, g), SameButTable(g, k)
    PROVE  SameButTable(m, k)
  BY DEF SameButTable

\* The list does not depend on the table.
LEMMA SameThreaded ==
    ASSUME NEW m, NEW g, SameButTable(m, g), NEW s, Threaded(m, s)
    PROVE  Threaded(g, s) /\ (Listed(m, s) => Listed(g, s))
<1>1. \A i \in 1 .. Len(s) : s[i] \in DOMAIN m.node
  BY OrderFacts DEF Threaded
<1>2. \A p \in DOMAIN m.node : g.node[p].prev = m.node[p].prev /\ g.node[p].next = m.node[p].next
  BY DEF SameButTable, Fields, LinkFields
<1>3. DOMAIN g.node = DOMAIN m.node
  BY DEF SameButTable
<1>4. Strung(s, Col(g, "prev"), Col(g, "next"))
  BY <1>1, <1>2, <1>3 DEF Threaded, Strung, Col
<1>5. Threaded(g, s)
  BY <1>3, <1>4 DEF Threaded, SameButTable
<1> QED BY <1>5 DEF Listed, SameButTable

\* Entries walks the list of the entries, and all of it.
LEMMA EntriesListed ==
    ASSUME NEW m, Typed(m), NEW s, Threaded(m, s)
    PROVE  Entries(m) = s /\ Len(s) \in Nat
<1>0. Nil \notin DOMAIN m.node /\ m.nEntry \in Nat /\ Len(s) = m.nEntry /\ IsOrder(s, DOMAIN m.node)
  BY HashmapAssumption DEF Typed, Threaded, Arrays
<1>1. \A i \in 1 .. Len(s) : s[i] \in DOMAIN m.node
  BY <1>0, OrderFacts
<1>2. \A i \in 1 .. Len(s) : m.node[s[i]]["prev"] = At(s, i + 1)
  BY <1>1 DEF Threaded, Strung, Col
<1>3. 1 \in 1 .. Len(s) + 1
  BY <1>0
<1> DEFINE D == DOMAIN m.node
           pr == "prev"
<1>4. Walk(m, At(s, 1), pr) = From(s, 1)
  <2>1. D \subseteq DOMAIN m.node /\ Len(s) <= m.nEntry /\ IsOrder(s, D)
    BY <1>0
  <2>2. \A i \in 1 .. Len(s) : m.node[s[i]][pr] = At(s, i + 1)
    BY <1>2
  <2> HIDE DEF D, pr
  <2> QED BY <1>0, <1>3, <2>1, <2>2, WalkOrder
<1>5. From(s, 1) = s
  BY <1>0, FromFirst
<1>6. m.pFirst = At(s, 1)
  BY DEF Threaded
<1> QED BY <1>0, <1>4, <1>5, <1>6 DEF Entries

Parts(s, T) == {s[i] : i \in T}

\* Every entry hung in the new table.
LEMMA AllRechained ==
    ASSUME NEW m, Typed(m), m.nSize # 0, NEW s, IsOrder(s, DOMAIN m.node), Hung(m, {})
    PROVE  LET g == FoldLeft(Rechained, m, s)
           IN  Typed(g) /\ SameButChains(m, g) /\ Hung(g, DOMAIN m.node)
<1> DEFINE D == DOMAIN m.node
           n == Len(s)
           I == SUBSET (1 .. n)
           U == Arrays(D, m.nSize)
           V == [T \in I |-> {g \in U : Typed(g) /\ SameButChains(m, g) /\ Hung(g, Parts(s, T))}]
           step == [i \in 1 .. n |-> [g \in U |-> Rechained(g, s[i])]]
           W(f) == [T \in SUBSET DOMAIN s |->
                       IF T = {} THEN m ELSE Rechained(f[T \ {Max(T)}], s[Max(T)])]
           F == CHOOSE f : f = W(f)
<1>1. /\ n \in Nat /\ DOMAIN s = 1 .. n
      /\ \A i \in 1 .. n : s[i] \in D
      /\ \A x \in D : \E i \in 1 .. n : s[i] = x
      /\ \A i, j \in 1 .. n : s[i] = s[j] => i = j
  <2>1. /\ n \in Nat /\ s \in Seq(D) /\ \A i \in 1 .. n : s[i] \in D
        /\ \A x \in D : \E i \in 1 .. n : s[i] = x
        /\ \A i, j \in 1 .. n : s[i] = s[j] => i = j
    BY OrderFacts
  <2>2. DOMAIN s = 1 .. n
    BY <2>1, LenProperties
  <2> QED BY <2>1, <2>2
<1>2. m \in V[{}]
  <2>1. Parts(s, {}) = {} /\ {} \in I /\ m \in U /\ SameButChains(m, m)
    BY DEF Parts, Typed, SameButChains, SameHead
  <2> QED BY <2>1
<1>3. ASSUME NEW T \in I, T # {}, NEW g \in V[T \ {Max(T)}]
      PROVE  Rechained(g, s[Max(T)]) \in V[T]
  <2> DEFINE i == Max(T)
             R == T \ {i}
             k == Rechained(g, s[i])
  <2>1. i \in T /\ i \in 1 .. n /\ R \in I
    BY <1>1, <1>3, Subsets
  <2> HIDE DEF i
  <2>2. Typed(g) /\ SameButChains(m, g) /\ Hung(g, Parts(s, R)) /\ g \in U
    BY <1>3, <2>1 DEF i
  <2>3. Parts(s, R) \in SUBSET DOMAIN g.node /\ s[i] \in DOMAIN g.node \ Parts(s, R) /\ g.nSize # 0
    <3>1. DOMAIN g.node = D /\ g.nSize = m.nSize
      BY <2>2 DEF SameButChains, SameHead
    <3>2. \A j \in R : s[j] \in D /\ s[j] # s[i]
      BY <1>1, <2>1
    <3> HIDE DEF R
    <3> QED BY <1>1, <2>1, <3>1, <3>2 DEF Parts
  <2>4. Typed(k) /\ SameButChains(g, k) /\ Hung(k, Parts(s, R) \cup {s[i]})
    <3> HIDE DEF R
    <3> QED BY <2>2, <2>3, RechainedHung
  <2>5. Parts(s, R) \cup {s[i]} = Parts(s, T)
    BY <2>1 DEF Parts
  <2> HIDE DEF k, R
  <2>6. SameButChains(m, k)
    BY <2>2, <2>4, SameTransitive
  <2>7. k \in U
    BY <2>4, <2>6 DEF Typed, SameButChains, SameHead
  <2>8. k \in V[T]
    BY <2>4, <2>5, <2>6, <2>7
  <2> QED BY <2>8 DEF k, i
<1>4. FoldTyped(n, U, V, m, step)
  <2>1. U # {} /\ V \in [I -> SUBSET U]
    BY <1>2
  <2>2. ASSUME NEW T \in I, T # {}, NEW g \in V[T \ {Max(T)}]
        PROVE  step[Max(T)][g] \in V[T]
    <3>1. Max(T) \in 1 .. n /\ T \ {Max(T)} \in I
      BY <1>1, <2>2, Subsets
    <3> DEFINE R == T \ {Max(T)}
    <3>2. V[R] \subseteq U
      <4> HIDE DEF U, I
      <4> QED BY <2>1, <3>1
    <3>3. g \in U
      BY <3>2
    <3>4. step[Max(T)][g] = Rechained(g, s[Max(T)])
      BY <3>1, <3>3
    <3> QED BY <1>3, <2>2, <3>4
  <2> HIDE DEF U, V, step
  <2> QED BY <1>1, <1>2, <2>1, <2>2 DEF FoldTyped
<1>5. PICK f : FoldsTo(f, n, U, m, step)
  <2> HIDE DEF n, U, V, step
  <2> QED BY <1>4, FoldDefined
<1>6. f = W(f)
  <2>0. f \in [I -> U] /\ \A T \in I : f[T] = IF T = {} THEN m ELSE step[Max(T)][f[T \ {Max(T)}]]
    BY <1>5 DEF FoldsTo
  <2>1. ASSUME NEW T \in I, T # {}
        PROVE  step[Max(T)][f[T \ {Max(T)}]] = Rechained(f[T \ {Max(T)}], s[Max(T)])
    <3>1. Max(T) \in 1 .. n /\ T \ {Max(T)} \in I
      BY <1>1, <2>1, Subsets
    <3> DEFINE R == T \ {Max(T)}
    <3>2. f[R] \in U
      <4> HIDE DEF U, I, R
      <4> QED BY <2>0, <3>1 DEF R
    <3> QED BY <3>1, <3>2
  <2>2. \A T \in I : f[T] = IF T = {} THEN m ELSE Rechained(f[T \ {Max(T)}], s[Max(T)])
    <3> HIDE DEF U, I, step
    <3> QED BY <2>0, <2>1
  <2>3. I = SUBSET DOMAIN s
    BY <1>1
  <2> HIDE DEF U, I, step
  <2>4. f = [T \in I |-> IF T = {} THEN m ELSE Rechained(f[T \ {Max(T)}], s[Max(T)])]
    BY <2>0, <2>2
  <2> QED BY <2>3, <2>4
<1>7. F = W(F)
  <2> HIDE DEF W
  <2> QED BY <1>6
<1>8. FoldLeft(Rechained, m, s) = F[DOMAIN s]
  BY DEF FoldLeft, MapThenFoldSet
<1> HIDE DEF F
<1>9. F[1 .. n] \in V[1 .. n]
  <2>0. \A T \in I : F[T] = W(F)[T]
    <3> HIDE DEF W
    <3> QED BY <1>7
  <2>1. F[{}] \in V[{}]
    <3>1. {} \in I /\ {} \in SUBSET DOMAIN s
      OBVIOUS
    <3>2. F[{}] = m
      <4> HIDE DEF I
      <4> QED BY <2>0, <3>1
    <3> HIDE DEF V
    <3> QED BY <1>2, <3>2
  <2>2. ASSUME NEW T \in I, T # {} /\ F[T \ {Max(T)}] \in V[T \ {Max(T)}]
        PROVE  F[T] \in V[T]
    <3>1. F[T] = Rechained(F[T \ {Max(T)}], s[Max(T)])
      BY <1>1, <2>0, <2>2
    <3> HIDE DEF V, I, W
    <3> QED BY <1>3, <2>2, <3>1
  <2> HIDE DEF V
  <2>3. FoldKeeps(F, n, V)
    BY <1>1, <2>1, <2>2 DEF FoldKeeps
  <2> HIDE DEF n
  <2> QED BY <2>3, FoldSolution
<1>10. Parts(s, 1 .. n) = D
  BY <1>1 DEF Parts
<1> DEFINE g == F[1 .. n]
<1>11. Typed(g) /\ SameButChains(m, g) /\ Hung(g, Parts(s, 1 .. n))
  <2>1. 1 .. n \in I
    OBVIOUS
  <2> QED BY <1>9, <2>1
<1> QED BY <1>1, <1>8, <1>10, <1>11
\* The new table has no chains and changes nothing else (HashmapGrowBucket).
LEMMA NewTableEmpty ==
    ASSUME NEW m, Typed(m)
    PROVE  LET g == NewTable(m)
           IN  Typed(g) /\ SameButTable(m, g) /\ Hung(g, {}) /\ g.nSize # 0
<1> DEFINE size == IF m.nSize < 1 THEN FirstSize ELSE 2 * m.nSize
           g == NewTable(m)
           D == DOMAIN m.node
<1>0. m \in Arrays(D, m.nSize) /\ m.nSize \in Nat /\ D \in SUBSET Nodes
  BY DEF Typed
<1>1. size \in Nat /\ size # 0
  BY <1>0, HashmapAssumption
<1>2. g = [m EXCEPT !.nSize = size, !.apBucket = [b \in 0 .. size - 1 |-> Nil]]
  BY DEF NewTable
<1> HIDE DEF size, g
<1>3. [b \in 0 .. size - 1 |-> Nil] \in [0 .. size - 1 -> Ptr]
  BY DEF Ptr
<1>4. /\ g.node = m.node /\ g.apBucket = [b \in 0 .. size - 1 |-> Nil]
      /\ g.pFirst = m.pFirst /\ g.pLast = m.pLast /\ g.pCur = m.pCur
      /\ g.nSize = size /\ g.nEntry = m.nEntry /\ g.iNextIdx = m.iNextIdx
  BY <1>0, <1>2 DEF Arrays
<1>5. g \in Arrays(D, size)
  BY <1>0, <1>2, <1>3 DEF Arrays
<1>6. Typed(g) /\ SameButTable(m, g)
  BY <1>0, <1>1, <1>4, <1>5 DEF Typed, SameButTable
<1>7. ASSUME NEW b \in 0 .. size - 1 PROVE Hangs(g, {}, b, <<>>)
  <2>1. IsOrder(<<>>, {})
    BY DEF IsOrder, Items, Distinct
  <2>2. InBucket(g, {}, b) = {} /\ At(<<>>, 1) = Nil
    BY DEF InBucket, At
  <2>3. Strung(<<>>, Col(g, "nextC"), Col(g, "prevC"))
    BY DEF Strung
  <2> QED BY <1>4, <1>7, <2>1, <2>2, <2>3 DEF Hangs
<1>8. Hung(g, {})
  BY <1>4, <1>7 DEF Hung
<1> QED BY <1>1, <1>4, <1>6, <1>8 DEF g

\* The table grown or not, every node hangs in it.
LEMMA GrowBucketHung ==
    ASSUME NEW m, Typed(m), NEW s, Threaded(m, s), Hung(m, DOMAIN m.node), NEW mem
    PROVE  LET g == HashmapGrowBucket(m, mem)
           IN  /\ Typed(g) /\ SameButTable(m, g) /\ Hung(g, DOMAIN m.node)
               /\ m.nSize # 0 \/ mem = TRUE => g.nSize # 0
<1> DEFINE k == NewTable(m)
           g == FoldLeft(Rechained, k, Entries(m))
<1>1. Typed(k) /\ SameButTable(m, k) /\ Hung(k, {}) /\ k.nSize # 0 /\ DOMAIN k.node = DOMAIN m.node
  BY NewTableEmpty DEF SameButTable
<1>2. Entries(m) = s /\ IsOrder(s, DOMAIN m.node)
  BY EntriesListed DEF Threaded
<1>3. Typed(g) /\ SameButChains(k, g) /\ Hung(g, DOMAIN m.node)
  <2> HIDE DEF k
  <2> QED BY <1>1, <1>2, AllRechained
<1>4. SameButTable(m, g) /\ g.nSize # 0
  <2>1. SameButTable(k, g) /\ g.nSize = k.nSize
    BY <1>3, SameTable DEF SameButChains, SameHead
  <2> HIDE DEF k, g
  <2> QED BY <1>1, <2>1, SameTableTransitive
<1>5. SameButTable(m, m)
  BY DEF SameButTable
<1> HIDE DEF k, g
<1>6. HashmapGrowBucket(m, mem) = m \/ HashmapGrowBucket(m, mem) = g
  BY DEF HashmapGrowBucket, g, k
<1>7. m.nSize = 0 /\ mem = TRUE => HashmapGrowBucket(m, mem) = g
  <2>1. m.nEntry \in Nat /\ 0 * FillFactor = 0
    BY HashmapAssumption DEF Typed, Arrays
  <2> QED BY <2>1 DEF HashmapGrowBucket, g, k
<1> QED BY <1>3, <1>4, <1>5, <1>6, <1>7

-----------------------------------------------------------------------------
(* A node linked into both structures, and taken out of them.                *)

\* The chains of S depend on the buckets and on the hash and chain links of S.
LEMMA HungStill ==
    ASSUME NEW m, NEW g, NEW S, Hung(m, S), g.nSize = m.nSize,
           \A b \in 0 .. m.nSize - 1 : g.apBucket[b] = m.apBucket[b],
           \A y \in S : /\ y \in DOMAIN m.node /\ y \in DOMAIN g.node
                        /\ g.node[y].hash = m.node[y].hash
                        /\ g.node[y].nextC = m.node[y].nextC
                        /\ g.node[y].prevC = m.node[y].prevC
    PROVE  Hung(g, S)
<1> SUFFICES ASSUME NEW b \in 0 .. m.nSize - 1 PROVE \E s : Hangs(g, S, b, s)
  BY DEF Hung
<1>1. PICK s : Hangs(m, S, b, s)
  BY DEF Hung
<1>2. InBucket(g, S, b) = InBucket(m, S, b)
  BY DEF InBucket, Bucket
<1>3. \A y \in InBucket(m, S, b) : y \in S
  BY DEF InBucket
<1>4. Hangs(g, S, b, s)
  BY <1>1, <1>2, <1>3, HangsStill
<1> QED BY <1>4

\* All the nodes but p, which is not linked yet.
Loose(m, s, p) ==
    /\ Typed(m) /\ p \in DOMAIN m.node /\ m.nSize # 0
    /\ IsOrder(s, DOMAIN m.node \ {p}) /\ m.nEntry = Len(s)
    /\ m.pFirst = At(s, 1) /\ m.pLast = At(s, Len(s))
    /\ Strung(s, Col(m, "prev"), Col(m, "next"))
    /\ Hung(m, DOMAIN m.node \ {p})
    /\ m.node[p].next = Nil /\ m.node[p].prev = Nil /\ m.node[p].prevC = Nil

\* HashmapNodeLink makes the node the last entry and hangs it in its bucket.
LEMMA NodeLinked ==
    ASSUME NEW m, NEW s, NEW p, Loose(m, s, p)
    PROVE  LET k == HashmapNodeLink(m, p)
           IN  /\ Typed(k) /\ Listed(k, Append(s, p)) /\ Hung(k, DOMAIN m.node)
               /\ DOMAIN k.node = DOMAIN m.node /\ k.nSize = m.nSize /\ k.iNextIdx = m.iNextIdx
               /\ k.pCur = (IF Len(s) = 0 THEN p ELSE m.pCur)
               /\ \A q \in DOMAIN m.node, f \in {"key", "hash", "val"} : k.node[q][f] = m.node[q][f]
<1> DEFINE D == DOMAIN m.node
           S == D \ {p}
           g == Chained(m, p, Bucket(m, m.node[p].hash))
           g1 == Set(g, m.pLast, "prev", p)
           g2 == Set(g1, p, "next", m.pLast)
           k == HashmapNodeLink(m, p)
           n == Len(s)
           last == At(s, n)
<1>0. /\ Typed(m) /\ p \in D /\ m.nSize # 0 /\ IsOrder(s, S) /\ m.nEntry = n /\ m.pFirst = At(s, 1)
      /\ m.pLast = last /\ Strung(s, Col(m, "prev"), Col(m, "next")) /\ Hung(m, S)
      /\ m.node[p].next = Nil /\ m.node[p].prev = Nil /\ m.node[p].prevC = Nil
      /\ D \subseteq Nodes /\ Nil \notin D /\ p # Nil /\ p \in Ptr /\ Nil \in Ptr
  BY HashmapAssumption DEF Loose, Typed, Ptr
<1>1. Typed(g) /\ SameButChains(m, g) /\ Hung(g, D)
  <2>1. S \in SUBSET D /\ p \in D \ S /\ S \cup {p} = D
    BY <1>0
  <2>2. m.node[p].prevC = Nil /\ Hung(m, S) /\ Typed(m) /\ m.nSize # 0
    BY <1>0
  <2> HIDE DEF S, D
  <2>3. Typed(g) /\ SameButChains(m, g) /\ Hung(g, S \cup {p})
    BY <2>1, <2>2, ChainedHung DEF D
  <2> HIDE DEF g
  <2> QED BY <2>1, <2>3
<1>2. /\ n \in Nat /\ last \in S \cup {Nil} /\ last \in Ptr
      /\ (last = Nil <=> n = 0) /\ (At(s, 1) = Nil <=> n = 0)
  <2>1. n \in Nat /\ Nil \notin S
    BY <1>0, OrderFacts
  <2>2. \A i \in Int : At(s, i) \in S \cup {Nil} /\ (At(s, i) = Nil <=> i \notin 1 .. n)
    <3> HIDE DEF S
    <3> QED BY <1>0, <2>1, AtTyped
  <2> QED BY <1>0, <2>1, <2>2 DEF Ptr
<1> HIDE DEF g, last
<1>3. SameHead(m, g) /\ DOMAIN g.node = D
      /\ \A q \in D, f \in Fields \ {"nextC", "prevC"} : g.node[q][f] = m.node[q][f]
  BY <1>1 DEF SameButChains, SameHead
<1>4. Linking(g, g1, last, "prev", p)
  <2>1. last \in D \cup {Nil}
    BY <1>2
  <2> QED BY <1>0, <1>1, <1>3, <2>1, SetLinks DEF LinkFields
<1>5. Linking(g1, g2, p, "next", last)
  <2>1. p \in DOMAIN g1.node /\ Typed(g1)
    BY <1>0, <1>3, <1>4 DEF Linking, SameHead
  <2> HIDE DEF g1
  <2> QED BY <1>0, <1>2, <2>1, SetLinks DEF LinkFields
\* What both branches come to.
<1>6. /\ Typed(k) /\ DOMAIN k.node = D /\ k.nSize = m.nSize /\ k.iNextIdx = m.iNextIdx
      /\ k.pFirst = (IF n = 0 THEN p ELSE m.pFirst) /\ k.pLast = p /\ k.nEntry = n + 1
      /\ k.pCur = (IF n = 0 THEN p ELSE m.pCur) /\ k.apBucket = g.apBucket
      /\ \A q \in D, f \in Fields :
             k.node[q][f] = IF q = p /\ f = "next" THEN last
                            ELSE IF q = last /\ f = "prev" THEN p ELSE g.node[q][f]
  <2>1. CASE n = 0
    <3>1. last = Nil /\ g.pFirst = Nil /\ g.nEntry = n
      BY <1>0, <1>2, <1>3, <2>1 DEF SameHead
    <3>2. k = [g EXCEPT !.pFirst = p, !.pLast = p, !.pCur = p, !.nEntry = @ + 1]
      BY <3>1 DEF HashmapNodeLink, g
    <3>3. g \in Arrays(D, m.nSize) /\ m.nSize \in Nat /\ D \in SUBSET Nodes
      BY <1>1, <1>3 DEF Typed, SameHead
    <3> HIDE DEF k
    <3>4. k \in Arrays(D, m.nSize)
      <4>1. g.nEntry + 1 \in Nat /\ p \in Ptr
        BY <1>0, <1>2, <3>1
      <4> HIDE DEF D
      <4> QED BY <3>2, <3>3, <4>1 DEF Arrays
    <3>5. /\ k.pFirst = p /\ k.pLast = p /\ k.pCur = p /\ k.nEntry = n + 1 /\ k.node = g.node
          /\ k.apBucket = g.apBucket /\ k.nSize = g.nSize /\ k.iNextIdx = g.iNextIdx
      BY <3>1, <3>2, <3>3 DEF Arrays
    <3>6. Typed(k)
      BY <1>3, <3>3, <3>4, <3>5 DEF Typed, SameHead
    <3>7. \A q \in D, f \in Fields :
             k.node[q][f] = IF q = p /\ f = "next" THEN last
                            ELSE IF q = last /\ f = "prev" THEN p ELSE g.node[q][f]
      <4>1. g.node[p].next = Nil /\ \A q \in D : q # last
        BY <1>0, <1>3, <3>1 DEF Fields, LinkFields
      <4> QED BY <3>1, <3>5, <4>1
    <3> QED BY <1>3, <2>1, <3>5, <3>6, <3>7 DEF SameHead
  <2>2. CASE n # 0
    <3>1. last # Nil /\ g.pFirst # Nil /\ g.nEntry = n /\ g.pLast = last
      BY <1>0, <1>2, <1>3, <2>2 DEF SameHead
    <3>2. k = [g1 EXCEPT !.node[p].next = last, !.pLast = p, !.nEntry = @ + 1]
      BY <1>0, <3>1 DEF HashmapNodeLink, g
    <3>3. g2 = [g1 EXCEPT !.node[p]["next"] = last]
      BY <1>0 DEF Set
    <3>4. g1 \in Arrays(D, m.nSize) /\ m.nSize \in Nat /\ D \in SUBSET Nodes
      BY <1>3, <1>4 DEF Linking, Typed, SameHead
    <3> HIDE DEF k, g1, g2
    <3>5. k = [g2 EXCEPT !.pLast = p, !.nEntry = @ + 1]
      BY <3>2, <3>3, <3>4 DEF Arrays
    <3>6. g2 \in Arrays(D, m.nSize)
      BY <1>3, <1>4, <1>5 DEF Linking, Typed, SameHead
    <3>7. k \in Arrays(D, m.nSize)
      <4>1. g2.nEntry + 1 \in Nat /\ p \in Ptr
        BY <1>0, <3>6 DEF Arrays
      <4> HIDE DEF D
      <4> QED BY <3>5, <3>6, <4>1 DEF Arrays
    <3>8. /\ k.pFirst = g2.pFirst /\ k.pLast = p /\ k.pCur = g2.pCur /\ k.nEntry = g2.nEntry + 1
          /\ k.node = g2.node /\ k.apBucket = g2.apBucket /\ k.nSize = g2.nSize
          /\ k.iNextIdx = g2.iNextIdx
      BY <3>5, <3>6 DEF Arrays
    <3>9. SameHead(m, g2) /\ g2.apBucket = g.apBucket
      BY <1>3, <1>4, <1>5 DEF Linking, SameHead
    <3>10. Typed(k) /\ DOMAIN k.node = D
      BY <3>4, <3>7, <3>8, <3>9 DEF Typed, SameHead
    <3>11. \A q \in D, f \in Fields :
             k.node[q][f] = IF q = p /\ f = "next" THEN last
                            ELSE IF q = last /\ f = "prev" THEN p ELSE g.node[q][f]
      BY <1>3, <1>4, <1>5, <3>8 DEF Linking, SameHead
    <3> QED BY <1>0, <2>2, <3>8, <3>9, <3>10, <3>11 DEF SameHead
  <2> QED BY <2>1, <2>2
<1> HIDE DEF k, g1, g2
<1>7. /\ \A q \in D : k.node[q].hash = g.node[q].hash /\ k.node[q].nextC = g.node[q].nextC
                      /\ k.node[q].prevC = g.node[q].prevC
      /\ \A q \in D : k.node[q].prev = IF q = last THEN p ELSE m.node[q].prev
      /\ \A q \in D : k.node[q].next = IF q = p THEN last ELSE m.node[q].next
  BY <1>3, <1>6 DEF Fields, LinkFields
<1>8. Hung(k, D)
  <2>1. k.nSize = g.nSize
    BY <1>3, <1>6 DEF SameHead
  <2> QED BY <1>1, <1>3, <1>6, <1>7, <2>1, HungStill
<1>9. LinkedLast(S, s, p, Col(m, "prev"), Col(m, "next"), Col(k, "prev"), Col(k, "next"))
  <2>1. p # last /\ Nil \notin S /\ p \notin S
    BY <1>0, <1>2
  <2>2. Col(k, "prev")[p] = Nil /\ Col(k, "next")[p] = last
    BY <1>0, <1>6, <1>7, <2>1 DEF Col
  <2>3. \A y \in S : /\ Col(k, "next")[y] = Col(m, "next")[y]
                     /\ Col(k, "prev")[y] = IF y = last THEN p ELSE Col(m, "prev")[y]
    BY <1>6, <1>7 DEF Col
  <2> HIDE DEF S
  <2> QED BY <1>0, <2>1, <2>2, <2>3 DEF LinkedLast, last
<1>10. /\ IsOrder(Append(s, p), D) /\ Strung(Append(s, p), Col(k, "prev"), Col(k, "next"))
  <2>1. S \cup {p} = D
    BY <1>0
  <2> HIDE DEF S
  <2> QED BY <1>9, <2>1, LastStrung
<1>11. Len(Append(s, p)) = n + 1 /\ At(Append(s, p), n + 1) = p
       /\ At(Append(s, p), 1) = IF n = 0 THEN p ELSE At(s, 1)
  <2>1. s \in Seq(D)
    BY <1>0, OrderFacts
  <2>2. Len(Append(s, p)) = n + 1 /\ Append(s, p)[n + 1] = p /\ \A i \in 1 .. n : Append(s, p)[i] = s[i]
    BY <1>0, <1>2, <2>1, AppendProperties
  <2> QED BY <1>2, <2>2 DEF At
<1>12. Listed(k, Append(s, p))
  BY <1>0, <1>6, <1>10, <1>11 DEF Listed, Threaded
<1>13. \A q \in D, f \in {"key", "hash", "val"} : k.node[q][f] = m.node[q][f]
  BY <1>3, <1>6 DEF Fields, LinkFields
<1> QED BY <1>6, <1>8, <1>12, <1>13 DEF k

\* The links of an array, its entries in the order s.
Whole(m, s) ==
    /\ Typed(m) /\ Listed(m, s) /\ Hung(m, DOMAIN m.node)
    /\ DOMAIN m.node # {} => m.nSize # 0
    /\ m.pCur \in DOMAIN m.node \cup {Nil}

SameData(m, g, S) == \A q \in S, f \in {"key", "hash", "val"} : g.node[q][f] = m.node[q][f]

\* An array without entries and table.
LEMMA FreedWhole ==
    ASSUME NEW m, Typed(m)
    PROVE  /\ Whole(TableFreed(m), <<>>) /\ DOMAIN TableFreed(m).node = {}
           /\ TableFreed(m).iNextIdx = m.iNextIdx /\ TableFreed(m).pCur = Nil
<1> DEFINE g == TableFreed(m)
<1>1. m.iNextIdx \in Int
  BY DEF Typed, Arrays
<1>2. /\ g.node = <<>> /\ g.pFirst = Nil /\ g.pLast = Nil /\ g.pCur = Nil /\ g.apBucket = <<>>
      /\ g.nSize = 0 /\ g.nEntry = 0 /\ g.iNextIdx = m.iNextIdx
  BY DEF TableFreed, PH7_NewHashmap
<1>3. DOMAIN g.node = {}
  BY <1>2
<1>4. g \in Arrays({}, 0)
  <2>1. g = [node |-> <<>>, pFirst |-> Nil, pLast |-> Nil, pCur |-> Nil, apBucket |-> <<>>,
             nSize |-> 0, nEntry |-> 0, iNextIdx |-> m.iNextIdx]
    BY DEF TableFreed, PH7_NewHashmap
  <2>2. <<>> \in [{} -> Cell] /\ <<>> \in [0 .. 0 - 1 -> Ptr] /\ Nil \in Ptr
    BY DEF Ptr
  <2> HIDE DEF g
  <2> QED BY <1>1, <2>1, <2>2 DEF Arrays
<1> HIDE DEF g
<1>5. Typed(g)
  BY <1>2, <1>3, <1>4 DEF Typed
<1>6. IsOrder(<<>>, {}) /\ At(<<>>, 1) = Nil /\ At(<<>>, 0) = Nil /\ Len(<<>>) = 0
      /\ Strung(<<>>, Col(g, "prev"), Col(g, "next"))
  BY DEF IsOrder, Items, Distinct, At, Strung
<1>7. Listed(g, <<>>)
  BY <1>2, <1>3, <1>6 DEF Listed, Threaded
<1>8. Hung(g, {})
  BY <1>2 DEF Hung
<1> QED BY <1>2, <1>3, <1>5, <1>7, <1>8 DEF Whole, g

\* r is m without its k-th entry.
Removed(m, r, s, k) ==
    /\ Whole(r, Less(s, k)) /\ DOMAIN r.node = DOMAIN m.node \ {s[k]}
    /\ r.iNextIdx = m.iNextIdx /\ SameData(m, r, DOMAIN m.node \ {s[k]})
    /\ r.pCur = IF m.pCur = s[k] THEN At(s, k + 1) ELSE m.pCur

\* PH7_HashmapUnlinkNode takes one entry out of both structures; the cursor
\* moves to the entry after it, and the table is freed with the last entry.
LEMMA NodeUnlinked ==
    ASSUME NEW m, NEW s, Whole(m, s), NEW k \in 1 .. Len(s)
    PROVE  Removed(m, PH7_HashmapUnlinkNode(m, s[k]), s, k)
<1> DEFINE D == DOMAIN m.node
           p == s[k]
           n == Len(s)
           t == Less(s, k)
           d == At(s, k + 1)
           e == At(s, k - 1)
           c == Unchained(m, p)
           g1 == Set(c, d, "next", e)
           g == Set(g1, e, "prev", d)
           u == [g EXCEPT !.pFirst = IF @ = p THEN d ELSE @,
                          !.pCur   = IF @ = p THEN d ELSE @,
                          !.pLast  = IF @ = p THEN e ELSE @,
                          !.node   = Restrict(@, DOMAIN @ \ {p}),
                          !.nEntry = @ - 1]
           r == PH7_HashmapUnlinkNode(m, p)
<1>0. /\ Typed(m) /\ IsOrder(s, D) /\ m.nEntry = n /\ m.pFirst = At(s, 1) /\ m.pLast = At(s, n)
      /\ Strung(s, Col(m, "prev"), Col(m, "next")) /\ Hung(m, D)
      /\ D \subseteq Nodes /\ Nil \notin D /\ m.pCur \in D \cup {Nil}
  BY HashmapAssumption DEF Whole, Listed, Threaded, Typed
<1>1. /\ n \in Nat /\ p \in D /\ m.nSize # 0 /\ p # Nil
      /\ \A i, j \in 1 .. n : s[i] = s[j] => i = j
  <2>1. n \in Nat /\ p \in D /\ \A i, j \in 1 .. n : s[i] = s[j] => i = j
    BY <1>0, OrderFacts
  <2> QED BY <1>0, <2>1 DEF Whole
<1>2. m.node[p].prev = d /\ m.node[p].next = e
  BY <1>0, <1>1 DEF Strung, Col
<1>3. d \in D \cup {Nil} /\ e \in D \cup {Nil} /\ d # p /\ e # p /\ d \in Ptr /\ e \in Ptr
  <2>1. d \in D \cup {Nil} /\ e \in D \cup {Nil}
    <3>1. k + 1 \in Int /\ k - 1 \in Int
      OBVIOUS
    <3> QED BY <1>0, <3>1, AtTyped
  <2>2. d # p /\ e # p
    BY <1>1 DEF At
  <2> QED BY <1>0, <2>1, <2>2 DEF Ptr
<1>4. (At(s, 1) = p <=> k = 1) /\ (At(s, n) = p <=> k = n)
  <2>1. 1 \in 1 .. n /\ n \in 1 .. n
    BY <1>1
  <2> QED BY <1>1, <2>1 DEF At
<1>5. /\ IsOrder(t, D \ {p}) /\ Len(t) = n - 1
      /\ \A i \in Nat : At(t, i) = IF i < k THEN At(s, i) ELSE At(s, i + 1)
  BY <1>0, LessOrder
<1>6. /\ At(t, 1) = (IF k = 1 THEN d ELSE At(s, 1))
      /\ At(t, n - 1) = IF k = n THEN e ELSE At(s, n)
  <2>1. 1 < k <=> k # 1
    BY <1>1
  <2>2. n - 1 \in Nat /\ (n - 1 < k <=> k = n) /\ (n - 1) + 1 = n
    BY <1>1
  <2> HIDE DEF t
  <2> QED BY <1>5, <2>1, <2>2
<1>7. r = IF u.nEntry < 1 THEN TableFreed(u) ELSE u
  BY <1>2 DEF PH7_HashmapUnlinkNode, EntryAfter
<1>8. Typed(c) /\ SameButChains(m, c) /\ Hung(c, D \ {p})
  BY <1>0, <1>1, UnchainedHung
<1> HIDE DEF c, d, e, t, r
<1>9. SameHead(m, c) /\ DOMAIN c.node = D
      /\ \A q \in D, f \in Fields \ {"nextC", "prevC"} : c.node[q][f] = m.node[q][f]
  BY <1>8 DEF SameButChains, SameHead
<1>10. Linking(c, g1, d, "next", e)
  BY <1>3, <1>8, <1>9, SetLinks DEF LinkFields
<1>11. Linking(g1, g, e, "prev", d)
  <2>1. e \in DOMAIN g1.node \cup {Nil} /\ Typed(g1)
    BY <1>3, <1>9, <1>10 DEF Linking, SameHead
  <2> HIDE DEF g1
  <2> QED BY <1>3, <2>1, SetLinks DEF LinkFields
<1> HIDE DEF g, g1
<1>12. /\ Typed(g) /\ SameHead(m, g) /\ DOMAIN g.node = D /\ g.nSize = m.nSize /\ g.apBucket = c.apBucket
       /\ \A q \in D, f \in Fields :
             g.node[q][f] = IF q = e /\ f = "prev" THEN d
                            ELSE IF q = d /\ f = "next" THEN e ELSE c.node[q][f]
  BY <1>9, <1>10, <1>11 DEF Linking, SameHead
<1>13. g \in Arrays(D, m.nSize) /\ m.nSize \in Nat
  BY <1>12 DEF Typed
<1>14. /\ u.node = [q \in D \ {p} |-> g.node[q]]
       /\ u.pFirst = (IF k = 1 THEN d ELSE At(s, 1)) /\ u.pLast = (IF k = n THEN e ELSE At(s, n))
       /\ u.pCur = (IF m.pCur = p THEN d ELSE m.pCur) /\ u.nEntry = n - 1
       /\ u.nSize = m.nSize /\ u.iNextIdx = m.iNextIdx /\ u.apBucket = c.apBucket
  <2>1. u.node = [q \in D \ {p} |-> g.node[q]]
    BY <1>12, <1>13 DEF Arrays, Restrict
  <2>2. /\ u.pFirst = (IF g.pFirst = p THEN d ELSE g.pFirst) /\ u.pLast = (IF g.pLast = p THEN e ELSE g.pLast)
        /\ u.pCur = (IF g.pCur = p THEN d ELSE g.pCur) /\ u.nEntry = g.nEntry - 1
        /\ u.nSize = g.nSize /\ u.iNextIdx = g.iNextIdx /\ u.apBucket = g.apBucket
    BY <1>13 DEF Arrays
  <2> HIDE DEF u
  <2> QED BY <1>0, <1>4, <1>12, <2>1, <2>2 DEF SameHead
<1>15. u \in Arrays(D \ {p}, m.nSize)
  <2>1. [q \in D \ {p} |-> g.node[q]] \in [D \ {p} -> Cell]
    BY <1>13 DEF Arrays
  <2>2. u = [g EXCEPT !.pFirst = u.pFirst, !.pCur = u.pCur, !.pLast = u.pLast,
                      !.node = u.node, !.nEntry = u.nEntry]
    BY <1>13 DEF Arrays
  <2>3. u.pFirst \in Ptr /\ u.pCur \in Ptr /\ u.pLast \in Ptr /\ u.nEntry \in Nat
    <3>1. At(s, 1) \in Ptr /\ At(s, n) \in Ptr /\ m.pCur \in Ptr
      BY <1>0 DEF Typed, Arrays
    <3>2. n - 1 \in Nat
      BY <1>1
    <3> HIDE DEF u
    <3> QED BY <1>3, <1>14, <3>1, <3>2
  <2> HIDE DEF u
  <2> QED BY <1>13, <1>14, <2>1, <2>2, <2>3 DEF Arrays
<1> HIDE DEF u
<1>16. Typed(u) /\ DOMAIN u.node = D \ {p}
  BY <1>0, <1>13, <1>14, <1>15 DEF Typed
<1>17. \A q \in D \ {p} :
         /\ u.node[q].hash = c.node[q].hash /\ u.node[q].nextC = c.node[q].nextC
         /\ u.node[q].prevC = c.node[q].prevC
         /\ u.node[q].prev = IF q = e THEN d ELSE m.node[q].prev
         /\ u.node[q].next = IF q = d THEN e ELSE m.node[q].next
  BY <1>9, <1>12, <1>14 DEF Fields, LinkFields
<1>18. Hung(u, D \ {p})
  <2>1. u.nSize = c.nSize
    BY <1>9, <1>14 DEF SameHead
  <2> DEFINE S == D \ {p}
  <2>2. \A y \in S : /\ y \in DOMAIN c.node /\ y \in DOMAIN u.node /\ u.node[y].hash = c.node[y].hash
                     /\ u.node[y].nextC = c.node[y].nextC /\ u.node[y].prevC = c.node[y].prevC
    BY <1>9, <1>16, <1>17
  <2>3. Hung(c, S)
    BY <1>8
  <2> HIDE DEF S
  <2>4. \A b \in 0 .. c.nSize - 1 : u.apBucket[b] = c.apBucket[b]
    BY <1>14
  <2>5. Hung(u, S)
    BY <2>1, <2>2, <2>3, <2>4, HungStill
  <2> QED BY <2>5 DEF S
<1>19. Strung(t, Col(u, "prev"), Col(u, "next"))
  <2>1. \A y \in D \ {s[k]} : /\ Col(u, "prev")[y] = IF y = e THEN d ELSE Col(m, "prev")[y]
                              /\ Col(u, "next")[y] = IF y = d THEN e ELSE Col(m, "next")[y]
    BY <1>16, <1>17 DEF Col
  <2>2. LinkedOut(D, s, k, Col(m, "prev"), Col(m, "next"), Col(u, "prev"), Col(u, "next"))
    BY <1>0, <2>1 DEF LinkedOut, d, e
  <2> QED BY <2>2, OutStrung DEF t
<1>20. Listed(u, t)
  BY <1>5, <1>6, <1>14, <1>16, <1>19 DEF Listed, Threaded
<1>21. u.pCur \in DOMAIN u.node \cup {Nil}
  BY <1>0, <1>3, <1>14, <1>16
<1>22. Whole(u, t)
  BY <1>1, <1>14, <1>16, <1>18, <1>20, <1>21 DEF Whole
<1>23. SameData(m, u, D \ {p})
  <2>1. \A q \in D \ {p}, f \in {"key", "hash", "val"} : u.node[q][f] = m.node[q][f]
    BY <1>9, <1>12, <1>14 DEF Fields, LinkFields
  <2> QED BY <2>1 DEF SameData
<1>24. CASE u.nEntry < 1
  <2>1. r = TableFreed(u)
    BY <1>7, <1>24
  <2>2. Len(t) = 0
    BY <1>1, <1>5, <1>14, <1>24
  <2>3. t = <<>> /\ D \ {p} = {}
    <3> DEFINE S == D \ {p}
    <3>1. IsOrder(t, S)
      BY <1>5
    <3> HIDE DEF S
    <3>2. t \in Seq(S) /\ \A x \in S : \E i \in 1 .. Len(t) : t[i] = x
      BY <3>1, OrderFacts
    <3>3. t = <<>> /\ S = {}
      BY <2>2, <3>2, EmptySeq
    <3> QED BY <3>3 DEF S
  <2>4. Whole(r, <<>>) /\ DOMAIN r.node = {} /\ r.iNextIdx = u.iNextIdx /\ r.pCur = Nil
    BY <1>16, <2>1, FreedWhole
  <2>5. SameData(m, r, D \ {p})
    BY <2>3 DEF SameData
  <2>6. u.pCur = Nil
    BY <1>16, <1>21, <2>3
  <2> QED BY <1>14, <2>3, <2>4, <2>5, <2>6 DEF r, t, d, Removed
<1>25. CASE ~(u.nEntry < 1)
  BY <1>7, <1>14, <1>16, <1>22, <1>23, <1>25 DEF r, t, d, Removed
<1> QED BY <1>24, <1>25

-----------------------------------------------------------------------------
(* Insertion.                                                                *)

\* r is m with a new last entry, in node p.
Inserted(m, r, s, p, k, v) ==
    /\ p \in Nodes \ DOMAIN m.node /\ DOMAIN r.node = DOMAIN m.node \cup {p}
    /\ Whole(r, Append(s, p)) /\ SameData(m, r, DOMAIN m.node)
    /\ r.node[p].key = k /\ r.node[p].hash = Hash(k) /\ r.node[p].val = v
    /\ r.iNextIdx = m.iNextIdx /\ r.pCur = IF Len(s) = 0 THEN p ELSE m.pCur

\* Every key has a hash.
LEMMA HashNat ==
    ASSUME NEW k \in Keys
    PROVE  Hash(k) \in Nat
  BY HashmapAssumption DEF Keys

\* A new node, not linked yet, changes nothing but the set of nodes.
LEMMA NodeAdded ==
    ASSUME NEW m, Typed(m), NEW p \in Nodes \ DOMAIN m.node, NEW k \in Keys, NEW v \in Values
    PROVE  LET g == WithNode(m, p, k, v)
           IN  /\ Typed(g) /\ DOMAIN g.node = DOMAIN m.node \cup {p}
               /\ g.pFirst = m.pFirst /\ g.pLast = m.pLast /\ g.pCur = m.pCur /\ g.nSize = m.nSize
               /\ g.nEntry = m.nEntry /\ g.iNextIdx = m.iNextIdx /\ g.apBucket = m.apBucket
               /\ \A q \in DOMAIN m.node : g.node[q] = m.node[q]
               /\ g.node[p].key = k /\ g.node[p].hash = Hash(k) /\ g.node[p].val = v
               /\ g.node[p].next = Nil /\ g.node[p].prev = Nil /\ g.node[p].prevC = Nil
<1> DEFINE D == DOMAIN m.node
           n == [key |-> k, hash |-> Hash(k), val |-> v, next |-> Nil, prev |-> Nil,
                 nextC |-> Nil, prevC |-> Nil]
           g == WithNode(m, p, k, v)
           N == [q \in DOMAIN m.node \cup {p} |-> IF q = p THEN n ELSE m.node[q]]
<1>0. m \in Arrays(D, m.nSize) /\ m.nSize \in Nat /\ D \in SUBSET Nodes
  BY DEF Typed
<1>1. n \in Cell
  BY HashNat DEF Cell, Ptr
<1>2. g = [m EXCEPT !.node = N]
  BY DEF WithNode
<1>3. N \in [D \cup {p} -> Cell] /\ N[p] = n /\ \A q \in D : N[q] = m.node[q]
  <2>1. m.node \in [D -> Cell]
    BY <1>0 DEF Arrays
  <2> HIDE DEF n, D
  <2> QED BY <1>1, <2>1 DEF D
<1> HIDE DEF N, g
<1>4. /\ g.pFirst = m.pFirst /\ g.pLast = m.pLast /\ g.pCur = m.pCur /\ g.nSize = m.nSize
      /\ g.nEntry = m.nEntry /\ g.iNextIdx = m.iNextIdx /\ g.apBucket = m.apBucket /\ g.node = N
  BY <1>0, <1>2 DEF Arrays
<1>5. g \in Arrays(D \cup {p}, m.nSize)
  BY <1>0, <1>2, <1>3 DEF Arrays
<1>6. DOMAIN g.node = D \cup {p}
  BY <1>3, <1>4
<1>7. Typed(g)
  BY <1>0, <1>4, <1>5, <1>6 DEF Typed
<1> QED BY <1>3, <1>4, <1>6, <1>7 DEF g

\* HashmapInsertIntKey, HashmapInsertBlobKey: one entry more, at the end, in a
\* table that may have grown; or, without a table, no change.
LEMMA KeyInserted ==
    ASSUME NEW m, NEW s, Whole(m, s), DOMAIN m.node # Nodes, NEW k \in Keys, NEW v \in Values, NEW mem
    PROVE  LET r == InsertKey(m, k, v, mem)
           IN  (r = m /\ mem # TRUE) \/ \E p : Inserted(m, r, s, p, k, v)
<1> DEFINE D == DOMAIN m.node
           g == HashmapGrowBucket(m, mem)
           p == CHOOSE q \in Nodes : q \notin D
           w == WithNode(g, p, k, v)
           r == HashmapNodeLink(w, p)
<1>0. Typed(m) /\ Listed(m, s) /\ Threaded(m, s) /\ Hung(m, D) /\ m.pCur \in D \cup {Nil} /\ D \subseteq Nodes
  BY DEF Whole, Listed, Typed
<1>1. p \in Nodes \ D
  BY <1>0
<1>2. Typed(g) /\ SameButTable(m, g) /\ Hung(g, D) /\ (mem = TRUE => g.nSize # 0)
  BY <1>0, GrowBucketHung
<1> HIDE DEF g, p
<1>3. InsertKey(m, k, v, mem) = IF g.nSize = 0 THEN m ELSE r
  BY DEF InsertKey, g, p
<1> SUFFICES ASSUME g.nSize # 0 PROVE Inserted(m, r, s, p, k, v)
  BY <1>2, <1>3
<1>4. DOMAIN g.node = D
  BY <1>2 DEF SameButTable
<1>5. Listed(g, s)
  BY <1>0, <1>2, SameThreaded
<1>6. /\ Typed(w) /\ DOMAIN w.node = D \cup {p}
      /\ w.pFirst = g.pFirst /\ w.pLast = g.pLast /\ w.pCur = g.pCur /\ w.nSize = g.nSize
      /\ w.nEntry = g.nEntry /\ w.iNextIdx = g.iNextIdx /\ w.apBucket = g.apBucket
      /\ \A q \in D : w.node[q] = g.node[q]
      /\ w.node[p].key = k /\ w.node[p].hash = Hash(k) /\ w.node[p].val = v
      /\ w.node[p].next = Nil /\ w.node[p].prev = Nil /\ w.node[p].prevC = Nil
  BY <1>1, <1>2, <1>4, NodeAdded
<1> HIDE DEF w, r
<1>7. Loose(w, s, p)
  <2>1. DOMAIN w.node \ {p} = D /\ p \in DOMAIN w.node
    BY <1>1, <1>6
  <2>2. IsOrder(s, D) /\ \A i \in 1 .. Len(s) : s[i] \in D
    BY <1>4, <1>5, OrderFacts DEF Listed, Threaded
  <2>3. Strung(s, Col(w, "prev"), Col(w, "next"))
    BY <1>4, <1>5, <1>6, <2>2 DEF Listed, Threaded, Strung, Col
  <2>4. Hung(w, D)
    BY <1>2, <1>4, <1>6, HungStill
  <2> QED BY <1>5, <1>6, <2>1, <2>2, <2>3, <2>4 DEF Loose, Listed, Threaded
<1>8. /\ Typed(r) /\ Listed(r, Append(s, p)) /\ Hung(r, DOMAIN w.node)
      /\ DOMAIN r.node = DOMAIN w.node /\ r.nSize = w.nSize /\ r.iNextIdx = w.iNextIdx
      /\ r.pCur = (IF Len(s) = 0 THEN p ELSE w.pCur)
      /\ \A q \in DOMAIN w.node, f \in {"key", "hash", "val"} : r.node[q][f] = w.node[q][f]
  BY <1>7, NodeLinked DEF r
<1>9. Whole(r, Append(s, p))
  <2>1. g.pCur = m.pCur
    BY <1>2 DEF SameButTable
  <2> QED BY <1>0, <1>6, <1>8, <2>1 DEF Whole
<1>10. SameData(m, r, D)
  <2>1. \A q \in D, f \in {"key", "hash", "val"} : g.node[q][f] = m.node[q][f]
    BY <1>2 DEF SameButTable, Fields, LinkFields
  <2> QED BY <1>6, <1>8, <2>1 DEF SameData
<1>11. r.node[p].key = k /\ r.node[p].hash = Hash(k) /\ r.node[p].val = v
  BY <1>6, <1>8
<1>12. r.iNextIdx = m.iNextIdx /\ r.pCur = IF Len(s) = 0 THEN p ELSE m.pCur
  BY <1>2, <1>6, <1>8 DEF SameButTable
<1> QED BY <1>1, <1>6, <1>8, <1>9, <1>10, <1>11, <1>12 DEF Inserted

-----------------------------------------------------------------------------
(* Assignments that leave the links alone.                                   *)

\* What is assigned besides the links leaves them intact.
LEMMA SameLinks ==
    ASSUME NEW m, NEW s, Whole(m, s), NEW g, Typed(g), g.node = m.node, g.apBucket = m.apBucket,
           g.nSize = m.nSize, g.pFirst = m.pFirst, g.pLast = m.pLast, g.nEntry = m.nEntry,
           g.pCur \in DOMAIN m.node \cup {Nil}
    PROVE  Whole(g, s)
<1>1. Hung(m, DOMAIN m.node) /\ Listed(m, s) /\ (DOMAIN m.node # {} => m.nSize # 0)
  BY DEF Whole
<1>2. Hung(g, DOMAIN m.node)
  BY <1>1, HungStill
<1>3. Listed(g, s)
  BY <1>1 DEF Listed, Threaded, Col
<1> QED BY <1>1, <1>2, <1>3 DEF Whole

\* The automatic index assigned.
LEMMA IndexSet ==
    ASSUME NEW m, NEW s, Whole(m, s), NEW x \in Int
    PROVE  LET g == [m EXCEPT !.iNextIdx = x]
           IN  Whole(g, s) /\ g.node = m.node /\ g.iNextIdx = x /\ g.pCur = m.pCur
<1> DEFINE g == [m EXCEPT !.iNextIdx = x]
<1>1. m \in Arrays(DOMAIN m.node, m.nSize) /\ Typed(m) /\ m.pCur \in DOMAIN m.node \cup {Nil}
  BY DEF Whole, Typed
<1>2. /\ g \in Arrays(DOMAIN m.node, m.nSize)
      /\ g.node = m.node /\ g.apBucket = m.apBucket /\ g.nSize = m.nSize /\ g.pFirst = m.pFirst
      /\ g.pLast = m.pLast /\ g.nEntry = m.nEntry /\ g.pCur = m.pCur /\ g.iNextIdx = x
  BY <1>1 DEF Arrays
<1> HIDE DEF g
<1>3. Typed(g)
  BY <1>1, <1>2 DEF Typed
<1>4. Whole(g, s)
  BY <1>1, <1>2, <1>3, SameLinks
<1> QED BY <1>2, <1>4 DEF g

\* The cursor assigned (array_pop, reset, next).
LEMMA CursorSet ==
    ASSUME NEW m, NEW s, Whole(m, s), NEW q \in DOMAIN m.node \cup {Nil}
    PROVE  LET g == [m EXCEPT !.pCur = q]
           IN  Whole(g, s) /\ g.node = m.node /\ g.iNextIdx = m.iNextIdx /\ g.pFirst = m.pFirst /\ g.pCur = q
<1> DEFINE g == [m EXCEPT !.pCur = q]
<1>1. m \in Arrays(DOMAIN m.node, m.nSize) /\ Typed(m) /\ q \in Ptr
  BY DEF Whole, Typed, Ptr
<1>2. /\ g \in Arrays(DOMAIN m.node, m.nSize)
      /\ g.node = m.node /\ g.apBucket = m.apBucket /\ g.nSize = m.nSize /\ g.pFirst = m.pFirst
      /\ g.pLast = m.pLast /\ g.nEntry = m.nEntry /\ g.pCur = q /\ g.iNextIdx = m.iNextIdx
  BY <1>1 DEF Arrays
<1> HIDE DEF g
<1>3. Typed(g)
  BY <1>1, <1>2 DEF Typed
<1>4. Whole(g, s)
  BY <1>2, <1>3, SameLinks
<1> QED BY <1>2, <1>4 DEF g

\* The value of an entry overwritten.
LEMMA ValueSet ==
    ASSUME NEW m, NEW s, Whole(m, s), NEW p \in DOMAIN m.node, NEW v \in Values
    PROVE  LET g == [m EXCEPT !.node[p].val = v]
           IN  /\ Whole(g, s) /\ DOMAIN g.node = DOMAIN m.node /\ g.iNextIdx = m.iNextIdx
               /\ \A q \in DOMAIN m.node : g.node[q].key = m.node[q].key /\ g.node[q].hash = m.node[q].hash
               /\ g.pCur = m.pCur /\ \A q \in DOMAIN m.node : g.node[q].val = IF q = p THEN v ELSE m.node[q].val
<1> DEFINE g == [m EXCEPT !.node[p].val = v]
           D == DOMAIN m.node
           c == [m.node[p] EXCEPT !.val = v]
<1>1. m \in Arrays(D, m.nSize) /\ Typed(m) /\ Listed(m, s) /\ Hung(m, D)
      /\ (D # {} => m.nSize # 0) /\ m.pCur \in D \cup {Nil}
  BY DEF Whole, Typed
<1>2. m.node \in [D -> Cell]
  BY <1>1 DEF Arrays
<1>3. c \in Cell /\ \A f \in Fields \ {"val"} : c[f] = m.node[p][f]
  BY <1>2 DEF Cell, Fields, LinkFields
<1>4. /\ g.node = [m.node EXCEPT ![p] = c]
      /\ g.apBucket = m.apBucket /\ g.nSize = m.nSize /\ g.pFirst = m.pFirst /\ g.pLast = m.pLast
      /\ g.nEntry = m.nEntry /\ g.pCur = m.pCur /\ g.iNextIdx = m.iNextIdx
      /\ g = [m EXCEPT !.node = [m.node EXCEPT ![p] = c]]
  BY <1>1 DEF Arrays
<1> HIDE DEF c, g
<1>5. [m.node EXCEPT ![p] = c] \in [D -> Cell]
  BY <1>2, <1>3
<1>6. g \in Arrays(D, m.nSize)
  BY <1>1, <1>4, <1>5 DEF Arrays
<1>7. DOMAIN g.node = D /\ Typed(g)
  BY <1>1, <1>2, <1>4, <1>6 DEF Typed
<1>8. \A q \in D, f \in Fields \ {"val"} : g.node[q][f] = m.node[q][f]
  BY <1>2, <1>3, <1>4
<1>9. SameButTable(m, m)
  BY DEF SameButTable
<1>10. /\ \A q \in D : g.node[q].hash = m.node[q].hash /\ g.node[q].key = m.node[q].key
       /\ \A q \in D : g.node[q].nextC = m.node[q].nextC /\ g.node[q].prevC = m.node[q].prevC
       /\ \A q \in D : g.node[q].next = m.node[q].next /\ g.node[q].prev = m.node[q].prev
  BY <1>8 DEF Fields, LinkFields
<1>11. Hung(g, D)
  <2>1. \A b \in 0 .. m.nSize - 1 : g.apBucket[b] = m.apBucket[b]
    BY <1>4
  <2>2. \A y \in D : /\ y \in DOMAIN m.node /\ y \in DOMAIN g.node
                     /\ g.node[y].hash = m.node[y].hash
                     /\ g.node[y].nextC = m.node[y].nextC
                     /\ g.node[y].prevC = m.node[y].prevC
    BY <1>7, <1>10
  <2>3. Hung(m, D) /\ g.nSize = m.nSize
    BY <1>1, <1>4
  <2> HIDE DEF D
  <2> QED BY <2>1, <2>2, <2>3, HungStill
<1>12. Listed(g, s)
  <2>1. \A i \in 1 .. Len(s) : s[i] \in D
    BY <1>1, OrderFacts DEF Listed, Threaded
  <2>2. Strung(s, Col(g, "prev"), Col(g, "next"))
    BY <1>1, <1>7, <1>10, <2>1 DEF Listed, Threaded, Strung, Col
  <2> QED BY <1>1, <1>4, <1>7, <2>2 DEF Listed, Threaded
<1>13. Whole(g, s)
  BY <1>1, <1>4, <1>7, <1>11, <1>12 DEF Whole
<1>14. \A q \in D : g.node[q].val = IF q = p THEN v ELSE m.node[q].val
  <2>1. c.val = v
    BY <1>2 DEF c, Cell
  <2> QED BY <1>2, <1>4, <2>1
<1> QED BY <1>4, <1>7, <1>10, <1>13, <1>14 DEF g

-----------------------------------------------------------------------------
(* Lookup.                                                                   *)

\* A walk of a bucket passes its whole chain, nEntry nodes at most.
LEMMA ChainWalk ==
    ASSUME NEW m, NEW s, Whole(m, s), NEW b, NEW c, Hangs(m, DOMAIN m.node, b, c)
    PROVE  Walk(m, m.apBucket[b], "nextC") = c
<1> DEFINE D == DOMAIN m.node
           R == InBucket(m, D, b)
           nc == "nextC"
<1>1. Nil \notin D /\ m.nEntry \in Nat /\ m.nEntry = Len(s) /\ IsOrder(s, D) /\ IsOrder(c, R)
      /\ m.apBucket[b] = At(c, 1) /\ R \subseteq D
  BY HashmapAssumption DEF Whole, Listed, Threaded, Typed, Arrays, Hangs, InBucket
<1>2. \A i \in 1 .. Len(c) : c[i] \in R
  BY <1>1, OrderFacts
<1>3. \A i \in 1 .. Len(c) : m.node[c[i]][nc] = At(c, i + 1)
  BY <1>1, <1>2 DEF Hangs, Strung, Col
<1>4. Len(c) \in Nat /\ Len(c) <= m.nEntry
  <2> HIDE DEF R, D
  <2>1. IsFiniteSet(D) /\ Cardinality(D) = m.nEntry /\ Cardinality(R) = Len(c) /\ Len(c) \in Nat
    BY <1>1, OrderLength
  <2>2. Cardinality(R) <= Cardinality(D)
    BY <1>1, <2>1, FS_Subset
  <2> QED BY <2>1, <2>2
<1>5. 1 \in 1 .. Len(c) + 1
  BY <1>4
<1>6. Walk(m, At(c, 1), nc) = From(c, 1)
  <2> HIDE DEF R, nc
  <2> QED BY <1>1, <1>3, <1>4, <1>5, WalkOrder
<1>7. From(c, 1) = c
  <2> HIDE DEF R
  <2> QED BY <1>1, FromFirst
<1> QED BY <1>1, <1>6, <1>7

Keyed(m) == \A p \in DOMAIN m.node : m.node[p].hash = Hash(m.node[p].key)

\* A lookup finds the node of the key (HashmapLookup).
LEMMA LookupRight ==
    ASSUME NEW m, NEW s, Whole(m, s), Keyed(m), NEW k, Hash(k) \in Nat
    PROVE  LET p == HashmapLookup(m, k)
           IN  /\ p # Nil => p \in DOMAIN m.node /\ m.node[p].key = k
               /\ p = Nil => \A q \in DOMAIN m.node : m.node[q].key # k
<1> DEFINE D == DOMAIN m.node
           b == Bucket(m, Hash(k))
           chain == IF m.nEntry < 1 THEN <<>> ELSE Walk(m, m.apBucket[b], "nextC")
           hits == {i \in DOMAIN chain : m.node[chain[i]].hash = Hash(k) /\ m.node[chain[i]].key = k}
           p == HashmapLookup(m, k)
<1>0. Typed(m) /\ IsOrder(s, D) /\ m.nEntry = Len(s) /\ m.nEntry \in Nat /\ Hung(m, D) /\ Nil \notin D
  BY HashmapAssumption DEF Whole, Listed, Threaded, Typed, Arrays
<1>1. p = IF hits = {} THEN Nil ELSE chain[Min(hits)]
  BY DEF HashmapLookup
<1>2. CASE m.nEntry < 1
  <2>1. D = {}
    BY <1>0, <1>2, OrderFacts
  <2>2. hits = {}
    BY <1>2
  <2> QED BY <1>1, <2>1, <2>2
<1>3. CASE ~(m.nEntry < 1)
  <2>1. m.nSize \in Nat /\ m.nSize # 0 /\ b \in 0 .. m.nSize - 1
    <3>1. 1 \in 1 .. Len(s)
      BY <1>0, <1>3
    <3>2. s[1] \in D
      BY <1>0, <3>1, OrderFacts
    <3>3. m.nSize \in Nat /\ m.nSize # 0
      BY <3>2 DEF Whole, Typed
    <3> QED BY <3>3 DEF Bucket
  <2>2. PICK c : Hangs(m, D, b, c)
    BY <1>0, <2>1 DEF Hung
  <2>3. chain = c
    BY <1>3, <2>2, ChainWalk
  <2> DEFINE R == InBucket(m, D, b)
  <2>4. IsOrder(c, R)
    BY <2>2 DEF Hangs
  <2> HIDE DEF chain, p, R
  <2>5. /\ Len(c) \in Nat /\ c \in Seq(R) /\ \A i \in 1 .. Len(c) : c[i] \in R
        /\ \A x \in R : \E i \in 1 .. Len(c) : c[i] = x
    BY <2>4, OrderFacts
  <2>6. DOMAIN c = 1 .. Len(c)
    BY <2>5, LenProperties
  <2>7. CASE hits = {}
    <3>1. p = Nil
      BY <1>1, <2>7
    <3>2. ASSUME NEW q \in D, m.node[q].key = k PROVE FALSE
      <4>1. m.node[q].hash = Hash(k)
        BY <3>2 DEF Keyed
      <4>2. q \in R
        BY <4>1 DEF R, InBucket
      <4>3. PICK i \in 1 .. Len(c) : c[i] = q
        BY <2>5, <4>2
      <4>4. i \in hits
        BY <2>3, <2>6, <3>2, <4>1, <4>3
      <4> QED BY <2>7, <4>4
    <3>3. \A q \in D : m.node[q].key # k
      BY <3>2
    <3> QED BY <3>1, <3>3 DEF p
  <2>8. CASE hits # {}
    <3>1. hits \subseteq Nat
      BY <2>3, <2>5, <2>6
    <3>2. Min(hits) \in hits
      <4> HIDE DEF hits
      <4>1. PICK x \in hits : \A y \in hits : ~(y < x)
        BY <2>8, <3>1, LeastNat
      <4>2. \A y \in hits : x <= y
        BY <3>1, <4>1
      <4> QED BY <4>1, <4>2 DEF Min
    <3> DEFINE j == Min(hits)
    <3>3. j \in 1 .. Len(c) /\ m.node[c[j]].key = k
      BY <2>3, <2>6, <3>2
    <3>4. p = c[j]
      BY <1>1, <2>3, <2>8
    <3> HIDE DEF j
    <3>5. c[j] \in D
      BY <2>5, <3>3 DEF R, InBucket
    <3>6. p \in D /\ m.node[p].key = k /\ p # Nil
      BY <1>0, <3>3, <3>4, <3>5
    <3> QED BY <3>6 DEF p
  <2> QED BY <2>7, <2>8
<1> QED BY <1>2, <1>3

-----------------------------------------------------------------------------
(* Keys.                                                                     *)

Proper(m) == Keyed(m) /\ \E s : Whole(m, s)
Unique(m) == \A p, q \in DOMAIN m.node : m.node[p].key = m.node[q].key => p = q
Good(m) == Proper(m) /\ Unique(m) /\ ~IndexBehind(m)
KeysOf(m) == {m.node[p].key : p \in DOMAIN m.node}

\* r is m with a new entry of key k.
Added(m, r, k) ==
    /\ Proper(r) /\ r.iNextIdx = m.iNextIdx
    /\ \E p \in Nodes \ DOMAIN m.node :
          /\ DOMAIN r.node = DOMAIN m.node \cup {p} /\ r.node[p].key = k
          /\ \A q \in DOMAIN m.node : r.node[q].key = m.node[q].key

\* The types of a proper array.
LEMMA ProperTyped ==
    ASSUME NEW m, Proper(m)
    PROVE  /\ Typed(m) /\ m.node \in [DOMAIN m.node -> Cell] /\ DOMAIN m.node \subseteq Nodes
           /\ m.iNextIdx \in Int /\ Nil \notin DOMAIN m.node
           /\ \A p \in DOMAIN m.node : /\ m.node[p].key \in Keys /\ m.node[p].val \in Values
<1>1. Typed(m)
  BY DEF Proper, Whole
<1>2. /\ m.node \in [DOMAIN m.node -> Cell] /\ DOMAIN m.node \subseteq Nodes
      /\ m.iNextIdx \in Int /\ Nil \notin DOMAIN m.node
  BY <1>1, HashmapAssumption DEF Typed, Arrays
<1>3. \A p \in DOMAIN m.node : m.node[p].key \in Keys /\ m.node[p].val \in Values
  <2> SUFFICES ASSUME NEW p \in DOMAIN m.node PROVE m.node[p].key \in Keys /\ m.node[p].val \in Values
    OBVIOUS
  <2>1. m.node[p] \in Cell
    BY <1>2
  <2> QED BY <2>1 DEF Cell
<1> QED BY <1>1, <1>2, <1>3

\* A key is an integer or a blob, and not both.
LEMMA KeyKinds ==
    ASSUME NEW k \in Keys
    PROVE  (k \in IntKeys <=> k \in Int) /\ (k \in IntKeys <=> k \notin BlobKeys)
BY HashmapAssumption DEF Keys

\* The same of the keys: an insertion adds its own.
LEMMA KeyAdded ==
    ASSUME NEW m, Proper(m), DOMAIN m.node # Nodes, NEW k \in Keys, NEW v \in Values, NEW mem
    PROVE  LET r == InsertKey(m, k, v, mem) IN r = m \/ Added(m, r, k)
<1> DEFINE r == InsertKey(m, k, v, mem)
<1>1. PICK s : Whole(m, s)
  BY DEF Proper
<1>2. r = m \/ \E p : Inserted(m, r, s, p, k, v)
  BY <1>1, KeyInserted
<1> SUFFICES ASSUME NEW p, Inserted(m, r, s, p, k, v) PROVE Added(m, r, k)
  BY <1>2
<1> HIDE DEF r
<1>3. /\ p \in Nodes \ DOMAIN m.node /\ DOMAIN r.node = DOMAIN m.node \cup {p}
      /\ Whole(r, Append(s, p)) /\ r.node[p].key = k /\ r.node[p].hash = Hash(k)
      /\ r.iNextIdx = m.iNextIdx
  BY DEF Inserted
<1>4. \A q \in DOMAIN m.node : r.node[q].key = m.node[q].key /\ r.node[q].hash = m.node[q].hash
  BY DEF Inserted, SameData
<1>5. Keyed(r)
  BY <1>3, <1>4 DEF Keyed, Proper
<1>6. Proper(r)
  BY <1>3, <1>5 DEF Proper
<1> QED BY <1>3, <1>4, <1>6 DEF Added

\* A key that was absent names no second entry.
LEMMA AddedUnique ==
    ASSUME NEW m, NEW r, NEW k, Added(m, r, k), Unique(m), \A q \in DOMAIN m.node : m.node[q].key # k
    PROVE  Unique(r)
BY DEF Added, Unique

\* The keys after an insertion.
LEMMA AddedKeys ==
    ASSUME NEW m, NEW r, NEW k, Added(m, r, k)
    PROVE  KeysOf(r) = KeysOf(m) \cup {k}
BY DEF Added, KeysOf

\* No entry has the automatic index for a key, or an integer beyond it.
LEMMA IndexFree ==
    ASSUME NEW m, Proper(m), ~IndexBehind(m), NEW k \in Int, k >= m.iNextIdx
    PROVE  \A q \in DOMAIN m.node : m.node[q].key # k
<1> SUFFICES ASSUME NEW q \in DOMAIN m.node, m.node[q].key = k PROVE FALSE
  OBVIOUS
<1>1. m.node[q].key \in Keys
  BY ProperTyped
<1>2. k \in IntKeys
  BY <1>1, KeyKinds
<1> QED BY <1>2 DEF IndexBehind

\* Integer keys below x stay below x if the new one is.
LEMMA AddedAhead ==
    ASSUME NEW m, NEW r, NEW k, Added(m, r, k), Proper(m), ~IndexBehind(m),
           NEW x \in Int, x >= m.iNextIdx, k \in IntKeys => k < x
    PROVE  \A q \in DOMAIN r.node : r.node[q].key \in IntKeys => r.node[q].key < x
<1>1. m.iNextIdx \in Int
  BY ProperTyped
<1>2. \A q \in DOMAIN m.node : m.node[q].key \in IntKeys => m.node[q].key < m.iNextIdx
  <2> SUFFICES ASSUME NEW q \in DOMAIN m.node, m.node[q].key \in IntKeys PROVE m.node[q].key < m.iNextIdx
    OBVIOUS
  <2>1. m.node[q].key \in Int /\ ~(m.node[q].key >= m.iNextIdx)
    BY HashmapAssumption DEF IndexBehind
  <2> QED BY <1>1, <2>1
<1>3. \A q \in DOMAIN m.node : m.node[q].key \in IntKeys => m.node[q].key < x
  <2> SUFFICES ASSUME NEW q \in DOMAIN m.node, m.node[q].key \in IntKeys PROVE m.node[q].key < x
    OBVIOUS
  <2>1. m.node[q].key \in Int /\ m.node[q].key < m.iNextIdx
    BY <1>2, HashmapAssumption
  <2> QED BY <1>1, <2>1
<1> QED BY <1>3 DEF Added

\* LookupRight for a proper array.
LEMMA LookupProper ==
    ASSUME NEW m, Proper(m), NEW k, Hash(k) \in Nat
    PROVE  LET p == HashmapLookup(m, k)
           IN  /\ p # Nil => p \in DOMAIN m.node /\ m.node[p].key = k
               /\ p = Nil => \A q \in DOMAIN m.node : m.node[q].key # k
BY LookupRight DEF Proper

\* The first free index from the new key on is the one after it.
LEMMA FreeIndex ==
    ASSUME NEW m, Proper(m), ~IndexBehind(m), NEW k \in Keys, Reserves(m, k), NEW g, Added(m, g, k)
    PROVE  /\ k + 1 \in Int
           /\ Min({i \in k + 1 .. k + 1 + g.nEntry : HashmapLookup(g, i) = Nil}) = k + 1
           /\ \A q \in DOMAIN g.node : g.node[q].key \in IntKeys => g.node[q].key < k + 1
<1> DEFINE free == {i \in k + 1 .. k + 1 + g.nEntry : HashmapLookup(g, i) = Nil}
<1>0. m.iNextIdx \in Int /\ Proper(g)
  BY ProperTyped DEF Added
<1>1. k \in IntKeys /\ k \in Int /\ k >= m.iNextIdx
  BY HashmapAssumption DEF Reserves
<1>2. Hash(k + 1) \in Nat /\ k + 1 \in Int
  BY <1>1, HashmapAssumption
<1>3. \A q \in DOMAIN g.node : g.node[q].key \in IntKeys => g.node[q].key < k + 1
  <2>1. k + 1 >= m.iNextIdx /\ k < k + 1
    BY <1>0, <1>1
  <2> QED BY <1>2, <2>1, AddedAhead
<1>4. HashmapLookup(g, k + 1) = Nil
  <2>1. ASSUME NEW q \in DOMAIN g.node, g.node[q].key = k + 1 PROVE FALSE
    <3>1. g.node[q].key \in Keys
      BY <1>0, ProperTyped
    <3>2. g.node[q].key \in IntKeys
      BY <1>2, <2>1, <3>1, KeyKinds
    <3>3. k + 1 < k + 1
      BY <1>3, <2>1, <3>2
    <3> QED BY <1>2, <3>3
  <2> QED BY <1>0, <1>2, <2>1, LookupProper
<1>5. g.nEntry \in Nat
  BY <1>0, ProperTyped DEF Typed, Arrays
<1>6. k + 1 \in free /\ free \subseteq Int /\ \A i \in free : k + 1 <= i
  BY <1>1, <1>4, <1>5
<1> HIDE DEF free
<1>7. Min(free) = k + 1
  <2>1. Min(free) \in free /\ \A i \in free : Min(free) <= i
    BY <1>6 DEF Min
  <2>2. Min(free) \in Int /\ k + 1 <= Min(free) /\ Min(free) <= k + 1
    BY <1>6, <2>1
  <2> QED BY <1>2, <2>2
<1> QED BY <1>2, <1>3, <1>7 DEF free

\* A new key never moves the automatic index below an integer key.
LEMMA InsertGood ==
    ASSUME NEW m, Good(m), DOMAIN m.node # Nodes, NEW k \in Keys, NEW v \in Values, NEW mem
    PROVE  Good(HashmapInsert(m, k, v, mem))
<1> DEFINE p == HashmapLookup(m, k)
           g == InsertKey(m, k, v, mem)
           free == {i \in k + 1 .. k + 1 + g.nEntry : HashmapLookup(g, i) = Nil}
           r == HashmapInsert(m, k, v, mem)
<1>0. Proper(m) /\ Unique(m) /\ ~IndexBehind(m) /\ m.iNextIdx \in Int
  BY ProperTyped DEF Good
<1>1. r = IF p # Nil THEN [m EXCEPT !.node[p].val = v]
          ELSE IF g # m /\ Reserves(m, k) THEN [g EXCEPT !.iNextIdx = Min(free)] ELSE g
  BY DEF HashmapInsert
<1>2. /\ p # Nil => p \in DOMAIN m.node /\ m.node[p].key = k
      /\ p = Nil => \A q \in DOMAIN m.node : m.node[q].key # k
  BY <1>0, HashNat, LookupProper
<1>3. CASE p # Nil
  <2>1. PICK s : Whole(m, s)
    BY <1>0 DEF Proper
  <2>2. r = [m EXCEPT !.node[p].val = v] /\ p \in DOMAIN m.node
    BY <1>1, <1>2, <1>3
  <2> HIDE DEF p, r
  <2>3. /\ Whole(r, s) /\ DOMAIN r.node = DOMAIN m.node /\ r.iNextIdx = m.iNextIdx
        /\ \A q \in DOMAIN m.node : r.node[q].key = m.node[q].key /\ r.node[q].hash = m.node[q].hash
    BY <2>1, <2>2, ValueSet
  <2>4. Good(r)
    BY <1>0, <2>3 DEF Good, Proper, Keyed, Unique, IndexBehind
  <2> QED BY <2>4 DEF r
<1>4. CASE p = Nil /\ g = m
  BY <1>1, <1>4
<1>5. CASE p = Nil /\ g # m
  <2>1. Added(m, g, k)
    BY <1>0, <1>5, KeyAdded
  <2>2. Unique(g)
    BY <1>0, <1>2, <1>5, <2>1, AddedUnique
  <2>3. Proper(g) /\ g.iNextIdx = m.iNextIdx
    BY <2>1 DEF Added
  <2>4. CASE Reserves(m, k)
    <3>1. /\ k + 1 \in Int /\ Min(free) = k + 1
          /\ \A q \in DOMAIN g.node : g.node[q].key \in IntKeys => g.node[q].key < k + 1
      <4> HIDE DEF g
      <4> QED BY <1>0, <2>1, <2>4, FreeIndex DEF g
    <3> HIDE DEF free
    <3> DEFINE x == k + 1
               j == [g EXCEPT !.iNextIdx = x]
    <3>2. r = j
      BY <1>1, <1>5, <2>4, <3>1
    <3> HIDE DEF x, g
    <3>3. PICK s : Whole(g, s)
      BY <2>3 DEF Proper
    <3>4. Whole(j, s) /\ j.node = g.node /\ j.iNextIdx = x
      BY <3>1, <3>3, IndexSet DEF x
    <3> HIDE DEF j, r
    <3>5. Proper(j) /\ Unique(j)
      BY <2>2, <2>3, <3>4 DEF Proper, Keyed, Unique
    <3>6. ~IndexBehind(j)
      <4> SUFFICES ASSUME NEW q \in DOMAIN j.node, j.node[q].key \in IntKeys, j.node[q].key >= j.iNextIdx
                   PROVE  FALSE
        BY DEF IndexBehind
      <4>1. j.node[q].key \in Int /\ j.node[q].key < k + 1
        BY <3>1, <3>4, HashmapAssumption
      <4> QED BY <3>1, <3>4, <4>1 DEF x
    <3>7. Good(r)
      BY <3>2, <3>5, <3>6 DEF Good
    <3> QED BY <3>7 DEF r
  <2>5. CASE ~Reserves(m, k)
    <3>1. k \in IntKeys => k < m.iNextIdx
      BY <1>0, <2>5, HashmapAssumption DEF Reserves
    <3>2. r = g
      BY <1>1, <1>5, <2>5
    <3> HIDE DEF r, g
    <3>3. \A q \in DOMAIN g.node : g.node[q].key \in IntKeys => g.node[q].key < m.iNextIdx
      BY <1>0, <2>1, <3>1, AddedAhead
    <3>4. ~IndexBehind(g)
      <4> SUFFICES ASSUME NEW q \in DOMAIN g.node, g.node[q].key \in IntKeys, g.node[q].key >= g.iNextIdx
                   PROVE  FALSE
        BY DEF IndexBehind
      <4>1. g.node[q].key \in Int /\ g.node[q].key < m.iNextIdx
        BY <3>3, HashmapAssumption
      <4> QED BY <1>0, <2>3, <4>1
    <3>5. Good(r)
      BY <2>2, <2>3, <3>2, <3>4 DEF Good
    <3> QED BY <3>5 DEF r
  <2> QED BY <2>4, <2>5
<1> QED BY <1>3, <1>4, <1>5

\* r is m with a new entry of the automatic index.
AutoAdded(m, r) ==
    /\ Good(r) /\ r.iNextIdx = m.iNextIdx + 1 /\ KeysOf(r) = KeysOf(m) \cup {m.iNextIdx}
    /\ \E p \in Nodes \ DOMAIN m.node : DOMAIN r.node = DOMAIN m.node \cup {p}

\* A keyless insertion takes the automatic index, which no entry has, and moves
\* it one further (HashmapInsert with no key).
LEMMA AutoGood ==
    ASSUME NEW m, Good(m), DOMAIN m.node # Nodes, m.iNextIdx \in IntKeys, NEW v \in Values, NEW mem
    PROVE  InsertAuto(m, v, mem) = m \/ AutoAdded(m, InsertAuto(m, v, mem))
<1> DEFINE k == m.iNextIdx
           g == InsertKey(m, k, v, mem)
           r == InsertAuto(m, v, mem)
<1>0. Proper(m) /\ Unique(m) /\ ~IndexBehind(m) /\ k \in Int /\ k \in Keys
  BY ProperTyped DEF Good, Keys
<1>1. r = IF g = m THEN m ELSE [g EXCEPT !.iNextIdx = @ + 1]
  BY DEF InsertAuto
<1> SUFFICES ASSUME g # m
             PROVE  AutoAdded(m, r)
  BY <1>1
<1>2. Added(m, g, k)
  BY <1>0, KeyAdded
<1>3. \A q \in DOMAIN m.node : m.node[q].key # k
  BY <1>0, IndexFree
<1> DEFINE x == k + 1
           j == [g EXCEPT !.iNextIdx = x]
<1>4. r = j
  <2>1. g.iNextIdx = k
    BY <1>2 DEF Added
  <2> QED BY <1>1, <2>1
<1> HIDE DEF g, r, j
<1>5. Unique(g) /\ Proper(g) /\ KeysOf(g) = KeysOf(m) \cup {k}
  <2>1. Proper(g)
    BY <1>2 DEF Added
  <2>2. Unique(g)
    BY <1>0, <1>2, <1>3, AddedUnique
  <2>3. KeysOf(g) = KeysOf(m) \cup {k}
    BY <1>2, AddedKeys
  <2> QED BY <2>1, <2>2, <2>3
<1>6. \A q \in DOMAIN g.node : g.node[q].key \in IntKeys => g.node[q].key < x
  BY <1>0, <1>2, AddedAhead
<1>7. PICK s : Whole(g, s)
  BY <1>5 DEF Proper
<1>8. Whole(j, s) /\ j.node = g.node /\ j.iNextIdx = x
  BY <1>0, <1>7, IndexSet DEF j
<1>9. Proper(j) /\ Unique(j) /\ KeysOf(j) = KeysOf(g)
  BY <1>5, <1>8 DEF Proper, Keyed, Unique, KeysOf
<1>10. ~IndexBehind(j)
  <2> SUFFICES ASSUME NEW q \in DOMAIN j.node, j.node[q].key \in IntKeys, j.node[q].key >= j.iNextIdx
               PROVE  FALSE
    BY DEF IndexBehind
  <2>1. j.node[q].key \in Int /\ j.node[q].key < x
    BY <1>6, <1>8, HashmapAssumption
  <2> QED BY <1>0, <1>8, <2>1
<1>11. \E p \in Nodes \ DOMAIN m.node : DOMAIN r.node = DOMAIN m.node \cup {p}
  BY <1>2, <1>4, <1>8 DEF Added
<1> QED BY <1>4, <1>5, <1>8, <1>9, <1>10, <1>11 DEF Good, AutoAdded

\* array + array with one entry: inserted if the key is absent.
LEMMA UnionProper ==
    ASSUME NEW m, Good(m), DOMAIN m.node # Nodes, NEW k \in Keys, NEW v \in Values
    PROVE  LET r == PH7_HashmapUnion(m, k, v) IN Proper(r) /\ Unique(r)
<1> DEFINE g == InsertKey(m, k, v, TRUE)
<1>1. PH7_HashmapUnion(m, k, v) = IF HashmapLookup(m, k) = Nil THEN g ELSE m
  BY DEF PH7_HashmapUnion
<1>2. HashmapLookup(m, k) = Nil => \A q \in DOMAIN m.node : m.node[q].key # k
  BY HashNat, LookupProper DEF Good
<1>3. g = m \/ Added(m, g, k)
  BY KeyAdded DEF Good
<1> HIDE DEF g
<1>4. Unique(m) /\ Proper(m)
  BY DEF Good
<1>5. HashmapLookup(m, k) = Nil => Proper(g) /\ Unique(g)
  BY <1>2, <1>3, <1>4, AddedUnique DEF Added
<1> QED BY <1>1, <1>4, <1>5

-----------------------------------------------------------------------------
(* The entries of an array inserted into another.                            *)

\* The entries in the reverse order.
LEMMA WalkBack ==
    ASSUME NEW m, NEW s, Whole(m, s)
    PROVE  Walk(m, m.pLast, "next") = Reverse(s) /\ IsOrder(Reverse(s), DOMAIN m.node)
<1> DEFINE D == DOMAIN m.node
           n == Len(s)
           t == Reverse(s)
           ne == "next"
<1>0. IsOrder(s, D) /\ m.nEntry = n /\ m.pLast = At(s, n) /\ Nil \notin D /\ m.nEntry \in Nat
      /\ Strung(s, Col(m, "prev"), Col(m, ne))
  BY HashmapAssumption DEF Whole, Listed, Threaded, Typed, Arrays
<1>1. /\ n \in Nat /\ s \in Seq(D) /\ \A i \in 1 .. n : s[i] \in D
      /\ \A x \in D : \E i \in 1 .. n : s[i] = x
      /\ \A i, j \in 1 .. n : s[i] = s[j] => i = j
  BY <1>0, OrderFacts
<1>2. t = [i \in 1 .. n |-> s[(n - i) + 1]]
  BY DEF Reverse
<1> HIDE DEF t
<1>3. \A i \in 1 .. n : (n - i) + 1 \in 1 .. n /\ t[i] = s[(n - i) + 1]
  BY <1>1, <1>2
<1>4. t \in Seq(D) /\ Len(t) = n
  <2>1. t \in [1 .. n -> D]
    BY <1>1, <1>2, <1>3
  <2>2. t \in Seq(D)
    <3> HIDE DEF D, n
    <3> QED BY <1>1, <2>1, SeqDef
  <2>3. DOMAIN t = 1 .. n
    BY <2>1
  <2> QED BY <1>1, <2>2, <2>3, LenProperties
<1>5. IsOrder(t, D)
  <2>1. Distinct(t)
    <3> SUFFICES ASSUME NEW i \in 1 .. n, NEW j \in 1 .. n, t[i] = t[j] PROVE i = j
      BY <1>4 DEF Distinct
    <3>1. (n - i) + 1 = (n - j) + 1
      BY <1>1, <1>3, ZenonT(60)
    <3> QED BY <1>1, <3>1
  <2>2. Items(t) = D
    <3>1. \A x \in D : \E i \in 1 .. n : t[i] = x
      <4> SUFFICES ASSUME NEW x \in D PROVE \E i \in 1 .. n : t[i] = x
        OBVIOUS
      <4>1. PICK j \in 1 .. n : s[j] = x
        BY <1>1
      <4>2. (n - j) + 1 \in 1 .. n /\ (n - ((n - j) + 1)) + 1 = j
        BY <1>1
      <4>3. t[(n - j) + 1] = x
        BY <1>3, <4>1, <4>2
      <4> QED BY <4>2, <4>3
    <3>2. \A i \in 1 .. n : t[i] \in D
      BY <1>1, <1>3
    <3> QED BY <1>4, <3>1, <3>2 DEF Items
  <2> QED BY <1>4, <2>1, <2>2 DEF IsOrder
<1>6. \A i \in 1 .. Len(t) : m.node[t[i]][ne] = At(t, i + 1)
  <2> SUFFICES ASSUME NEW i \in 1 .. n PROVE m.node[t[i]][ne] = At(t, i + 1)
    BY <1>4
  <2>1. (n - i) + 1 \in 1 .. n /\ t[i] = s[(n - i) + 1] /\ ((n - i) + 1) - 1 = n - i
    BY <1>1, <1>3
  <2>2. Col(m, ne)[s[(n - i) + 1]] = At(s, n - i)
    BY <1>0, <2>1 DEF Strung
  <2>3. m.node[t[i]][ne] = At(s, n - i)
    BY <1>1, <2>1, <2>2 DEF Col
  <2>4. At(s, n - i) = At(t, i + 1)
    <3>1. CASE i = n
      BY <1>1, <1>4, <3>1 DEF At
    <3>2. CASE i # n
      <4>1. i + 1 \in 1 .. n /\ n - i \in 1 .. n /\ (n - (i + 1)) + 1 = n - i
        <5>0. n \in Nat /\ i \in 1 .. n /\ i # n
          BY <1>1, <3>2
        <5> HIDE DEF n
        <5>1. n \in Nat /\ i \in Nat /\ 1 <= i /\ i < n
          BY ONLY <5>0
        <5> QED BY ONLY <5>1
      <4> QED BY <1>3, <1>4, <4>1 DEF At
    <3> QED BY <3>1, <3>2
  <2> QED BY <2>3, <2>4
<1>7. Walk(m, At(t, 1), ne) = From(t, 1)
  <2>1. 1 \in 1 .. Len(t) + 1 /\ Len(t) <= m.nEntry /\ D \subseteq DOMAIN m.node
    BY <1>0, <1>1, <1>4
  <2> HIDE DEF ne, n, D
  <2>2. Nil \notin DOMAIN m.node
    BY <1>0 DEF D
  <2> QED BY <1>0, <1>5, <1>6, <2>1, <2>2, WalkOrder
<1>8. At(t, 1) = m.pLast
  <2>1. CASE n = 0
    BY <1>0, <1>4, <2>1 DEF At
  <2>2. CASE n # 0
    <3>1. 1 \in 1 .. n /\ n \in 1 .. n /\ (n - 1) + 1 = n
      BY <1>1, <2>2
    <3> QED BY <1>0, <1>3, <1>4, <3>1 DEF At
  <2> QED BY <2>1, <2>2
<1>9. From(t, 1) = t
  BY <1>5, FromFirst
<1> QED BY <1>5, <1>7, <1>8, <1>9 DEF t

\* An empty array is good (PH7_NewHashmap).
LEMMA NewHashmapGood ==
    Good(PH7_NewHashmap) /\ Whole(PH7_NewHashmap, <<>>) /\ DOMAIN PH7_NewHashmap.node = {}
    /\ PH7_NewHashmap.iNextIdx = 0
<1> DEFINE m == PH7_NewHashmap
<1>1. /\ m.node = <<>> /\ m.pFirst = Nil /\ m.pLast = Nil /\ m.pCur = Nil /\ m.apBucket = <<>>
      /\ m.nSize = 0 /\ m.nEntry = 0 /\ m.iNextIdx = 0
  BY DEF PH7_NewHashmap
<1>2. DOMAIN m.node = {}
  BY <1>1
<1>3. m \in Arrays({}, 0)
  <2>1. <<>> \in [{} -> Cell] /\ <<>> \in [0 .. 0 - 1 -> Ptr] /\ Nil \in Ptr
    BY DEF Ptr
  <2> QED BY <2>1 DEF Arrays, PH7_NewHashmap
<1>4. TableFreed(m) = m
  BY DEF TableFreed, PH7_NewHashmap
<1> HIDE DEF m
<1>5. Typed(m)
  BY <1>1, <1>2, <1>3 DEF Typed
<1>6. Whole(m, <<>>)
  BY <1>4, <1>5, FreedWhole
<1>7. Good(m)
  BY <1>2, <1>6 DEF Good, Proper, Keyed, Unique, IndexBehind
<1> QED BY <1>1, <1>2, <1>6, <1>7 DEF m

\* r is m with a new last entry, in node p, and the automatic index x.
Grown(m, r, s, p, k, v, x) ==
    /\ p \in Nodes \ DOMAIN m.node /\ DOMAIN r.node = DOMAIN m.node \cup {p}
    /\ Whole(r, Append(s, p)) /\ SameData(m, r, DOMAIN m.node)
    /\ r.node[p].key = k /\ r.node[p].val = v
    /\ r.iNextIdx = x /\ r.pCur = IF Len(s) = 0 THEN p ELSE m.pCur

\* An insertion under a key leaves the automatic index.
LEMMA GrownSame ==
    ASSUME NEW m, NEW r, NEW s, NEW p, NEW k, NEW v, Inserted(m, r, s, p, k, v)
    PROVE  Grown(m, r, s, p, k, v, m.iNextIdx) /\ r # m
BY DEF Inserted, Grown

\* An insertion, and the automatic index set.
LEMMA GrownIndex ==
    ASSUME NEW m, NEW r, NEW s, NEW p, NEW k, NEW v, Inserted(m, r, s, p, k, v), NEW x \in Int
    PROVE  Grown(m, [r EXCEPT !.iNextIdx = x], s, p, k, v, x)
<1> DEFINE g == [r EXCEPT !.iNextIdx = x]
           t == Append(s, p)
<1>1. Whole(r, t)
  BY DEF Inserted
<1> HIDE DEF t
<1>2. Whole(g, t) /\ g.node = r.node /\ g.iNextIdx = x /\ g.pCur = r.pCur
  BY <1>1, IndexSet
<1> HIDE DEF g
<1>3. Grown(m, g, s, p, k, v, x)
  BY <1>2 DEF Inserted, Grown, SameData, t
<1> QED BY <1>3 DEF g

\* A keyless insertion takes the automatic index and moves it one further.
LEMMA AutoInserted ==
    ASSUME NEW m, NEW s, Whole(m, s), DOMAIN m.node # Nodes, m.iNextIdx \in IntKeys, NEW v \in Values, NEW mem
    PROVE  LET r == InsertAuto(m, v, mem)
           IN  (r = m /\ mem # TRUE) \/ \E p : Grown(m, r, s, p, m.iNextIdx, v, m.iNextIdx + 1)
<1> DEFINE k == m.iNextIdx
           g == InsertKey(m, k, v, mem)
           r == InsertAuto(m, v, mem)
<1>1. k \in Keys /\ k + 1 \in Int
  <2>1. k \in IntKeys /\ k \in Int
    BY HashmapAssumption
  <2> QED BY <2>1 DEF Keys
<1>2. r = IF g = m THEN m ELSE [g EXCEPT !.iNextIdx = g.iNextIdx + 1]
  BY DEF InsertAuto
<1>3. (g = m /\ mem # TRUE) \/ \E p : Inserted(m, g, s, p, k, v)
  BY <1>1, KeyInserted
<1> HIDE DEF g, r
<1>4. CASE g = m /\ mem # TRUE
  BY <1>2, <1>4 DEF r
<1>5. ASSUME NEW p, Inserted(m, g, s, p, k, v) PROVE Grown(m, r, s, p, k, v, k + 1)
  <2>1. g # m /\ g.iNextIdx = k
    BY <1>5, GrownSame DEF Inserted
  <2>2. r = [g EXCEPT !.iNextIdx = k + 1]
    BY <1>2, <2>1
  <2> QED BY <1>1, <1>5, <2>2, GrownIndex
<1> QED BY <1>3, <1>4, <1>5 DEF r

\* How many of the entries before the i-th have an integer key.
Rank(m, t, i) == Cardinality({j \in 1 .. i - 1 : m.node[t[j]].key \in IntKeys})

\* The rank goes one up with each integer key.
LEMMA RankNext ==
    ASSUME NEW m, NEW t, NEW i \in Nat \ {0}
    PROVE  /\ Rank(m, t, 1) = 0 /\ Rank(m, t, i) \in Nat
           /\ Rank(m, t, i + 1) = IF m.node[t[i]].key \in IntKeys THEN Rank(m, t, i) + 1 ELSE Rank(m, t, i)
<1> DEFINE R(j) == {l \in 1 .. j - 1 : m.node[t[l]].key \in IntKeys}
           S == R(i)
<1>1. R(1) = {} /\ Cardinality({}) = 0
  BY FS_EmptySet
<1>2. IsFiniteSet(S) /\ Cardinality(S) \in Nat /\ i \notin S
  <2>1. S \in SUBSET (1 .. i - 1) /\ IsFiniteSet(1 .. i - 1)
    BY FS_Interval
  <2> QED BY <2>1, FS_Subset, FS_CardinalityType
<1>3. R(i + 1) = IF m.node[t[i]].key \in IntKeys THEN S \cup {i} ELSE S
  <2>1. (i + 1) - 1 = i /\ \A l : l \in 1 .. i <=> l \in 1 .. i - 1 \/ l = i
    OBVIOUS
  <2> QED BY <2>1
<1> HIDE DEF S
<1>4. Cardinality(S \cup {i}) = Cardinality(S) + 1
  BY <1>2, FS_AddElement
<1> QED BY <1>1, <1>2, <1>3, <1>4 DEF Rank, S

\* The last of the first c indices.
LEMMA PrefixMax ==
    ASSUME NEW c \in Nat \ {0}
    PROVE  Max(1 .. c) = c /\ (1 .. c) \ {c} = 1 .. c - 1
<1>1. c \in 1 .. c /\ 1 .. c # {}
  OBVIOUS
<1>2. Max(1 .. c) \in 1 .. c /\ \A y \in 1 .. c : Max(1 .. c) >= y
  BY <1>1 DEF Max
<1> QED BY <1>1, <1>2

\* g has the entries t[1], ..., t[c] of m, in nodes of its own.
Clones(g, m, t, c, b) == \E w :
    /\ Whole(g, w) /\ Len(w) = c /\ g.pCur = At(w, 1)
    /\ g.iNextIdx = IF b THEN 0 ELSE Rank(m, t, c + 1)
    /\ \A i \in 1 .. c :
          /\ g.node[w[i]].val = m.node[t[i]].val
          /\ g.node[w[i]].key = IF m.node[t[i]].key \in BlobKeys \/ b THEN m.node[t[i]].key ELSE Rank(m, t, i)

\* The c-th node copied behind the first c - 1.
LEMMA CloneMade ==
    ASSUME NEW m, Good(m), NEW t, IsOrder(t, DOMAIN m.node), NEW b \in BOOLEAN, NEW c \in 1 .. Len(t),
           NEW g, Clones(g, m, t, c - 1, b), DOMAIN g.node # Nodes, g.iNextIdx \in IntKeys
    PROVE  Clones(HashmapInsertNode(g, m.node[t[c]], b), m, t, c, b)
<1> DEFINE n == m.node[t[c]]
           r == HashmapInsertNode(g, n, b)
           kept == n.key \in BlobKeys \/ b
           k == IF kept THEN n.key ELSE g.iNextIdx
           x == IF kept THEN g.iNextIdx ELSE g.iNextIdx + 1
<1>1. PICK w : /\ Whole(g, w) /\ Len(w) = c - 1 /\ g.pCur = At(w, 1)
               /\ g.iNextIdx = IF b THEN 0 ELSE Rank(m, t, c)
               /\ \A i \in 1 .. c - 1 :
                     /\ g.node[w[i]].val = m.node[t[i]].val
                     /\ g.node[w[i]].key = IF m.node[t[i]].key \in BlobKeys \/ b
                                           THEN m.node[t[i]].key ELSE Rank(m, t, i)
  <2>1. (c - 1) + 1 = c
    OBVIOUS
  <2> QED BY <2>1 DEF Clones
<1>2. c \in Nat \ {0} /\ n.key \in Keys /\ n.val \in Values
  BY OrderFacts, ProperTyped DEF Good
<1> HIDE DEF n
<1>3. PICK p : Grown(g, r, w, p, k, n.val, x)
  <2>1. CASE kept
    <3> DEFINE j == InsertKey(g, n.key, n.val, TRUE)
    <3>1. r = j
      BY <2>1 DEF HashmapInsertNode
    <3>2. PICK p : Inserted(g, j, w, p, n.key, n.val)
      BY <1>1, <1>2, KeyInserted
    <3>3. Grown(g, j, w, p, n.key, n.val, g.iNextIdx)
      BY <3>2, GrownSame
    <3> QED BY <2>1, <3>1, <3>3
  <2>2. CASE ~kept
    <3>1. r = InsertAuto(g, n.val, TRUE)
      BY <2>2 DEF HashmapInsertNode
    <3> HIDE DEF r
    <3>2. \E p : Grown(g, r, w, p, g.iNextIdx, n.val, g.iNextIdx + 1)
      BY <1>1, <1>2, <3>1, AutoInserted
    <3> QED BY <2>2, <3>2
  <2> QED BY <2>1, <2>2
<1> DEFINE u == Append(w, p)
<1>4. /\ IsOrder(w, DOMAIN g.node) /\ \A i \in 1 .. c - 1 : w[i] \in DOMAIN g.node
  BY <1>1, OrderFacts DEF Whole, Listed, Threaded
<1>5. Len(u) = c /\ u[c] = p /\ \A i \in 1 .. c - 1 : u[i] = w[i]
  <2>1. w \in Seq(DOMAIN g.node \cup {p}) /\ Len(w) = c - 1 /\ (c - 1) + 1 = c
    BY <1>1, <1>4 DEF IsOrder
  <2> QED BY <2>1, AppendProperties
<1> HIDE DEF r, u
<1>6. /\ Whole(r, u) /\ r.iNextIdx = x /\ r.node[p].key = k /\ r.node[p].val = n.val
      /\ r.pCur = (IF c = 1 THEN p ELSE g.pCur)
      /\ \A q \in DOMAIN g.node : r.node[q].key = g.node[q].key /\ r.node[q].val = g.node[q].val
  BY <1>1, <1>2, <1>3 DEF Grown, SameData, u
<1>7. r.pCur = At(u, 1)
  <2>1. 1 \in 1 .. c /\ (c # 1 => 1 \in 1 .. c - 1)
    BY <1>2
  <2> QED BY <1>1, <1>5, <1>6, <2>1 DEF At
<1>8. r.iNextIdx = IF b THEN 0 ELSE Rank(m, t, c + 1)
  <2>1. n.key \in IntKeys <=> n.key \notin BlobKeys
    BY <1>2, KeyKinds
  <2>2. Rank(m, t, c + 1) = IF n.key \in IntKeys THEN Rank(m, t, c) + 1 ELSE Rank(m, t, c)
    BY <1>2, RankNext DEF n
  <2> QED BY <1>1, <1>6, <2>1, <2>2
<1>9. ASSUME NEW i \in 1 .. c
      PROVE  /\ r.node[u[i]].val = m.node[t[i]].val
             /\ r.node[u[i]].key = IF m.node[t[i]].key \in BlobKeys \/ b THEN m.node[t[i]].key ELSE Rank(m, t, i)
  <2>1. CASE i = c
    BY <1>1, <1>5, <1>6, <2>1 DEF n
  <2>2. CASE i # c
    <3>1. i \in 1 .. c - 1
      BY <1>2, <2>2
    <3> QED BY <1>1, <1>4, <1>5, <1>6, <3>1
  <2> QED BY <2>1, <2>2
<1> QED BY <1>5, <1>6, <1>7, <1>8, <1>9 DEF Clones, r, n

\* What the entries t[i] of m, i in T, make of an empty array.
Fits(g, m, t, T, b) ==
    /\ Proper(g) /\ Unique(g) /\ (b \/ ~IndexBehind(g))
    /\ Cardinality(DOMAIN g.node) <= Cardinality(T) /\ g.iNextIdx \in 0 .. Cardinality(T)
    /\ \A k \in KeysOf(g) : b \/ k \in BlobKeys => \E i \in T : k = m.node[t[i]].key
    /\ \A c \in 0 .. Len(t) : T = 1 .. c => Clones(g, m, t, c, b)

\* One node of m inserted into a copy keeps what Fits says; there is a free node.
LEMMA NodeInserted ==
    ASSUME NEW m, Good(m), NEW t, IsOrder(t, DOMAIN m.node), NEW b \in BOOLEAN,
           NEW T \in SUBSET (1 .. Len(t)), T # {}, NEW g, Fits(g, m, t, T \ {Max(T)}, b)
    PROVE  Fits(HashmapInsertNode(g, m.node[t[Max(T)]], b), m, t, T, b)
<1> DEFINE i == Max(T)
           R == T \ {i}
           n == m.node[t[i]]
           r == HashmapInsertNode(g, n, b)
           D == DOMAIN m.node
<1>0. /\ Len(t) \in Nat /\ \A j \in 1 .. Len(t) : t[j] \in D
      /\ \A j, k \in 1 .. Len(t) : t[j] = t[k] => j = k
      /\ IsFiniteSet(D) /\ Cardinality(D) = Len(t)
  BY OrderFacts, OrderLength
<1>1. /\ i \in T /\ i \in 1 .. Len(t) /\ Cardinality(R) = Cardinality(T) - 1
      /\ Cardinality(T) \in 0 .. Len(t) /\ R \subseteq T /\ Cardinality(R) \in 0 .. Len(t) - 1
  <2>1. /\ Cardinality(T) \in 0 .. Len(t) /\ i \in T /\ R \in SUBSET (1 .. Len(t))
        /\ Cardinality(R) = Cardinality(T) - 1
    BY <1>0, Subsets
  <2>2. Cardinality(R) \in 0 .. Len(t)
    BY <1>0, <2>1, Subsets
  <2> HIDE DEF i
  <2> QED BY <1>0, <2>1, <2>2
<1>2. /\ Proper(g) /\ Unique(g) /\ (b \/ ~IndexBehind(g))
      /\ Cardinality(DOMAIN g.node) <= Cardinality(R) /\ g.iNextIdx \in 0 .. Cardinality(R)
      /\ \A k \in KeysOf(g) : b \/ k \in BlobKeys => \E j \in R : k = m.node[t[j]].key
      /\ \A c \in 0 .. Len(t) : R = 1 .. c => Clones(g, m, t, c, b)
  BY DEF Fits
<1>3. ASSUME NEW c \in 0 .. Len(t), T = 1 .. c PROVE c \in 1 .. Len(t) /\ i = c /\ R = 1 .. c - 1 /\ c - 1 \in 0 .. Len(t)
  <2>1. c \in Nat \ {0} /\ c \in 1 .. Len(t) /\ c - 1 \in 0 .. Len(t)
    BY <1>0, <1>3
  <2> QED BY <1>3, <2>1, PrefixMax
<1> HIDE DEF i, R
<1>4. /\ t[i] \in D /\ n.key \in Keys /\ n.val \in Values /\ Cardinality(D) <= Cardinality(Nodes)
      /\ IsFiniteSet(DOMAIN g.node) /\ Cardinality(DOMAIN g.node) \in Nat
      /\ Cardinality(Nodes) \in Nat
  <2>1. Proper(m)
    BY DEF Good
  <2>2. t[i] \in D
    BY <1>0, <1>1
  <2>3. n.key \in Keys /\ n.val \in Values /\ D \in SUBSET Nodes
    BY <2>1, <2>2, ProperTyped
  <2>4. DOMAIN g.node \in SUBSET Nodes
    BY <1>2, ProperTyped
  <2>5. IsFiniteSet(Nodes)
    BY HashmapAssumption
  <2>6. Cardinality(D) <= Cardinality(Nodes)
    <3> HIDE DEF D
    <3> QED BY <2>3, <2>5, FS_Subset
  <2>7. IsFiniteSet(DOMAIN g.node)
    BY <2>4, <2>5, FS_Subset
  <2> QED BY <2>2, <2>3, <2>5, <2>6, <2>7, FS_CardinalityType
<1>5. DOMAIN g.node # Nodes /\ g.iNextIdx \in IntKeys
  <2>1. Cardinality(DOMAIN g.node) < Cardinality(Nodes)
    BY <1>0, <1>1, <1>2, <1>4
  <2>2. g.iNextIdx \in 0 .. Cardinality(Nodes)
    BY <1>0, <1>1, <1>2, <1>4
  <2> QED BY <1>4, <2>1, <2>2, HashmapAssumption
<1>6. \A c \in 0 .. Len(t) : T = 1 .. c => Clones(r, m, t, c, b)
  <2> SUFFICES ASSUME NEW c \in 0 .. Len(t), T = 1 .. c PROVE Clones(r, m, t, c, b)
    OBVIOUS
  <2>1. c \in 1 .. Len(t) /\ i = c /\ Clones(g, m, t, c - 1, b)
    BY <1>2, <1>3
  <2> QED BY <1>5, <2>1, CloneMade
\* One node more, and the index no further than one.
<1>7. ASSUME NEW p, DOMAIN r.node = DOMAIN g.node \cup {p} PROVE Cardinality(DOMAIN r.node) <= Cardinality(T)
  <2> HIDE DEF r
  <2>1. Cardinality(DOMAIN g.node \cup {p}) <= Cardinality(DOMAIN g.node) + 1
    <3> DEFINE S == DOMAIN g.node
    <3> HIDE DEF S
    <3>1. IsFiniteSet(S) /\ Cardinality(S) \in Nat
      BY <1>4 DEF S
    <3>2. Cardinality(S \cup {p}) = IF p \in S THEN Cardinality(S) ELSE Cardinality(S) + 1
      BY <3>1, FS_AddElement
    <3>3. Cardinality(S \cup {p}) <= Cardinality(S) + 1
      BY <3>1, <3>2
    <3> QED BY <3>3 DEF S
  <2>2. Cardinality(DOMAIN r.node) \in Nat
    BY <1>4, <1>7, FS_AddElement, FS_CardinalityType
  <2> QED BY <1>1, <1>2, <1>4, <1>7, <2>1, <2>2
<1>8. CASE n.key \in BlobKeys \/ b
  <2> DEFINE j == InsertKey(g, n.key, n.val, TRUE)
  <2>1. r = j
    BY <1>8 DEF HashmapInsertNode
  <2>2. j = g \/ Added(g, j, n.key)
    BY <1>2, <1>4, <1>5, KeyAdded
  <2> HIDE DEF j, r, n
  <2>3. CASE r = g
    <3>1. g.iNextIdx \in 0 .. Cardinality(T) /\ Cardinality(DOMAIN g.node) <= Cardinality(T)
      BY <1>0, <1>1, <1>2, <1>4
    <3> QED BY <1>1, <1>2, <1>6, <2>3, <3>1 DEF Fits, r, n, i
  <2>4. CASE Added(g, r, n.key)
    <3>1. Proper(r) /\ r.iNextIdx = g.iNextIdx
      BY <2>4 DEF Added
    <3>2. \A q \in DOMAIN g.node : g.node[q].key # n.key
      <4> SUFFICES ASSUME NEW q \in DOMAIN g.node, g.node[q].key = n.key PROVE FALSE
        OBVIOUS
      <4>1. n.key \in KeysOf(g)
        BY DEF KeysOf
      <4>2. PICK l \in R : n.key = m.node[t[l]].key
        BY <1>2, <1>8, <4>1
      <4>3. l \in 1 .. Len(t) /\ l # i
        BY DEF R
      <4>4. t[l] = t[i]
        BY <1>0, <1>4, <4>2, <4>3 DEF Good, Unique, n
      <4> QED BY <1>0, <1>1, <4>3, <4>4
    <3>3. Unique(r)
      BY <1>2, <2>4, <3>2, AddedUnique
    <3>4. b \/ ~IndexBehind(r)
      <4> SUFFICES ASSUME ~b PROVE ~IndexBehind(r)
        OBVIOUS
      <4>1. n.key \notin IntKeys /\ ~IndexBehind(g) /\ g.iNextIdx \in Int /\ g.iNextIdx >= g.iNextIdx
        BY <1>2, <1>4, <1>8, KeyKinds
      <4>2. \A q \in DOMAIN r.node : r.node[q].key \in IntKeys => r.node[q].key < g.iNextIdx
        BY <1>2, <2>4, <4>1, AddedAhead
      <4> SUFFICES ASSUME NEW q \in DOMAIN r.node, r.node[q].key \in IntKeys, r.node[q].key >= r.iNextIdx
                   PROVE  FALSE
        BY DEF IndexBehind
      <4>3. r.node[q].key \in Int /\ r.node[q].key < g.iNextIdx
        BY <4>2, HashmapAssumption
      <4> QED BY <3>1, <4>1, <4>3
    <3>5. KeysOf(r) = KeysOf(g) \cup {n.key}
      BY <2>4, AddedKeys
    <3>6. \A k \in KeysOf(r) : b \/ k \in BlobKeys => \E l \in T : k = m.node[t[l]].key
      BY <1>1, <1>2, <3>5 DEF n
    <3>7. Cardinality(DOMAIN r.node) <= Cardinality(T)
      BY <1>7, <2>4 DEF Added
    <3>8. r.iNextIdx \in 0 .. Cardinality(T)
      BY <1>0, <1>1, <1>2, <3>1
    <3> QED BY <1>6, <3>1, <3>3, <3>4, <3>6, <3>7, <3>8 DEF Fits, r, n, i
  <2> QED BY <2>1, <2>2, <2>3, <2>4
<1>9. CASE ~(n.key \in BlobKeys \/ b)
  <2> DEFINE j == InsertAuto(g, n.val, TRUE)
             k == g.iNextIdx
  <2>1. r = j
    BY <1>9 DEF HashmapInsertNode
  <2>2. Good(g)
    BY <1>2, <1>9 DEF Good
  <2>3. j = g \/ AutoAdded(g, j)
    BY <1>4, <1>5, <2>2, AutoGood
  <2> HIDE DEF j, r, n
  <2>4. CASE r = g
    <3>1. g.iNextIdx \in 0 .. Cardinality(T) /\ Cardinality(DOMAIN g.node) <= Cardinality(T)
      BY <1>0, <1>1, <1>2, <1>4
    <3> QED BY <1>1, <1>2, <1>6, <2>4, <3>1 DEF Fits, r, n, i
  <2>5. CASE r # g
    <3>1. /\ Good(r) /\ r.iNextIdx = k + 1 /\ KeysOf(r) = KeysOf(g) \cup {k}
          /\ \E p \in Nodes \ DOMAIN g.node : DOMAIN r.node = DOMAIN g.node \cup {p}
      BY <2>1, <2>3, <2>5 DEF AutoAdded
    <3>2. k \notin BlobKeys
      BY <1>5, HashmapAssumption
    <3>3. \A x \in KeysOf(r) : b \/ x \in BlobKeys => \E l \in T : x = m.node[t[l]].key
      BY <1>1, <1>2, <1>9, <3>1, <3>2
    <3>4. Cardinality(DOMAIN r.node) <= Cardinality(T)
      BY <1>7, <3>1
    <3>5. r.iNextIdx \in 0 .. Cardinality(T)
      BY <1>0, <1>1, <1>2, <3>1
    <3> QED BY <1>6, <3>1, <3>3, <3>4, <3>5 DEF Fits, Good, r, n, i
  <2> QED BY <2>4, <2>5
<1> QED BY <1>8, <1>9

\* Every array there can be.
AllArrays == UNION {Arrays(D, n) : D \in SUBSET Nodes, n \in Nat}

\* All of them (PH7_HashmapDup, array_reverse).
LEMMA NodesInserted ==
    ASSUME NEW m, Good(m), NEW s, IsOrder(s, DOMAIN m.node), NEW b \in BOOLEAN
    PROVE  Fits(HashmapInsertNodes(m, PH7_NewHashmap, s, b), m, s, 1 .. Len(s), b)
<1> DEFINE base == PH7_NewHashmap
           n == Len(s)
           I == SUBSET (1 .. n)
           U == AllArrays
           V == [T \in I |-> {g \in U : Fits(g, m, s, T, b)}]
           step == [i \in 1 .. n |-> [g \in U |-> HashmapInsertNode(g, m.node[s[i]], b)]]
           W(f) == [T \in SUBSET DOMAIN s |->
                       IF T = {} THEN base ELSE HashmapInsertNode(f[T \ {Max(T)}], m.node[s[Max(T)]], b)]
           F == CHOOSE f : f = W(f)
<1>0. ASSUME NEW g, NEW T, Fits(g, m, s, T, b) PROVE g \in U
  <2>1. Typed(g)
    BY <1>0, ProperTyped DEF Fits
  <2> QED BY <2>1 DEF Typed, AllArrays
<1>1. n \in Nat /\ DOMAIN s = 1 .. n
  <2>1. n \in Nat /\ s \in Seq(DOMAIN m.node)
    BY OrderFacts
  <2> QED BY <2>1, LenProperties
<1>2. base \in V[{}]
  <2>1. Good(base) /\ DOMAIN base.node = {} /\ base.iNextIdx = 0
    BY NewHashmapGood
  <2>2. {} \in I /\ Cardinality({}) = 0 /\ KeysOf(base) = {}
    BY <2>1, FS_EmptySet DEF KeysOf
  <2> HIDE DEF base
  <2>3. Clones(base, m, s, 0, b)
    <3>1. Whole(base, <<>>) /\ base.pCur = Nil /\ Len(<<>>) = 0 /\ At(<<>>, 1) = Nil
      BY NewHashmapGood DEF base, At, PH7_NewHashmap
    <3>2. Rank(m, s, 0 + 1) = 0 /\ 1 .. 0 = {}
      BY RankNext
    <3> DEFINE e == <<>>
    <3> HIDE DEF e
    <3>3. Whole(base, e) /\ base.pCur = Nil /\ Len(e) = 0 /\ At(e, 1) = Nil
      BY <3>1 DEF e
    <3> QED BY <2>1, <3>2, <3>3 DEF Clones
  <2>4. Fits(base, m, s, {}, b)
    <3>1. \A c \in 0 .. Len(s) : {} = 1 .. c => c = 0
      BY <1>1
    <3> QED BY <2>1, <2>2, <2>3, <3>1 DEF Fits, Good
  <2> HIDE DEF U
  <2> QED BY <1>0, <2>2, <2>4
<1> HIDE DEF base
<1>3. ASSUME NEW T \in I, T # {}, NEW g \in V[T \ {Max(T)}]
      PROVE  HashmapInsertNode(g, m.node[s[Max(T)]], b) \in V[T]
  <2>1. T \ {Max(T)} \in I
    OBVIOUS
  <2>2. Fits(g, m, s, T \ {Max(T)}, b)
    BY <2>1
  <2>3. Fits(HashmapInsertNode(g, m.node[s[Max(T)]], b), m, s, T, b)
    BY <1>3, <2>2, NodeInserted
  <2> HIDE DEF U
  <2> QED BY <1>0, <2>3
<1>4. FoldTyped(n, U, V, base, step)
  <2>1. U # {} /\ V \in [I -> SUBSET U]
    BY <1>2
  <2>2. ASSUME NEW T \in I, T # {}, NEW g \in V[T \ {Max(T)}]
        PROVE  step[Max(T)][g] \in V[T]
    <3>1. Max(T) \in 1 .. n /\ T \ {Max(T)} \in I
      BY <1>1, <2>2, Subsets
    <3> DEFINE R == T \ {Max(T)}
    <3>2. V[R] \subseteq U
      <4> HIDE DEF U, I
      <4> QED BY <2>1, <3>1
    <3>3. g \in U
      BY <3>2
    <3>4. step[Max(T)][g] = HashmapInsertNode(g, m.node[s[Max(T)]], b)
      BY <3>1, <3>3
    <3> QED BY <1>3, <2>2, <3>4
  <2> HIDE DEF U, V, step
  <2> QED BY <1>1, <1>2, <2>1, <2>2 DEF FoldTyped
<1>5. PICK f : FoldsTo(f, n, U, base, step)
  <2> HIDE DEF n, U, V, step
  <2> QED BY <1>4, FoldDefined
<1>6. f = W(f)
  <2>0. f \in [I -> U] /\ \A T \in I : f[T] = IF T = {} THEN base ELSE step[Max(T)][f[T \ {Max(T)}]]
    BY <1>5 DEF FoldsTo
  <2>1. ASSUME NEW T \in I, T # {}
        PROVE  step[Max(T)][f[T \ {Max(T)}]] = HashmapInsertNode(f[T \ {Max(T)}], m.node[s[Max(T)]], b)
    <3>1. Max(T) \in 1 .. n /\ T \ {Max(T)} \in I
      BY <1>1, <2>1, Subsets
    <3> DEFINE R == T \ {Max(T)}
    <3>2. f[R] \in U
      <4> HIDE DEF U, I, R
      <4> QED BY <2>0, <3>1 DEF R
    <3> QED BY <3>1, <3>2
  <2>2. \A T \in I : f[T] = IF T = {} THEN base ELSE HashmapInsertNode(f[T \ {Max(T)}], m.node[s[Max(T)]], b)
    <3> HIDE DEF U, I, step
    <3> QED BY <2>0, <2>1
  <2>3. I = SUBSET DOMAIN s
    BY <1>1
  <2> HIDE DEF U, I, step
  <2>4. f = [T \in I |-> IF T = {} THEN base ELSE HashmapInsertNode(f[T \ {Max(T)}], m.node[s[Max(T)]], b)]
    BY <2>0, <2>2
  <2> QED BY <2>3, <2>4
<1>7. F = W(F)
  <2> HIDE DEF W
  <2> QED BY <1>6
<1>8. HashmapInsertNodes(m, base, s, b) = F[DOMAIN s]
  BY DEF FoldLeft, MapThenFoldSet, HashmapInsertNodes
<1> HIDE DEF F
<1>9. F[1 .. n] \in V[1 .. n]
  <2>0. \A T \in I : F[T] = W(F)[T]
    <3> HIDE DEF W
    <3> QED BY <1>7
  <2>1. F[{}] \in V[{}]
    <3>1. {} \in I /\ {} \in SUBSET DOMAIN s
      OBVIOUS
    <3>2. F[{}] = base
      <4> HIDE DEF I
      <4> QED BY <2>0, <3>1
    <3> HIDE DEF V
    <3> QED BY <1>2, <3>2
  <2>2. ASSUME NEW T \in I, T # {} /\ F[T \ {Max(T)}] \in V[T \ {Max(T)}]
        PROVE  F[T] \in V[T]
    <3>1. F[T] = HashmapInsertNode(F[T \ {Max(T)}], m.node[s[Max(T)]], b)
      BY <1>1, <2>0, <2>2
    <3> HIDE DEF V, I, W
    <3> QED BY <1>3, <2>2, <3>1
  <2> HIDE DEF V
  <2>3. FoldKeeps(F, n, V)
    BY <1>1, <2>1, <2>2 DEF FoldKeeps
  <2> HIDE DEF n
  <2> QED BY <2>3, FoldSolution
<1>10. 1 .. n \in I
  OBVIOUS
<1> QED BY <1>1, <1>8, <1>9, <1>10 DEF base

-----------------------------------------------------------------------------
(* Renumbering.                                                              *)

\* The links of an array but pLast, which the sorts leave behind.
Sewn(m, s) ==
    /\ Typed(m) /\ Threaded(m, s) /\ Hung(m, DOMAIN m.node)
    /\ DOMAIN m.node # {} => m.nSize # 0
    /\ m.pCur \in DOMAIN m.node \cup {Nil}

\* Whole is Sewn with pLast on the last entry.
LEMMA SewnWhole ==
    ASSUME NEW m, NEW s
    PROVE  Whole(m, s) <=> Sewn(m, s) /\ m.pLast = At(s, Len(s))
BY DEF Whole, Sewn, Listed

\* The list depends on pFirst, nEntry and the list links of its nodes.
LEMMA ThreadedStill ==
    ASSUME NEW m, NEW s, Threaded(m, s), NEW g, DOMAIN g.node = DOMAIN m.node,
           g.nEntry = m.nEntry, g.pFirst = m.pFirst,
           \A q \in DOMAIN m.node : g.node[q].next = m.node[q].next /\ g.node[q].prev = m.node[q].prev
    PROVE  Threaded(g, s)
<1>1. \A i \in 1 .. Len(s) : s[i] \in DOMAIN m.node
  BY OrderFacts DEF Threaded
<1> QED BY <1>1 DEF Threaded, Strung, Col

SameVals(m, g) == \A q \in DOMAIN m.node : g.node[q].val = m.node[q].val

\* g is m but for the key of p.
Renamed(m, g, s, p, k) ==
    /\ Sewn(g, s) /\ DOMAIN g.node = DOMAIN m.node /\ g.pLast = m.pLast /\ g.pFirst = m.pFirst
    /\ g.pCur = m.pCur /\ SameVals(m, g)
    /\ g.node[p].key = k /\ g.node[p].hash = Hash(k)
    /\ \A q \in DOMAIN m.node \ {p} : g.node[q].key = m.node[q].key /\ g.node[q].hash = m.node[q].hash

\* HashmapRehashIntNode moves a node to the chain of its new key and keeps the list.
LEMMA NodeRehashed ==
    ASSUME NEW m, NEW s, Sewn(m, s), NEW p \in DOMAIN m.node, m.iNextIdx \in IntKeys
    PROVE  LET r == HashmapRehashIntNode(m, p)
           IN  Renamed(m, r, s, p, m.iNextIdx) /\ r.iNextIdx = m.iNextIdx + 1
<1> DEFINE D == DOMAIN m.node
           S == D \ {p}
           x == m.iNextIdx
           c == Unchained(m, p)
           o == OffChain(c, p)
           g == [o EXCEPT !.node[p].hash = Hash(x), !.node[p].key = x]
           k == Chained(g, p, Bucket(g, Hash(x)))
           r == HashmapRehashIntNode(m, p)
<1>0. /\ Typed(m) /\ Threaded(m, s) /\ Hung(m, D) /\ m.nSize # 0 /\ p \in D /\ D \subseteq Nodes
      /\ x \in Int /\ x \in Keys /\ Hash(x) \in Nat /\ m.pCur \in D \cup {Nil}
  BY HashNat, HashmapAssumption DEF Sewn, Typed, Keys
<1>1. Typed(c) /\ SameButChains(m, c) /\ Hung(c, S)
  BY <1>0, UnchainedHung
<1> HIDE DEF c
<1>2. DOMAIN c.node = D /\ c.nSize = m.nSize /\ S \in SUBSET DOMAIN c.node /\ p \in DOMAIN c.node \ S
  BY <1>0, <1>1 DEF SameButChains, SameHead
<1>3. Typed(o) /\ SameButChains(c, o) /\ Hung(o, S) /\ o.node[p].prevC = Nil
  <2> HIDE DEF S, o
  <2> QED BY <1>1, <1>2, OffChainHung DEF o
<1> HIDE DEF o
<1>4. SameButChains(m, o)
  BY <1>1, <1>3, SameTransitive
<1>5. /\ o \in Arrays(D, m.nSize) /\ DOMAIN o.node = D /\ o.nSize = m.nSize /\ o.node \in [D -> Cell]
      /\ m.nSize \in Nat
  BY <1>3, <1>4, <1>0 DEF SameButChains, SameHead, Typed, Arrays
<1> DEFINE e == [o.node[p] EXCEPT !.hash = Hash(x), !.key = x]
           N == [o.node EXCEPT ![p] = e]
<1>6. e \in Cell /\ e.key = x /\ e.hash = Hash(x) /\ \A f \in Fields \ {"key", "hash"} : e[f] = o.node[p][f]
  <2>1. o.node[p] \in Cell
    BY <1>0, <1>5
  <2> QED BY <1>0, <2>1 DEF Cell, Fields, LinkFields
<1>7. /\ g.node = N /\ g.apBucket = o.apBucket /\ g.nSize = o.nSize /\ g.pFirst = o.pFirst
      /\ g.pLast = o.pLast /\ g.nEntry = o.nEntry /\ g.pCur = o.pCur /\ g.iNextIdx = o.iNextIdx
      /\ g = [o EXCEPT !.node = N]
  BY <1>0, <1>5 DEF Arrays
<1> HIDE DEF e, g
<1>8. N \in [D -> Cell] /\ DOMAIN N = D /\ N[p] = e /\ \A q \in S : N[q] = o.node[q]
  BY <1>0, <1>5, <1>6
<1> HIDE DEF N
<1>9. g \in Arrays(D, m.nSize)
  BY <1>5, <1>7, <1>8 DEF Arrays
<1>10. Typed(g) /\ DOMAIN g.node = D /\ g.nSize = m.nSize
  BY <1>0, <1>5, <1>7, <1>8, <1>9 DEF Typed
<1>11. /\ \A q \in S, f \in Fields : g.node[q][f] = o.node[q][f]
       /\ \A f \in Fields \ {"key", "hash"} : g.node[p][f] = o.node[p][f]
       /\ g.node[p].key = x /\ g.node[p].hash = Hash(x)
  BY <1>6, <1>7, <1>8
<1>12. g.node[p].prevC = Nil /\ \A q \in S : /\ g.node[q].hash = o.node[q].hash
                                             /\ g.node[q].nextC = o.node[q].nextC
                                             /\ g.node[q].prevC = o.node[q].prevC
  BY <1>3, <1>11 DEF Fields, LinkFields
<1>13. Hung(g, S)
  <2>1. \A b \in 0 .. o.nSize - 1 : g.apBucket[b] = o.apBucket[b]
    BY <1>7
  <2>2. \A q \in S : /\ q \in DOMAIN o.node /\ q \in DOMAIN g.node
                     /\ g.node[q].hash = o.node[q].hash
                     /\ g.node[q].nextC = o.node[q].nextC
                     /\ g.node[q].prevC = o.node[q].prevC
    BY <1>5, <1>10, <1>12
  <2>3. Hung(o, S) /\ g.nSize = o.nSize
    BY <1>3, <1>5, <1>10
  <2> HIDE DEF S
  <2> QED BY <2>1, <2>2, <2>3, HungStill
<1>14. Typed(k) /\ SameButChains(g, k) /\ Hung(k, D)
  <2>1. k = Chained(g, p, Bucket(g, g.node[p].hash))
    BY <1>11
  <2>2. S \in SUBSET DOMAIN g.node /\ p \in DOMAIN g.node \ S /\ g.nSize # 0 /\ S \cup {p} = D
    BY <1>0, <1>10
  <2> HIDE DEF S, k
  <2>3. Typed(k) /\ SameButChains(g, k) /\ Hung(k, S \cup {p})
    BY <1>10, <1>12, <1>13, <2>1, <2>2, ChainedHung
  <2> QED BY <2>2, <2>3
<1> HIDE DEF k
<1>15. r = [k EXCEPT !.iNextIdx = k.iNextIdx + 1]
  BY DEF HashmapRehashIntNode, k, g, o, c
<1>16. /\ DOMAIN k.node = D /\ k.nSize = m.nSize /\ k.pFirst = m.pFirst /\ k.pLast = m.pLast
       /\ k.pCur = m.pCur /\ k.nEntry = m.nEntry /\ k.iNextIdx = x
       /\ \A q \in D, f \in Fields \ {"nextC", "prevC"} : k.node[q][f] = g.node[q][f]
       /\ \A q \in D, f \in Fields \ {"nextC", "prevC"} : o.node[q][f] = m.node[q][f]
  BY <1>4, <1>5, <1>7, <1>10, <1>14 DEF SameButChains, SameHead
<1>17. k \in Arrays(D, m.nSize) /\ k.iNextIdx + 1 \in Int
  BY <1>0, <1>14, <1>16 DEF Typed
<1> HIDE DEF r
<1>18. /\ r \in Arrays(D, m.nSize) /\ r.node = k.node /\ r.apBucket = k.apBucket /\ r.nSize = k.nSize
       /\ r.pFirst = k.pFirst /\ r.pLast = k.pLast /\ r.nEntry = k.nEntry /\ r.pCur = k.pCur
       /\ r.iNextIdx = x + 1
  BY <1>15, <1>16, <1>17 DEF Arrays
<1>19. Typed(r)
  BY <1>0, <1>5, <1>16, <1>18 DEF Typed
<1>20. Hung(r, D)
  <2>1. /\ \A b \in 0 .. k.nSize - 1 : r.apBucket[b] = k.apBucket[b]
        /\ \A q \in D : /\ q \in DOMAIN k.node /\ q \in DOMAIN r.node
                        /\ r.node[q].hash = k.node[q].hash
                        /\ r.node[q].nextC = k.node[q].nextC
                        /\ r.node[q].prevC = k.node[q].prevC
    BY <1>16, <1>18
  <2>2. Hung(k, D) /\ r.nSize = k.nSize
    BY <1>14, <1>18
  <2> HIDE DEF D
  <2> QED BY <2>1, <2>2, HungStill
<1>21. /\ \A q \in D : r.node[q].next = m.node[q].next /\ r.node[q].prev = m.node[q].prev
       /\ \A q \in S : r.node[q].key = m.node[q].key /\ r.node[q].hash = m.node[q].hash
       /\ r.node[p].key = x /\ r.node[p].hash = Hash(x)
  BY <1>0, <1>11, <1>16, <1>18 DEF Fields, LinkFields
<1>22. SameVals(m, r) /\ r.pCur = m.pCur
  BY <1>0, <1>11, <1>16, <1>18 DEF SameVals, Fields, LinkFields
<1>23. Threaded(r, s)
  BY <1>0, <1>16, <1>18, <1>21, ThreadedStill
<1>24. Sewn(r, s)
  BY <1>0, <1>16, <1>18, <1>19, <1>20, <1>23 DEF Sewn
<1> QED BY <1>16, <1>18, <1>21, <1>24, <1>22 DEF Renamed, r

\* The key of the i-th entry, if it is renumbered.
NewKey(m, s, i, all) == IF all THEN i - 1 ELSE Rank(m, s, i)

\* The first c entries have the keys of their places.
Ranked(g, m, s, c, all) ==
    /\ g.iNextIdx = NewKey(m, s, c + 1, all)
    /\ \A i \in 1 .. c : g.node[s[i]].key = IF all \/ m.node[s[i]].key \in IntKeys
                                          THEN NewKey(m, s, i, all) ELSE m.node[s[i]].key

\* The nodes s[i], i in T, renumbered: each has the key it had, a blob, or its
\* own integer below the automatic index.
Renumbered(g, m, s, T, all) ==
    /\ Sewn(g, s) /\ Keyed(g) /\ DOMAIN g.node = DOMAIN m.node /\ g.pLast = m.pLast
    /\ g.iNextIdx \in 0 .. Cardinality(T)
    /\ \A i \in (1 .. Len(s)) \ T : g.node[s[i]].key = m.node[s[i]].key
    /\ \A i \in T : \/ g.node[s[i]].key \in IntKeys /\ g.node[s[i]].key < g.iNextIdx
                    \/ g.node[s[i]].key \in BlobKeys /\ g.node[s[i]].key = m.node[s[i]].key
    /\ \A i, j \in T : g.node[s[i]].key = g.node[s[j]].key => i = j
    /\ g.pCur = m.pCur /\ SameVals(m, g)
    /\ \A c \in 0 .. Len(s) : T = 1 .. c => Ranked(g, m, s, c, all)

RehashNode(g, p, all) == IF all \/ g.node[p].key \in IntKeys THEN HashmapRehashIntNode(g, p) ELSE g

\* One node more renumbered, or left with its blob key.
LEMMA NodeRenumbered ==
    ASSUME NEW m, NEW s, IsOrder(s, DOMAIN m.node), Unique(m), NEW all,
           NEW T \in SUBSET (1 .. Len(s)), T # {}, NEW g, Renumbered(g, m, s, T \ {Max(T)}, all)
    PROVE  Renumbered(RehashNode(g, s[Max(T)], all), m, s, T, all)
<1> DEFINE i == Max(T)
           R == T \ {i}
           p == s[i]
           r == RehashNode(g, p, all)
           D == DOMAIN m.node
           x == g.iNextIdx
<1>0. /\ Len(s) \in Nat /\ \A j \in 1 .. Len(s) : s[j] \in D
      /\ \A j, k \in 1 .. Len(s) : s[j] = s[k] => j = k
      /\ IsFiniteSet(D) /\ Cardinality(D) = Len(s)
  BY OrderFacts, OrderLength
<1>1. /\ i \in T /\ i \in 1 .. Len(s) /\ Cardinality(R) = Cardinality(T) - 1
      /\ Cardinality(T) \in 0 .. Len(s) /\ R \subseteq T /\ Cardinality(R) \in 0 .. Len(s) - 1
      /\ T = R \cup {i} /\ i \notin R
  <2>1. /\ Cardinality(T) \in 0 .. Len(s) /\ i \in T /\ R \in SUBSET (1 .. Len(s))
        /\ Cardinality(R) = Cardinality(T) - 1
    BY <1>0, Subsets
  <2>2. Cardinality(R) \in 0 .. Len(s)
    BY <1>0, <2>1, Subsets
  <2> HIDE DEF i
  <2> QED BY <1>0, <2>1, <2>2
<1>2. /\ Sewn(g, s) /\ Keyed(g) /\ DOMAIN g.node = D /\ g.pLast = m.pLast /\ x \in 0 .. Cardinality(R)
      /\ \A j \in (1 .. Len(s)) \ R : g.node[s[j]].key = m.node[s[j]].key
      /\ \A j \in R : \/ g.node[s[j]].key \in IntKeys /\ g.node[s[j]].key < x
                      \/ g.node[s[j]].key \in BlobKeys /\ g.node[s[j]].key = m.node[s[j]].key
      /\ \A j, k \in R : g.node[s[j]].key = g.node[s[k]].key => j = k
      /\ g.pCur = m.pCur /\ SameVals(m, g)
      /\ \A c \in 0 .. Len(s) : R = 1 .. c => Ranked(g, m, s, c, all)
  BY DEF Renumbered
<1>3. ASSUME NEW c \in 0 .. Len(s), T = 1 .. c
      PROVE  c \in 1 .. Len(s) /\ i = c /\ Ranked(g, m, s, c - 1, all) /\ c \in Nat \ {0}
  <2>1. c \in Nat \ {0} /\ c \in 1 .. Len(s) /\ c - 1 \in 0 .. Len(s)
    BY <1>0, <1>3
  <2>2. i = c /\ R = 1 .. c - 1
    BY <1>3, <2>1, PrefixMax
  <2> QED BY <1>2, <2>1, <2>2
<1> HIDE DEF i, R
<1>4. p \in D /\ g.node[p].key = m.node[p].key /\ g.node[p].key \in Keys
      /\ \A j \in 1 .. Len(s) : s[j] = p <=> j = i
  <2>1. p \in D /\ g.node[p].key = m.node[p].key /\ \A j \in 1 .. Len(s) : s[j] = p <=> j = i
    BY <1>0, <1>1, <1>2
  <2>2. g.node \in [D -> Cell]
    BY <1>2 DEF Sewn, Typed, Arrays
  <2>3. g.node[p] \in Cell
    BY <2>1, <2>2
  <2> QED BY <2>1, <2>3 DEF Cell
<1>5. x \in IntKeys /\ x \in 0 .. Cardinality(T) /\ x + 1 \in 0 .. Cardinality(T)
  <2>1. Cardinality(D) <= Cardinality(Nodes) /\ Cardinality(Nodes) \in Nat
    <3>1. D \in SUBSET Nodes
      BY <1>2 DEF Sewn, Typed
    <3> HIDE DEF D
    <3> QED BY <3>1, HashmapAssumption, FS_Subset, FS_CardinalityType
  <2>2. x \in 0 .. Cardinality(Nodes)
    BY <1>0, <1>1, <1>2, <2>1
  <2>3. x \in IntKeys
    BY <2>2, HashmapAssumption
  <2> HIDE DEF x
  <2> QED BY <1>0, <1>1, <1>2, <2>3
<1>6. CASE all \/ g.node[p].key \in IntKeys
  <2>1. r = HashmapRehashIntNode(g, p)
    BY <1>6 DEF RehashNode
  <2>2. Renamed(g, r, s, p, x) /\ r.iNextIdx = x + 1
    BY <1>2, <1>4, <1>5, <2>1, NodeRehashed
  <2> HIDE DEF r, p, x
  <2>3. /\ Sewn(r, s) /\ DOMAIN r.node = D /\ r.pLast = m.pLast
        /\ r.node[p].key = x /\ r.node[p].hash = Hash(x)
        /\ \A q \in D \ {p} : r.node[q].key = g.node[q].key /\ r.node[q].hash = g.node[q].hash
        /\ r.pCur = m.pCur /\ SameVals(m, r)
    BY <1>2, <2>2 DEF Renamed, SameVals
  <2>4. Keyed(r)
    BY <1>2, <2>3 DEF Keyed
  <2>5. /\ \A j \in (1 .. Len(s)) \ {i} : r.node[s[j]].key = g.node[s[j]].key
        /\ r.node[s[i]].key = x
    BY <1>0, <1>4, <2>3 DEF p
  <2>6. x \in Int /\ x < x + 1 /\ \A k \in IntKeys : k \in Int
    BY <1>5, HashmapAssumption
  <2>7. \A j \in R : j \in 1 .. Len(s) /\ j # i
    BY <1>1
  <2>8. \A j \in T : \/ r.node[s[j]].key \in IntKeys /\ r.node[s[j]].key < r.iNextIdx
                     \/ r.node[s[j]].key \in BlobKeys /\ r.node[s[j]].key = m.node[s[j]].key
    <3> SUFFICES ASSUME NEW j \in T
                 PROVE  \/ r.node[s[j]].key \in IntKeys /\ r.node[s[j]].key < x + 1
                        \/ r.node[s[j]].key \in BlobKeys /\ r.node[s[j]].key = m.node[s[j]].key
      BY <2>2
    <3>1. CASE j = i
      BY <1>5, <2>5, <2>6, <3>1
    <3>2. CASE j \in R
      <4>1. r.node[s[j]].key = g.node[s[j]].key
        BY <2>5, <2>7, <3>2
      <4>2. \/ g.node[s[j]].key \in IntKeys /\ g.node[s[j]].key < x
            \/ g.node[s[j]].key \in BlobKeys /\ g.node[s[j]].key = m.node[s[j]].key
        BY <1>2, <3>2
      <4>3. g.node[s[j]].key \in IntKeys /\ g.node[s[j]].key < x => g.node[s[j]].key < x + 1
        BY <2>6
      <4> QED BY <4>1, <4>2, <4>3
    <3> QED BY <1>1, <3>1, <3>2
  <2>9. \A j, k \in T : r.node[s[j]].key = r.node[s[k]].key => j = k
    <3>1. \A j \in R : r.node[s[j]].key = g.node[s[j]].key /\ g.node[s[j]].key # x
      <4> SUFFICES ASSUME NEW j \in R PROVE r.node[s[j]].key = g.node[s[j]].key /\ g.node[s[j]].key # x
        OBVIOUS
      <4>1. \/ g.node[s[j]].key \in IntKeys /\ g.node[s[j]].key < x
            \/ g.node[s[j]].key \in BlobKeys
        BY <1>2
      <4>2. x \notin BlobKeys
        BY <2>6, HashmapAssumption
      <4> QED BY <2>5, <2>6, <2>7, <4>1, <4>2
    <3> SUFFICES ASSUME NEW j \in T, NEW k \in T, r.node[s[j]].key = r.node[s[k]].key PROVE j = k
      OBVIOUS
    <3>2. (j \in R \/ j = i) /\ (k \in R \/ k = i)
      BY <1>1
    <3>3. CASE j \in R /\ k \in R
      <4>1. g.node[s[j]].key = g.node[s[k]].key
        BY <3>1, <3>3
      <4> QED BY <1>2, <3>3, <4>1
    <3>4. CASE j = i /\ k \in R
      BY <2>5, <3>1, <3>4
    <3>5. CASE j \in R /\ k = i
      BY <2>5, <3>1, <3>5
    <3> QED BY <3>2, <3>3, <3>4, <3>5
  <2>10. \A j \in (1 .. Len(s)) \ T : r.node[s[j]].key = m.node[s[j]].key
    BY <1>1, <1>2, <2>5
  <2>11. ASSUME NEW c \in 0 .. Len(s), T = 1 .. c PROVE Ranked(r, m, s, c, all)
    <3>1. c \in 1 .. Len(s) /\ i = c /\ Ranked(g, m, s, c - 1, all) /\ c \in Nat \ {0}
      BY <1>3, <2>11
    <3>2. x = NewKey(m, s, c, all) /\ NewKey(m, s, c + 1, all) = NewKey(m, s, c, all) + 1
      <4>1. (c - 1) + 1 = c /\ (c + 1) - 1 = (c - 1) + 1
        BY <3>1
      <4>2. x = NewKey(m, s, c, all)
        BY <3>1, <4>1 DEF Ranked, x
      <4>3. ~all => Rank(m, s, c + 1) = Rank(m, s, c) + 1
        BY <1>4, <1>6, <3>1, RankNext DEF p
      <4> QED BY <4>1, <4>2, <4>3 DEF NewKey
    <3>3. \A j \in 1 .. c : j # c => j \in 1 .. c - 1
      BY <3>1
    <3>4. \A j \in 1 .. c : r.node[s[j]].key = IF all \/ m.node[s[j]].key \in IntKeys
                                              THEN NewKey(m, s, j, all) ELSE m.node[s[j]].key
      <4> SUFFICES ASSUME NEW j \in 1 .. c
                   PROVE  r.node[s[j]].key = IF all \/ m.node[s[j]].key \in IntKeys
                                             THEN NewKey(m, s, j, all) ELSE m.node[s[j]].key
        OBVIOUS
      <4>1. CASE j = c
        BY <1>4, <1>6, <2>5, <3>1, <3>2, <4>1 DEF p
      <4>2. CASE j # c
        <5>1. j \in 1 .. c - 1 /\ j \in (1 .. Len(s)) \ {i}
          BY <1>0, <3>1, <3>3, <4>2
        <5>2. r.node[s[j]].key = g.node[s[j]].key
          BY <2>5, <5>1
        <5> QED BY <3>1, <5>1, <5>2 DEF Ranked
      <4> QED BY <4>1, <4>2
    <3> QED BY <2>2, <3>2, <3>4 DEF Ranked
  <2> QED BY <1>5, <2>2, <2>3, <2>4, <2>8, <2>9, <2>10, <2>11 DEF Renumbered, r, p, i
<1>7. CASE ~(all \/ g.node[p].key \in IntKeys)
  <2>1. r = g
    BY <1>7 DEF RehashNode
  <2>2. g.node[p].key \in BlobKeys
    BY <1>4, <1>7 DEF Keys
  <2>3. \A j, k \in T : g.node[s[j]].key = g.node[s[k]].key => j = k
    <3>1. \A j \in R : g.node[s[j]].key # g.node[p].key
      <4> SUFFICES ASSUME NEW j \in R, g.node[s[j]].key = g.node[p].key PROVE FALSE
        OBVIOUS
      <4>1. m.node[s[j]].key = m.node[p].key
        BY <1>2, <1>4, <1>7
      <4>2. j \in 1 .. Len(s) /\ s[j] \in D /\ j # i
        BY <1>0, <1>1
      <4>3. s[j] = p
        BY <1>4, <4>1, <4>2 DEF Unique
      <4> QED BY <1>4, <4>2, <4>3
    <3> HIDE DEF r
    <3> QED BY <1>1, <1>2, <3>1
  <2>4. \A j \in T : \/ g.node[s[j]].key \in IntKeys /\ g.node[s[j]].key < x
                     \/ g.node[s[j]].key \in BlobKeys /\ g.node[s[j]].key = m.node[s[j]].key
    BY <1>1, <1>2, <1>4, <2>2
  <2>5. \A j \in (1 .. Len(s)) \ T : g.node[s[j]].key = m.node[s[j]].key
    BY <1>1, <1>2
  <2> HIDE DEF r
  <2>6. ASSUME NEW c \in 0 .. Len(s), T = 1 .. c PROVE Ranked(g, m, s, c, all)
    <3>1. c \in 1 .. Len(s) /\ i = c /\ Ranked(g, m, s, c - 1, all) /\ c \in Nat \ {0}
      BY <1>3, <2>6
    <3>2. ~all /\ m.node[s[c]].key \notin IntKeys /\ g.node[s[c]].key = m.node[s[c]].key
      BY <1>4, <1>7, <3>1 DEF p
    <3>3. (c - 1) + 1 = c /\ \A j \in 1 .. c : j # c => j \in 1 .. c - 1
      BY <3>1
    <3>4. NewKey(m, s, c + 1, all) = NewKey(m, s, c, all)
      BY <3>1, <3>2, RankNext DEF NewKey
    <3>5. \A j \in 1 .. c : g.node[s[j]].key = IF all \/ m.node[s[j]].key \in IntKeys
                                              THEN NewKey(m, s, j, all) ELSE m.node[s[j]].key
      BY <3>1, <3>2, <3>3 DEF Ranked
    <3> QED BY <3>1, <3>3, <3>4, <3>5 DEF Ranked
  <2>7. Renumbered(r, m, s, T, all)
    BY <1>2, <1>5, <2>1, <2>3, <2>4, <2>5, <2>6 DEF Renumbered
  <2> QED BY <2>7 DEF r, i
<1> QED BY <1>6, <1>7

\* All entries renumbered (HashmapSortRehash, PH7_HashmapRehash of array_shift).
LEMMA NodesRehashed ==
    ASSUME NEW m, NEW s, Sewn(m, s), Keyed(m), Unique(m), NEW all
    PROVE  Renumbered(Rehashed(m, all), m, s, 1 .. Len(s), all)
<1> DEFINE base == [m EXCEPT !.iNextIdx = 0]
           n == Len(s)
           I == SUBSET (1 .. n)
           U == AllArrays
           V == [T \in I |-> {g \in U : Renumbered(g, m, s, T, all)}]
           step == [i \in 1 .. n |-> [g \in U |-> RehashNode(g, s[i], all)]]
           W(f) == [T \in SUBSET DOMAIN s |->
                       IF T = {} THEN base ELSE RehashNode(f[T \ {Max(T)}], s[Max(T)], all)]
           F == CHOOSE f : f = W(f)
<1>0. ASSUME NEW g, NEW T, Renumbered(g, m, s, T, all) PROVE g \in U
  <2>1. Typed(g)
    BY <1>0 DEF Renumbered, Sewn
  <2> QED BY <2>1 DEF Typed, AllArrays
<1>1. n \in Nat /\ DOMAIN s = 1 .. n
  <2>1. n \in Nat /\ s \in Seq(DOMAIN m.node)
    BY OrderFacts DEF Sewn, Threaded
  <2> QED BY <2>1, LenProperties
<1>2. base \in V[{}]
  <2>1. /\ Typed(m) /\ Threaded(m, s) /\ Hung(m, DOMAIN m.node) /\ (DOMAIN m.node # {} => m.nSize # 0)
        /\ m.pCur \in DOMAIN m.node \cup {Nil} /\ m \in Arrays(DOMAIN m.node, m.nSize)
    BY DEF Sewn, Typed
  <2>2. /\ base \in Arrays(DOMAIN m.node, m.nSize) /\ base.node = m.node /\ base.apBucket = m.apBucket
        /\ base.nSize = m.nSize /\ base.pFirst = m.pFirst /\ base.pLast = m.pLast
        /\ base.nEntry = m.nEntry /\ base.pCur = m.pCur /\ base.iNextIdx = 0
    BY <2>1 DEF Arrays
  <2> HIDE DEF base
  <2>3. Typed(base)
    BY <2>1, <2>2 DEF Typed
  <2>4. Threaded(base, s)
    BY <2>1, <2>2, ThreadedStill
  <2>5. Hung(base, DOMAIN m.node)
    BY <2>1, <2>2, HungStill
  <2>6. Sewn(base, s) /\ Keyed(base)
    BY <2>1, <2>2, <2>3, <2>4, <2>5 DEF Sewn, Keyed
  <2>7. {} \in I /\ Cardinality({}) = 0
    BY FS_EmptySet
  <2>8. ASSUME NEW c \in 0 .. Len(s), {} = 1 .. c PROVE Ranked(base, m, s, c, all)
    <3>1. c = 0
      BY <1>1, <2>8
    <3>2. NewKey(m, s, 0 + 1, all) = 0
      BY RankNext DEF NewKey
    <3> QED BY <2>2, <3>1, <3>2 DEF Ranked
  <2>9. Renumbered(base, m, s, {}, all)
    BY <2>2, <2>6, <2>7, <2>8 DEF Renumbered, SameVals
  <2> HIDE DEF U
  <2> QED BY <1>0, <2>7, <2>9
<1> HIDE DEF base
<1>3. ASSUME NEW T \in I, T # {}, NEW g \in V[T \ {Max(T)}]
      PROVE  RehashNode(g, s[Max(T)], all) \in V[T]
  <2>1. T \ {Max(T)} \in I
    OBVIOUS
  <2>2. Renumbered(g, m, s, T \ {Max(T)}, all)
    BY <2>1
  <2>3. IsOrder(s, DOMAIN m.node)
    BY DEF Sewn, Threaded
  <2>4. Renumbered(RehashNode(g, s[Max(T)], all), m, s, T, all)
    BY <1>3, <2>2, <2>3, NodeRenumbered
  <2> HIDE DEF U
  <2> QED BY <1>0, <2>4
<1>4. FoldTyped(n, U, V, base, step)
  <2>1. U # {} /\ V \in [I -> SUBSET U]
    BY <1>2
  <2>2. ASSUME NEW T \in I, T # {}, NEW g \in V[T \ {Max(T)}]
        PROVE  step[Max(T)][g] \in V[T]
    <3>1. Max(T) \in 1 .. n /\ T \ {Max(T)} \in I
      BY <1>1, <2>2, Subsets
    <3> DEFINE R == T \ {Max(T)}
    <3>2. V[R] \subseteq U
      <4> HIDE DEF U, I
      <4> QED BY <2>1, <3>1
    <3>3. g \in U
      BY <3>2
    <3>4. step[Max(T)][g] = RehashNode(g, s[Max(T)], all)
      BY <3>1, <3>3
    <3> QED BY <1>3, <2>2, <3>4
  <2> HIDE DEF U, V, step
  <2> QED BY <1>1, <1>2, <2>1, <2>2 DEF FoldTyped
<1>5. PICK f : FoldsTo(f, n, U, base, step)
  <2> HIDE DEF n, U, V, step
  <2> QED BY <1>4, FoldDefined
<1>6. f = W(f)
  <2>0. f \in [I -> U] /\ \A T \in I : f[T] = IF T = {} THEN base ELSE step[Max(T)][f[T \ {Max(T)}]]
    BY <1>5 DEF FoldsTo
  <2>1. ASSUME NEW T \in I, T # {}
        PROVE  step[Max(T)][f[T \ {Max(T)}]] = RehashNode(f[T \ {Max(T)}], s[Max(T)], all)
    <3>1. Max(T) \in 1 .. n /\ T \ {Max(T)} \in I
      BY <1>1, <2>1, Subsets
    <3> DEFINE R == T \ {Max(T)}
    <3>2. f[R] \in U
      <4> HIDE DEF U, I, R
      <4> QED BY <2>0, <3>1 DEF R
    <3> QED BY <3>1, <3>2
  <2>2. \A T \in I : f[T] = IF T = {} THEN base ELSE RehashNode(f[T \ {Max(T)}], s[Max(T)], all)
    <3> HIDE DEF U, I, step
    <3> QED BY <2>0, <2>1
  <2>3. I = SUBSET DOMAIN s
    BY <1>1
  <2> HIDE DEF U, I, step
  <2>4. f = [T \in I |-> IF T = {} THEN base ELSE RehashNode(f[T \ {Max(T)}], s[Max(T)], all)]
    BY <2>0, <2>2
  <2> QED BY <2>3, <2>4
<1>7. F = W(F)
  <2> HIDE DEF W
  <2> QED BY <1>6
<1>8. FoldLeft(LAMBDA g, p : IF all \/ g.node[p].key \in IntKeys THEN HashmapRehashIntNode(g, p) ELSE g, base, s) = F[DOMAIN s]
  BY DEF FoldLeft, MapThenFoldSet, RehashNode
<1> HIDE DEF F
<1>9. F[1 .. n] \in V[1 .. n]
  <2>0. \A T \in I : F[T] = W(F)[T]
    <3> HIDE DEF W
    <3> QED BY <1>7
  <2>1. F[{}] \in V[{}]
    <3>1. {} \in I /\ {} \in SUBSET DOMAIN s
      OBVIOUS
    <3>2. F[{}] = base
      <4> HIDE DEF I
      <4> QED BY <2>0, <3>1
    <3> HIDE DEF V
    <3> QED BY <1>2, <3>2
  <2>2. ASSUME NEW T \in I, T # {} /\ F[T \ {Max(T)}] \in V[T \ {Max(T)}]
        PROVE  F[T] \in V[T]
    <3>1. F[T] = RehashNode(F[T \ {Max(T)}], s[Max(T)], all)
      BY <1>1, <2>0, <2>2
    <3> HIDE DEF V, I, W
    <3> QED BY <1>3, <2>2, <3>1
  <2> HIDE DEF V
  <2>3. FoldKeeps(F, n, V)
    BY <1>1, <2>1, <2>2 DEF FoldKeeps
  <2> HIDE DEF n
  <2> QED BY <2>3, FoldSolution
<1>10. 1 .. n \in I
  OBVIOUS
<1>11. Entries(m) = s
  BY EntriesListed DEF Sewn
<1>12. Rehashed(m, all) = F[DOMAIN s]
  BY <1>8, <1>11 DEF Rehashed, base
<1> QED BY <1>1, <1>9, <1>10, <1>12

\* The renumbered array: its keys are its own and below the automatic index.
LEMMA RenumberedKeys ==
    ASSUME NEW m, NEW s, NEW r, NEW all, IsOrder(s, DOMAIN m.node), Renumbered(r, m, s, 1 .. Len(s), all)
    PROVE  Sewn(r, s) /\ Keyed(r) /\ Unique(r) /\ ~IndexBehind(r) /\ DOMAIN r.node = DOMAIN m.node
           /\ r.pLast = m.pLast
<1> DEFINE D == DOMAIN m.node
<1>0. /\ Sewn(r, s) /\ Keyed(r) /\ DOMAIN r.node = D /\ r.pLast = m.pLast
      /\ \A i \in 1 .. Len(s) : \/ r.node[s[i]].key \in IntKeys /\ r.node[s[i]].key < r.iNextIdx
                                \/ r.node[s[i]].key \in BlobKeys
      /\ \A i, j \in 1 .. Len(s) : r.node[s[i]].key = r.node[s[j]].key => i = j
      /\ r.iNextIdx \in Int
  BY DEF Renumbered, Sewn, Typed, Arrays
<1>1. \A x \in D : \E i \in 1 .. Len(s) : s[i] = x
  BY OrderFacts
<1>2. Unique(r)
  BY <1>0, <1>1 DEF Unique
<1>3. ~IndexBehind(r)
  <2> SUFFICES ASSUME NEW q \in D, r.node[q].key \in IntKeys, r.node[q].key >= r.iNextIdx PROVE FALSE
    BY <1>0 DEF IndexBehind
  <2>1. r.node[q].key \in Int /\ r.node[q].key \notin BlobKeys
    BY HashmapAssumption
  <2>2. r.node[q].key < r.iNextIdx
    BY <1>0, <1>1, <2>1
  <2> QED BY <1>0, <2>1, <2>2
<1> QED BY <1>0, <1>2, <1>3

-----------------------------------------------------------------------------
(* The merge sort.                                                           *)

ItemsOf(c, T) == UNION {Items(c[i]) : i \in T}

\* Sorted lists of members of S, none of them in B or twice in a list or in two.
Lists(m, up, c, S, B) ==
    /\ c \in Seq(Seq(S)) /\ B \subseteq S /\ Valued(m, S)
    /\ \A i \in 1 .. Len(c) : Distinct(c[i]) /\ Rising(m, up, c[i]) /\ Items(c[i]) \cap B = {}
    /\ \A i, j \in 1 .. Len(c) : i # j => Items(c[i]) \cap Items(c[j]) = {}

\* Each list is an order of its own items.
LEMMA ListTyped ==
    ASSUME NEW m, NEW up, NEW c, NEW S, NEW B, Lists(m, up, c, S, B)
    PROVE  /\ Len(c) \in Nat /\ DOMAIN c = 1 .. Len(c)
           /\ \A i \in 1 .. Len(c) : /\ c[i] \in Seq(S) /\ Items(c[i]) \subseteq S
                                    /\ Sorted(m, up, c[i], Items(c[i]))
<1>1. Len(c) \in Nat /\ DOMAIN c = 1 .. Len(c)
  BY LenProperties DEF Lists
<1>2. \A i \in 1 .. Len(c) : c[i] \in Seq(S)
  BY <1>1 DEF Lists
<1>3. ASSUME NEW i \in 1 .. Len(c) PROVE Sorted(m, up, c[i], Items(c[i])) /\ Items(c[i]) \subseteq S
  <2> DEFINE e == c[i]
  <2>1. e \in Seq(S) /\ Distinct(e) /\ Rising(m, up, e)
    BY <1>2 DEF Lists
  <2> HIDE DEF e
  <2>2. Len(e) \in Nat /\ e \in [1 .. Len(e) -> S]
    BY <2>1, LenProperties
  <2>3. e \in [1 .. Len(e) -> Items(e)] /\ Items(e) \subseteq S
    BY <2>2 DEF Items
  <2>4. e \in Seq(Items(e))
    <3> DEFINE X == Items(e)
               l == Len(e)
    <3>1. e \in [1 .. l -> X] /\ l \in Nat
      BY <2>2, <2>3
    <3> HIDE DEF X, l
    <3>2. e \in Seq(X)
      BY <3>1, SeqDef
    <3> QED BY <3>2 DEF X
  <2> QED BY <2>1, <2>3, <2>4 DEF Sorted, IsOrder, e
<1> QED BY <1>1, <1>2, <1>3

\* An order of a subset is a sequence over the set.
LEMMA OrderTyped ==
    ASSUME NEW S, NEW T \in SUBSET S, NEW s, IsOrder(s, T)
    PROVE  s \in Seq(S)
<1>1. Len(s) \in Nat /\ s \in [1 .. Len(s) -> T]
  BY OrderFacts, LenProperties
<1> DEFINE l == Len(s)
<1>2. l \in Nat /\ s \in [1 .. l -> S]
  BY <1>1
<1> HIDE DEF l
<1> QED BY <1>2, SeqDef

\* One list merged, on either side.
LEMMA MergedOnce ==
    ASSUME NEW m, NEW up, NEW c, NEW S, NEW B, Lists(m, up, c, S, B),
           NEW T \in SUBSET (1 .. Len(c)), T # {}, NEW x, Sorted(m, up, x, B \cup ItemsOf(c, T \ {Max(T)}))
    PROVE  /\ Sorted(m, up, HashmapNodeMerge(m, up, x, c[Max(T)]), B \cup ItemsOf(c, T))
           /\ Sorted(m, up, HashmapNodeMerge(m, up, c[Max(T)], x), B \cup ItemsOf(c, T))
<1> DEFINE i == Max(T)
           R == T \ {i}
           X == B \cup ItemsOf(c, R)
           Y == Items(c[i])
<1>1. i \in T /\ i \in 1 .. Len(c) /\ T = R \cup {i} /\ \A j \in R : j \in 1 .. Len(c) /\ j # i
  <2>1. Len(c) \in Nat
    BY ListTyped
  <2>2. i \in T
    BY <2>1, Subsets
  <2> QED BY <2>2
<1> HIDE DEF i, R
<1>2. Sorted(m, up, x, X) /\ Sorted(m, up, c[i], Y)
  BY <1>1, ListTyped DEF i, R
<1>3. X \cap Y = {}
  <2>1. Y \cap B = {} /\ \A j \in R : Items(c[j]) \cap Y = {}
    BY <1>1 DEF Lists
  <2> QED BY <2>1 DEF ItemsOf
<1>4. X \cup Y = B \cup ItemsOf(c, T)
  <2>1. ItemsOf(c, T) = ItemsOf(c, R) \cup Y
    BY <1>1 DEF ItemsOf
  <2> QED BY <2>1
<1>8. Valued(m, X) /\ Valued(m, Y)
  <2>1. X \subseteq S /\ Y \subseteq S
    <3>1. B \subseteq S /\ \A j \in 1 .. Len(c) : Items(c[j]) \subseteq S
      BY ListTyped DEF Lists
    <3> QED BY <1>1, <3>1 DEF ItemsOf
  <2> QED BY <2>1 DEF Lists, Valued
<1> HIDE DEF X, Y
<1>5. Sorted(m, up, HashmapNodeMerge(m, up, x, c[i]), X \cup Y)
  BY <1>2, <1>3, <1>8, MergeOrder
<1>6. Sorted(m, up, HashmapNodeMerge(m, up, c[i], x), Y \cup X)
  BY <1>2, <1>3, <1>8, MergeOrder
<1>7. Y \cup X = X \cup Y
  OBVIOUS
<1> QED BY <1>4, <1>5, <1>6, <1>7 DEF i

\* The merged items are members of S.
LEMMA ItemsTyped ==
    ASSUME NEW m, NEW up, NEW c, NEW S, NEW B, Lists(m, up, c, S, B), NEW T \in SUBSET (1 .. Len(c))
    PROVE  B \cup ItemsOf(c, T) \subseteq S
<1>1. \A i \in T : Items(c[i]) \subseteq S
  BY ListTyped
<1>2. B \subseteq S
  BY DEF Lists
<1> QED BY <1>1, <1>2 DEF ItemsOf

MergeOnto(m, up, base, c) == FoldLeft(LAMBDA x, y : HashmapNodeMerge(m, up, x, y), base, c)

\* Every list merged onto the first.
LEMMA MergedAll ==
    ASSUME NEW m, NEW up, NEW c, NEW S, NEW B, Lists(m, up, c, S, B), NEW x, Sorted(m, up, x, B)
    PROVE  Sorted(m, up, MergeOnto(m, up, x, c), B \cup ItemsOf(c, 1 .. Len(c)))
<1> DEFINE n == Len(c)
           I == SUBSET (1 .. n)
           U == Seq(S)
           V == [T \in I |-> {y \in U : Sorted(m, up, y, B \cup ItemsOf(c, T))}]
           step == [i \in 1 .. n |-> [y \in U |-> HashmapNodeMerge(m, up, y, c[i])]]
           W(f) == [T \in SUBSET DOMAIN c |->
                       IF T = {} THEN x ELSE HashmapNodeMerge(m, up, f[T \ {Max(T)}], c[Max(T)])]
           F == CHOOSE f : f = W(f)
<1>0. ASSUME NEW T \in I, NEW y, Sorted(m, up, y, B \cup ItemsOf(c, T)) PROVE y \in U
  BY <1>0, ItemsTyped, OrderTyped DEF Sorted
<1>1. n \in Nat /\ DOMAIN c = 1 .. n
  BY ListTyped
<1>2. x \in V[{}]
  <2>1. {} \in I /\ B \cup ItemsOf(c, {}) = B
    BY DEF ItemsOf
  <2> HIDE DEF U
  <2> QED BY <1>0, <2>1
<1>3. ASSUME NEW T \in I, T # {}, NEW g \in V[T \ {Max(T)}]
      PROVE  HashmapNodeMerge(m, up, g, c[Max(T)]) \in V[T]
  <2>1. T \ {Max(T)} \in I
    OBVIOUS
  <2>2. Sorted(m, up, g, B \cup ItemsOf(c, T \ {Max(T)}))
    BY <2>1
  <2>3. Sorted(m, up, HashmapNodeMerge(m, up, g, c[Max(T)]), B \cup ItemsOf(c, T))
    BY <1>3, <2>2, MergedOnce
  <2> HIDE DEF U
  <2> QED BY <1>0, <2>3
<1>4. FoldTyped(n, U, V, x, step)
  <2>1. U # {} /\ V \in [I -> SUBSET U]
    BY <1>2
  <2>2. ASSUME NEW T \in I, T # {}, NEW g \in V[T \ {Max(T)}]
        PROVE  step[Max(T)][g] \in V[T]
    <3>1. Max(T) \in 1 .. n /\ T \ {Max(T)} \in I
      BY <1>1, <2>2, Subsets
    <3> DEFINE R == T \ {Max(T)}
    <3>2. V[R] \subseteq U
      <4> HIDE DEF U, I
      <4> QED BY <2>1, <3>1
    <3>3. g \in U
      BY <3>2
    <3>4. step[Max(T)][g] = HashmapNodeMerge(m, up, g, c[Max(T)])
      BY <3>1, <3>3
    <3> QED BY <1>3, <2>2, <3>4
  <2> HIDE DEF U, V, step
  <2> QED BY <1>1, <1>2, <2>1, <2>2 DEF FoldTyped
<1>5. PICK f : FoldsTo(f, n, U, x, step)
  <2> HIDE DEF n, U, V, step
  <2> QED BY <1>4, FoldDefined
<1>6. f = W(f)
  <2>0. f \in [I -> U] /\ \A T \in I : f[T] = IF T = {} THEN x ELSE step[Max(T)][f[T \ {Max(T)}]]
    BY <1>5 DEF FoldsTo
  <2>1. ASSUME NEW T \in I, T # {}
        PROVE  step[Max(T)][f[T \ {Max(T)}]] = HashmapNodeMerge(m, up, f[T \ {Max(T)}], c[Max(T)])
    <3>1. Max(T) \in 1 .. n /\ T \ {Max(T)} \in I
      BY <1>1, <2>1, Subsets
    <3> DEFINE R == T \ {Max(T)}
    <3>2. f[R] \in U
      <4> HIDE DEF U, I, R
      <4> QED BY <2>0, <3>1 DEF R
    <3> QED BY <3>1, <3>2
  <2>2. \A T \in I : f[T] = IF T = {} THEN x ELSE HashmapNodeMerge(m, up, f[T \ {Max(T)}], c[Max(T)])
    <3> HIDE DEF U, I, step
    <3> QED BY <2>0, <2>1
  <2>3. I = SUBSET DOMAIN c
    BY <1>1
  <2> HIDE DEF U, I, step
  <2>4. f = [T \in I |-> IF T = {} THEN x ELSE HashmapNodeMerge(m, up, f[T \ {Max(T)}], c[Max(T)])]
    BY <2>0, <2>2
  <2> QED BY <2>3, <2>4
<1>7. F = W(F)
  <2> HIDE DEF W
  <2> QED BY <1>6
<1>8. MergeOnto(m, up, x, c) = F[DOMAIN c]
  BY DEF FoldLeft, MapThenFoldSet, MergeOnto
<1> HIDE DEF F
<1>9. F[1 .. n] \in V[1 .. n]
  <2>0. \A T \in I : F[T] = W(F)[T]
    <3> HIDE DEF W
    <3> QED BY <1>7
  <2>1. F[{}] \in V[{}]
    <3>1. {} \in I /\ {} \in SUBSET DOMAIN c
      OBVIOUS
    <3>2. F[{}] = x
      <4> HIDE DEF I
      <4> QED BY <2>0, <3>1
    <3> HIDE DEF V
    <3> QED BY <1>2, <3>2
  <2>2. ASSUME NEW T \in I, T # {} /\ F[T \ {Max(T)}] \in V[T \ {Max(T)}]
        PROVE  F[T] \in V[T]
    <3>1. F[T] = HashmapNodeMerge(m, up, F[T \ {Max(T)}], c[Max(T)])
      BY <1>1, <2>0, <2>2
    <3> HIDE DEF V, I, W
    <3> QED BY <1>3, <2>2, <3>1
  <2> HIDE DEF V
  <2>3. FoldKeeps(F, n, V)
    BY <1>1, <2>1, <2>2 DEF FoldKeeps
  <2> HIDE DEF n
  <2> QED BY <2>3, FoldSolution
<1>10. 1 .. n \in I
  OBVIOUS
<1> QED BY <1>1, <1>8, <1>9, <1>10

MergeBefore(m, up, base, c) == FoldLeft(LAMBDA x, y : HashmapNodeMerge(m, up, y, x), base, c)

\* The same, each list before what was merged.
LEMMA MergedBefore ==
    ASSUME NEW m, NEW up, NEW c, NEW S, NEW B, Lists(m, up, c, S, B), NEW base, Sorted(m, up, base, B)
    PROVE  Sorted(m, up, MergeBefore(m, up, base, c), B \cup ItemsOf(c, 1 .. Len(c)))
<1> DEFINE n == Len(c)
           I == SUBSET (1 .. n)
           U == Seq(S)
           V == [T \in I |-> {y \in U : Sorted(m, up, y, B \cup ItemsOf(c, T))}]
           step == [i \in 1 .. n |-> [y \in U |-> HashmapNodeMerge(m, up, c[i], y)]]
           W(f) == [T \in SUBSET DOMAIN c |->
                       IF T = {} THEN base ELSE HashmapNodeMerge(m, up, c[Max(T)], f[T \ {Max(T)}])]
           F == CHOOSE f : f = W(f)
<1>0. ASSUME NEW T \in I, NEW y, Sorted(m, up, y, B \cup ItemsOf(c, T)) PROVE y \in U
  BY <1>0, ItemsTyped, OrderTyped DEF Sorted
<1>1. n \in Nat /\ DOMAIN c = 1 .. n
  BY ListTyped
<1>2. base \in V[{}]
  <2>1. {} \in I /\ B \cup ItemsOf(c, {}) = B
    BY DEF ItemsOf
  <2> HIDE DEF U
  <2> QED BY <1>0, <2>1
<1>3. ASSUME NEW T \in I, T # {}, NEW g \in V[T \ {Max(T)}]
      PROVE  HashmapNodeMerge(m, up, c[Max(T)], g) \in V[T]
  <2>1. T \ {Max(T)} \in I
    OBVIOUS
  <2>2. Sorted(m, up, g, B \cup ItemsOf(c, T \ {Max(T)}))
    BY <2>1
  <2>3. Sorted(m, up, HashmapNodeMerge(m, up, c[Max(T)], g), B \cup ItemsOf(c, T))
    BY <1>3, <2>2, MergedOnce
  <2> HIDE DEF U
  <2> QED BY <1>0, <2>3
<1>4. FoldTyped(n, U, V, base, step)
  <2>1. U # {} /\ V \in [I -> SUBSET U]
    BY <1>2
  <2>2. ASSUME NEW T \in I, T # {}, NEW g \in V[T \ {Max(T)}]
        PROVE  step[Max(T)][g] \in V[T]
    <3>1. Max(T) \in 1 .. n /\ T \ {Max(T)} \in I
      BY <1>1, <2>2, Subsets
    <3> DEFINE R == T \ {Max(T)}
    <3>2. V[R] \subseteq U
      <4> HIDE DEF U, I
      <4> QED BY <2>1, <3>1
    <3>3. g \in U
      BY <3>2
    <3>4. step[Max(T)][g] = HashmapNodeMerge(m, up, c[Max(T)], g)
      BY <3>1, <3>3
    <3> QED BY <1>3, <2>2, <3>4
  <2> HIDE DEF U, V, step
  <2> QED BY <1>1, <1>2, <2>1, <2>2 DEF FoldTyped
<1>5. PICK f : FoldsTo(f, n, U, base, step)
  <2> HIDE DEF n, U, V, step
  <2> QED BY <1>4, FoldDefined
<1>6. f = W(f)
  <2>0. f \in [I -> U] /\ \A T \in I : f[T] = IF T = {} THEN base ELSE step[Max(T)][f[T \ {Max(T)}]]
    BY <1>5 DEF FoldsTo
  <2>1. ASSUME NEW T \in I, T # {}
        PROVE  step[Max(T)][f[T \ {Max(T)}]] = HashmapNodeMerge(m, up, c[Max(T)], f[T \ {Max(T)}])
    <3>1. Max(T) \in 1 .. n /\ T \ {Max(T)} \in I
      BY <1>1, <2>1, Subsets
    <3> DEFINE R == T \ {Max(T)}
    <3>2. f[R] \in U
      <4> HIDE DEF U, I, R
      <4> QED BY <2>0, <3>1 DEF R
    <3> QED BY <3>1, <3>2
  <2>2. \A T \in I : f[T] = IF T = {} THEN base ELSE HashmapNodeMerge(m, up, c[Max(T)], f[T \ {Max(T)}])
    <3> HIDE DEF U, I, step
    <3> QED BY <2>0, <2>1
  <2>3. I = SUBSET DOMAIN c
    BY <1>1
  <2> HIDE DEF U, I, step
  <2>4. f = [T \in I |-> IF T = {} THEN base ELSE HashmapNodeMerge(m, up, c[Max(T)], f[T \ {Max(T)}])]
    BY <2>0, <2>2
  <2> QED BY <2>3, <2>4
<1>7. F = W(F)
  <2> HIDE DEF W
  <2> QED BY <1>6
<1>8. MergeBefore(m, up, base, c) = F[DOMAIN c]
  BY DEF FoldLeft, MapThenFoldSet, MergeBefore
<1> HIDE DEF F
<1>9. F[1 .. n] \in V[1 .. n]
  <2>0. \A T \in I : F[T] = W(F)[T]
    <3> HIDE DEF W
    <3> QED BY <1>7
  <2>1. F[{}] \in V[{}]
    <3>1. {} \in I /\ {} \in SUBSET DOMAIN c
      OBVIOUS
    <3>2. F[{}] = base
      <4> HIDE DEF I
      <4> QED BY <2>0, <3>1
    <3> HIDE DEF V
    <3> QED BY <1>2, <3>2
  <2>2. ASSUME NEW T \in I, T # {} /\ F[T \ {Max(T)}] \in V[T \ {Max(T)}]
        PROVE  F[T] \in V[T]
    <3>1. F[T] = HashmapNodeMerge(m, up, c[Max(T)], F[T \ {Max(T)}])
      BY <1>1, <2>0, <2>2
    <3> HIDE DEF V, I, W
    <3> QED BY <1>3, <2>2, <3>1
  <2> HIDE DEF V
  <2>3. FoldKeeps(F, n, V)
    BY <1>1, <2>1, <2>2 DEF FoldKeeps
  <2> HIDE DEF n
  <2> QED BY <2>3, FoldSolution
<1>10. 1 .. n \in I
  OBVIOUS
<1> QED BY <1>1, <1>8, <1>9, <1>10

\* The table of the sort holds the nodes of P, in n lists of nodes of D.
Slots(m, up, a, n, D, P) == Lists(m, up, a, D, {}) /\ Len(a) = n /\ ItemsOf(a, 1 .. n) = P

\* A list without items is the empty sequence.
LEMMA EmptyItems ==
    ASSUME NEW S, NEW s \in Seq(S)
    PROVE  Items(s) = {} <=> s = <<>>
<1>1. Len(s) \in Nat
  BY LenProperties
<1>2. Items(s) = {} <=> Len(s) = 0
  BY <1>1 DEF Items
<1> QED BY <1>1, <1>2, EmptySeq

\* The table of the sort at first.
LEMMA EmptySlots ==
    ASSUME NEW m, NEW up, NEW D, Valued(m, D), NEW n \in Nat
    PROVE  Slots(m, up, [i \in 1 .. n |-> <<>>], n, D, {})
<1> DEFINE a == [i \in 1 .. n |-> <<>>]
<1>1. a \in Seq(Seq(D)) /\ Len(a) = n
  <2>1. <<>> \in Seq(D)
    BY EmptySeq
  <2>2. a \in [1 .. n -> Seq(D)]
    BY <2>1
  <2>3. DOMAIN a = 1 .. n
    OBVIOUS
  <2> HIDE DEF a
  <2>4. a \in Seq(Seq(D))
    BY <2>2, SeqDef
  <2> QED BY <2>3, <2>4, LenProperties
<1>2. \A i \in 1 .. n : a[i] = <<>>
  OBVIOUS
<1>3. Items(<<>>) = {} /\ Distinct(<<>>) /\ Rising(m, up, <<>>)
  BY DEF Items, Distinct, Rising
<1> HIDE DEF a
<1>4. \A i \in 1 .. n : Items(a[i]) = {} /\ Distinct(a[i]) /\ Rising(m, up, a[i])
  BY <1>2, <1>3
<1>5. Lists(m, up, a, D, {})
  BY <1>1, <1>4 DEF Lists
<1>6. ItemsOf(a, 1 .. n) = {}
  BY <1>4 DEF ItemsOf
<1> QED BY <1>1, <1>5, <1>6 DEF Slots, a

\* While a node is left there is a free slot.
LEMMA FreeSlot ==
    ASSUME NEW m, NEW up, NEW a, NEW D, IsFiniteSet(D), NEW P \in SUBSET D, P # D, Slots(m, up, a, Cardinality(D), D, P)
    PROVE  \E j \in 1 .. Cardinality(D) : a[j] = <<>>
<1> DEFINE n == Cardinality(D)
           I == 1 .. n
           f == [j \in I |-> a[j][1]]
<1>0. n \in Nat /\ Lists(m, up, a, D, {}) /\ Len(a) = n /\ ItemsOf(a, I) = P
  BY FS_CardinalityType DEF Slots
<1> SUFFICES ASSUME \A j \in I : a[j] # <<>> PROVE FALSE
  OBVIOUS
<1>1. ASSUME NEW j \in I PROVE a[j][1] \in Items(a[j]) /\ Items(a[j]) \subseteq P
  <2>1. a[j] \in Seq(D)
    BY <1>0, ListTyped
  <2>2. Len(a[j]) \in Nat /\ Len(a[j]) # 0
    BY <2>1, EmptySeq
  <2>3. 1 \in 1 .. Len(a[j])
    BY <2>2
  <2> QED BY <1>0, <2>3 DEF Items, ItemsOf
<1>2. \A i, j \in I : a[i][1] = a[j][1] => i = j
  <2> SUFFICES ASSUME NEW i \in I, NEW j \in I, a[i][1] = a[j][1], i # j PROVE FALSE
    OBVIOUS
  <2>1. Items(a[i]) \cap Items(a[j]) = {}
    BY <1>0 DEF Lists
  <2> QED BY <1>1, <2>1
<1>3. f \in Injection(I, P)
  BY <1>1, <1>2 DEF Injection, IsInjective
<1>4. IsFiniteSet(P) /\ Cardinality(P) < n /\ Cardinality(P) \in Nat
  <2>1. IsFiniteSet(P) /\ Cardinality(P) <= n /\ (n = Cardinality(P) => D = P)
    BY FS_Subset
  <2>2. Cardinality(P) \in Nat
    BY <2>1, FS_CardinalityType
  <2> HIDE DEF n
  <2> QED BY <1>0, <2>1, <2>2
<1>5. Cardinality(I) = n
  BY <1>0, FS_Interval
<1>6. Cardinality(I) <= Cardinality(P)
  <2> HIDE DEF f, I, n
  <2> QED BY <1>3, <1>4, FS_Injection
<1> HIDE DEF n, I
<1> QED BY <1>0, <1>4, <1>5, <1>6

\* The node merged with the lists before slot j.
LEMMA CarriedOrder ==
    ASSUME NEW m, NEW up, NEW a, NEW D, Lists(m, up, a, D, {}), NEW p \in D, p \notin ItemsOf(a, 1 .. Len(a)),
           NEW j \in 1 .. Len(a)
    PROVE  Sorted(m, up, Carried(m, up, a, p, j), {p} \cup ItemsOf(a, 1 .. j - 1))
<1> DEFINE c == SubSeq(a, 1, j - 1)
<1>0. Len(a) \in Nat /\ a \in Seq(Seq(D)) /\ j - 1 \in 0 .. Len(a) /\ j - 1 \in Nat
  BY ListTyped DEF Lists
<1>1. c \in Seq(Seq(D)) /\ Len(c) = j - 1 /\ \A i \in 1 .. j - 1 : c[i] = a[i] /\ i \in 1 .. Len(a)
  <2>1. /\ c \in Seq(Seq(D)) /\ Len(c) = IF 1 <= j - 1 THEN (j - 1) - 1 + 1 ELSE 0
        /\ \A i \in 1 .. (j - 1) - 1 + 1 : c[i] = a[1 + i - 1]
    BY <1>0, SubSeqProperties
  <2>2. Len(c) = j - 1
    BY <1>0, <2>1
  <2>3. ASSUME NEW i \in 1 .. j - 1 PROVE c[i] = a[i] /\ i \in 1 .. Len(a)
    <3>1. i \in 1 .. (j - 1) - 1 + 1 /\ 1 + i - 1 = i /\ i \in 1 .. Len(a)
      BY <1>0
    <3> HIDE DEF c
    <3> QED BY <2>1, <3>1
  <2> QED BY <2>1, <2>2, <2>3
<1> HIDE DEF c
<1>2. Lists(m, up, c, D, {p})
  <2>1. \A i \in 1 .. Len(a) : p \notin Items(a[i])
    BY DEF ItemsOf
  <2> QED BY <1>1, <2>1 DEF Lists
<1>3. Sorted(m, up, <<p>>, {p})
  <2>1. <<p>> \in Seq({p}) /\ Len(<<p>>) = 1 /\ <<p>>[1] = p
    OBVIOUS
  <2>2. \A i, k \in 1 .. Len(<<p>>) : ~(i < k)
    BY <2>1
  <2> QED BY <2>1, <2>2 DEF Sorted, Rising, IsOrder, Distinct, Items
<1>4. Sorted(m, up, MergeBefore(m, up, <<p>>, c), {p} \cup ItemsOf(c, 1 .. Len(c)))
  <2> DEFINE base == <<p>>
             B == {p}
  <2>1. Lists(m, up, c, D, B) /\ Sorted(m, up, base, B)
    BY <1>2, <1>3
  <2> HIDE DEF base, B
  <2>2. Sorted(m, up, MergeBefore(m, up, base, c), B \cup ItemsOf(c, 1 .. Len(c)))
    BY ONLY <2>1, MergedBefore
  <2> QED BY <2>2 DEF base, B
<1>5. ItemsOf(c, 1 .. Len(c)) = ItemsOf(a, 1 .. j - 1)
  BY <1>1 DEF ItemsOf
<1> QED BY <1>4, <1>5 DEF Carried, MergeBefore, c

\* A node put into the table of the sort (HashmapMergeSort).
LEMMA SlotTaken ==
    ASSUME NEW m, NEW up, NEW a, NEW D, IsFiniteSet(D), NEW P \in SUBSET D,
           Slots(m, up, a, Cardinality(D), D, P), NEW p \in D \ P
    PROVE  Slots(m, up, HashmapSortNode(m, up, a, p), Cardinality(D), D, P \cup {p})
<1> DEFINE n == Cardinality(D)
           r == HashmapSortNode(m, up, a, p)
           E == {j \in 1 .. n : a[j] = <<>>}
<1>0. n \in Nat /\ Lists(m, up, a, D, {}) /\ Len(a) = n /\ ItemsOf(a, 1 .. n) = P
  BY FS_CardinalityType DEF Slots
<1>1. PICK k \in 1 .. n : a[k] = <<>> /\ \A j \in 1 .. n : j < k => a[j] # <<>>
  <2>1. E # {} /\ E \subseteq Nat
    <3>1. P # D
      OBVIOUS
    <3>2. \E j \in 1 .. n : a[j] = <<>>
      BY <3>1, FreeSlot
    <3> QED BY <1>0, <3>2
  <2>2. PICK k \in E : \A j \in E : ~(j < k)
    <3> HIDE DEF E
    <3> QED BY <2>1, LeastNat
  <2>3. \A j \in 1 .. n : j < k => a[j] # <<>>
    BY <2>2
  <2> QED BY <2>2, <2>3
<1> DEFINE c == Carried(m, up, a, p, k)
           Q == {p} \cup ItemsOf(a, 1 .. k - 1)
<1>2. Sorted(m, up, c, Q)
  <2>1. p \notin ItemsOf(a, 1 .. Len(a)) /\ k \in 1 .. Len(a)
    BY <1>0
  <2> QED BY <1>0, <2>1, CarriedOrder
<1>3. \A j \in 1 .. n : /\ Full(a, j) <=> j < k
                        /\ Full(a, j - 1) <=> j <= k
  <2> SUFFICES ASSUME NEW j \in 1 .. n
               PROVE  (Full(a, j) <=> j < k) /\ (Full(a, j - 1) <=> j <= k)
    OBVIOUS
  <2>1. j < k => Full(a, j)
    <3> SUFFICES ASSUME j < k, NEW i \in 1 .. j PROVE a[i] # <<>>
      BY DEF Full
    <3>1. i \in 1 .. n /\ i < k
      BY <1>0
    <3> QED BY <1>1, <3>1
  <2>2. ~(j < k) => ~Full(a, j)
    <3> SUFFICES ASSUME ~(j < k) PROVE \E i \in 1 .. j : a[i] = <<>>
      BY DEF Full
    <3>1. k \in 1 .. j
      BY <1>0
    <3> QED BY <1>1, <3>1
  <2>3. j <= k => Full(a, j - 1)
    <3> SUFFICES ASSUME j <= k, NEW i \in 1 .. j - 1 PROVE a[i] # <<>>
      BY DEF Full
    <3>1. i \in 1 .. n /\ i < k
      BY <1>0
    <3> QED BY <1>1, <3>1
  <2>4. ~(j <= k) => ~Full(a, j - 1)
    <3> SUFFICES ASSUME ~(j <= k) PROVE \E i \in 1 .. j - 1 : a[i] = <<>>
      BY DEF Full
    <3>1. k \in 1 .. j - 1
      BY <1>0
    <3> QED BY <1>1, <3>1
  <2> QED BY <2>1, <2>2, <2>3, <2>4
<1>4. r = [j \in 1 .. n |-> IF j < k THEN <<>> ELSE IF j = k THEN c ELSE a[j]]
  <2>1. r = [j \in 1 .. n |-> IF Full(a, j) THEN <<>>
                              ELSE IF Full(a, j - 1) THEN Carried(m, up, a, p, j) ELSE a[j]]
    BY <1>0 DEF HashmapSortNode
  <2>2. \A j \in 1 .. n : ~(j < k) => (j <= k <=> j = k)
    BY <1>0
  <2> HIDE DEF r, n
  <2> QED BY <1>3, <2>1, <2>2
<1>5. \A i \in 1 .. n : /\ a[i] \in Seq(D) /\ Items(a[i]) \subseteq D /\ Distinct(a[i])
                        /\ Items(a[i]) \subseteq P /\ Rising(m, up, a[i])
  <2>1. \A i \in 1 .. n : a[i] \in Seq(D) /\ Items(a[i]) \subseteq D /\ Distinct(a[i]) /\ Rising(m, up, a[i])
    BY <1>0, ListTyped DEF Lists
  <2> QED BY <1>0, <2>1 DEF ItemsOf
<1>6. c \in Seq(D) /\ Distinct(c) /\ Items(c) = Q /\ Q \subseteq D /\ Rising(m, up, c)
  <2>1. \A i \in 1 .. k - 1 : i \in 1 .. n
    BY <1>0
  <2>2. Q \subseteq D
    BY <1>5, <2>1 DEF ItemsOf
  <2> HIDE DEF c, Q
  <2>3. c \in Seq(D)
    BY <1>2, <2>2, OrderTyped DEF Sorted
  <2> QED BY <1>2, <2>2, <2>3 DEF Sorted, IsOrder
<1>7. Items(<<>>) = {} /\ Distinct(<<>>) /\ <<>> \in Seq(D) /\ Rising(m, up, <<>>)
  BY EmptySeq DEF Items, Distinct, Rising
<1> HIDE DEF c, r
<1>8. r \in Seq(Seq(D)) /\ Len(r) = n
  <2>1. r \in [1 .. n -> Seq(D)] /\ DOMAIN r = 1 .. n
    BY <1>4, <1>5, <1>6, <1>7
  <2> HIDE DEF n
  <2>2. r \in Seq(Seq(D))
    BY <1>0, <2>1, SeqDef
  <2> QED BY <1>0, <2>1, <2>2, LenProperties
<1>9. \A j \in 1 .. n : /\ Items(r[j]) = IF j < k THEN {} ELSE IF j = k THEN Q ELSE Items(a[j])
                        /\ Distinct(r[j]) /\ Rising(m, up, r[j])
  <2> HIDE DEF Q, n
  <2> QED BY <1>4, <1>5, <1>6, <1>7
<1>10. \A i, j \in 1 .. n : i # j => Items(a[i]) \cap Items(a[j]) = {}
  BY <1>0 DEF Lists
<1>11. \A j \in 1 .. n : j > k => Items(a[j]) \cap Q = {}
  <2> SUFFICES ASSUME NEW j \in 1 .. n, j > k, NEW y, y \in Items(a[j]), y \in Q PROVE FALSE
    OBVIOUS
  <2>1. y # p
    BY <1>5
  <2>2. PICK i \in 1 .. k - 1 : y \in Items(a[i])
    BY <2>1 DEF ItemsOf
  <2>3. i \in 1 .. n /\ i # j
    BY <1>0
  <2> QED BY <1>10, <2>2, <2>3
<1>12. Lists(m, up, r, D, {})
  <2>1. \A i, j \in 1 .. n : i # j => Items(r[i]) \cap Items(r[j]) = {}
    <3> SUFFICES ASSUME NEW i \in 1 .. n, NEW j \in 1 .. n, i # j PROVE Items(r[i]) \cap Items(r[j]) = {}
      OBVIOUS
    <3>1. i < k \/ i = k \/ i > k
      BY <1>0
    <3>2. j < k \/ j = k \/ j > k
      BY <1>0
    <3>3. \A l \in 1 .. n : l > k => ~(l < k) /\ l # k
      BY <1>0
    <3> HIDE DEF Q, n
    <3> QED BY <1>9, <1>10, <1>11, <3>1, <3>2, <3>3
  <2> QED BY <1>0, <1>8, <1>9, <2>1 DEF Lists
<1>13. ItemsOf(r, 1 .. n) = P \cup {p}
  <2>1. ASSUME NEW y \in P \cup {p} PROVE \E j \in 1 .. n : y \in Items(r[j])
    <3>1. CASE y \in Q
      <4>1. Items(r[k]) = Q
        BY <1>0, <1>1, <1>9
      <4> QED BY <1>1, <3>1, <4>1
    <3>2. CASE y \notin Q
      <4>1. y # p
        BY <3>2
      <4>2. PICK j \in 1 .. n : y \in Items(a[j])
        BY <1>0, <2>1, <4>1 DEF ItemsOf
      <4>3. j \notin 1 .. k - 1
        BY <3>2, <4>2 DEF ItemsOf
      <4>4. j # k
        BY <1>1, <1>7, <4>2
      <4>5. ~(j < k)
        BY <1>0, <4>3
      <4> QED BY <1>9, <4>2, <4>4, <4>5
    <3> QED BY <3>1, <3>2
  <2>2. \A j \in 1 .. n : Items(r[j]) \subseteq P \cup {p}
    <3>1. Q \subseteq P \cup {p}
      <4>1. \A i \in 1 .. k - 1 : i \in 1 .. n
        BY <1>0
      <4> QED BY <1>5, <4>1 DEF ItemsOf
    <3> HIDE DEF Q, n
    <3> QED BY <1>5, <1>9, <3>1
  <2> QED BY <2>1, <2>2 DEF ItemsOf
<1> QED BY <1>8, <1>12, <1>13 DEF Slots, r

SortNodes(m, up, base, s) == FoldLeft(LAMBDA a, p : HashmapSortNode(m, up, a, p), base, s)

\* All nodes are in the table of the sort.
LEMMA NodesTaken ==
    ASSUME NEW D, NEW s, IsOrder(s, D), NEW m, NEW up, NEW base, Slots(m, up, base, Len(s), D, {})
    PROVE  Slots(m, up, SortNodes(m, up, base, s), Len(s), D, D)
<1> DEFINE n == Len(s)
           I == SUBSET (1 .. n)
           U == Seq(Seq(D))
           V == [T \in I |-> {a \in U : Slots(m, up, a, n, D, Parts(s, T))}]
           step == [i \in 1 .. n |-> [a \in U |-> HashmapSortNode(m, up, a, s[i])]]
           W(f) == [T \in SUBSET DOMAIN s |->
                       IF T = {} THEN base ELSE HashmapSortNode(m, up, f[T \ {Max(T)}], s[Max(T)])]
           F == CHOOSE f : f = W(f)
<1>0. ASSUME NEW a, NEW P, Slots(m, up, a, n, D, P) PROVE a \in U
  BY <1>0 DEF Slots, Lists
<1>1. n \in Nat /\ DOMAIN s = 1 .. n
  <2>1. n \in Nat /\ s \in Seq(D)
    BY OrderFacts
  <2> QED BY <2>1, LenProperties
<1>2. base \in V[{}]
  <2>1. {} \in I /\ Parts(s, {}) = {}
    BY DEF Parts
  <2> HIDE DEF U
  <2> QED BY <1>0, <2>1
<1>3. ASSUME NEW T \in I, T # {}, NEW g \in V[T \ {Max(T)}]
      PROVE  HashmapSortNode(m, up, g, s[Max(T)]) \in V[T]
  <2> DEFINE i == Max(T)
             R == T \ {i}
             P == Parts(s, R)
             r == HashmapSortNode(m, up, g, s[i])
  <2>1. i \in T /\ i \in 1 .. n /\ R \in I
    BY <1>1, <1>3, Subsets
  <2> HIDE DEF i
  <2>2. Slots(m, up, g, n, D, P)
    BY <1>3, <2>1 DEF i
  <2>3. /\ \A j \in 1 .. n : s[j] \in D
        /\ \A j, k \in 1 .. n : s[j] = s[k] => j = k
    BY OrderFacts
  <2>4. P \in SUBSET D /\ s[i] \in D \ P
    BY <2>1, <2>3 DEF Parts
  <2>5. P \cup {s[i]} = Parts(s, T)
    BY <2>1 DEF Parts
  <2>6. IsFiniteSet(D) /\ Cardinality(D) = n
    BY OrderLength
  <2> HIDE DEF P, r, n
  <2>7. Slots(m, up, r, n, D, P \cup {s[i]})
    BY <2>2, <2>4, <2>6, SlotTaken DEF r
  <2>8. Slots(m, up, r, n, D, Parts(s, T)) /\ r \in U
    BY <1>0, <2>5, <2>7
  <2> QED BY <2>8 DEF r, i, n
<1>4. FoldTyped(n, U, V, base, step)
  <2>1. U # {} /\ V \in [I -> SUBSET U]
    BY <1>2
  <2>2. ASSUME NEW T \in I, T # {}, NEW g \in V[T \ {Max(T)}]
        PROVE  step[Max(T)][g] \in V[T]
    <3>1. Max(T) \in 1 .. n /\ T \ {Max(T)} \in I
      BY <1>1, <2>2, Subsets
    <3> DEFINE R == T \ {Max(T)}
    <3>2. V[R] \subseteq U
      <4> HIDE DEF U, I
      <4> QED BY <2>1, <3>1
    <3>3. g \in U
      BY <3>2
    <3>4. step[Max(T)][g] = HashmapSortNode(m, up, g, s[Max(T)])
      BY <3>1, <3>3
    <3> QED BY <1>3, <2>2, <3>4
  <2> HIDE DEF U, V, step
  <2> QED BY <1>1, <1>2, <2>1, <2>2 DEF FoldTyped
<1>5. PICK f : FoldsTo(f, n, U, base, step)
  <2> HIDE DEF n, U, V, step
  <2> QED BY <1>4, FoldDefined
<1>6. f = W(f)
  <2>0. f \in [I -> U] /\ \A T \in I : f[T] = IF T = {} THEN base ELSE step[Max(T)][f[T \ {Max(T)}]]
    BY <1>5 DEF FoldsTo
  <2>1. ASSUME NEW T \in I, T # {}
        PROVE  step[Max(T)][f[T \ {Max(T)}]] = HashmapSortNode(m, up, f[T \ {Max(T)}], s[Max(T)])
    <3>1. Max(T) \in 1 .. n /\ T \ {Max(T)} \in I
      BY <1>1, <2>1, Subsets
    <3> DEFINE R == T \ {Max(T)}
    <3>2. f[R] \in U
      <4> HIDE DEF U, I, R
      <4> QED BY <2>0, <3>1 DEF R
    <3> QED BY <3>1, <3>2
  <2>2. \A T \in I : f[T] = IF T = {} THEN base ELSE HashmapSortNode(m, up, f[T \ {Max(T)}], s[Max(T)])
    <3> HIDE DEF U, I, step
    <3> QED BY <2>0, <2>1
  <2>3. I = SUBSET DOMAIN s
    BY <1>1
  <2> HIDE DEF U, I, step
  <2>4. f = [T \in I |-> IF T = {} THEN base ELSE HashmapSortNode(m, up, f[T \ {Max(T)}], s[Max(T)])]
    BY <2>0, <2>2
  <2> QED BY <2>3, <2>4
<1>7. F = W(F)
  <2> HIDE DEF W
  <2> QED BY <1>6
<1>8. SortNodes(m, up, base, s) = F[DOMAIN s]
  BY DEF FoldLeft, MapThenFoldSet, SortNodes
<1> HIDE DEF F
<1>9. F[1 .. n] \in V[1 .. n]
  <2>0. \A T \in I : F[T] = W(F)[T]
    <3> HIDE DEF W
    <3> QED BY <1>7
  <2>1. F[{}] \in V[{}]
    <3>1. {} \in I /\ {} \in SUBSET DOMAIN s
      OBVIOUS
    <3>2. F[{}] = base
      <4> HIDE DEF I
      <4> QED BY <2>0, <3>1
    <3> HIDE DEF V
    <3> QED BY <1>2, <3>2
  <2>2. ASSUME NEW T \in I, T # {} /\ F[T \ {Max(T)}] \in V[T \ {Max(T)}]
        PROVE  F[T] \in V[T]
    <3>1. F[T] = HashmapSortNode(m, up, F[T \ {Max(T)}], s[Max(T)])
      BY <1>1, <2>0, <2>2
    <3> HIDE DEF V, I, W
    <3> QED BY <1>3, <2>2, <3>1
  <2> HIDE DEF V
  <2>3. FoldKeeps(F, n, V)
    BY <1>1, <2>1, <2>2 DEF FoldKeeps
  <2> HIDE DEF n
  <2> QED BY <2>3, FoldSolution
<1>10. 1 .. n \in I
  OBVIOUS
<1>11. Parts(s, 1 .. n) = D
  <2>1. (\A j \in 1 .. n : s[j] \in D) /\ \A y \in D : \E j \in 1 .. n : s[j] = y
    BY OrderFacts
  <2> QED BY <2>1 DEF Parts
<1>12. V[1 .. n] \subseteq {a \in U : Slots(m, up, a, n, D, Parts(s, 1 .. n))}
  BY <1>10
<1> HIDE DEF n, V, I
<1> QED BY <1>1, <1>8, <1>9, <1>11, <1>12 DEF n

\* The sort orders the nodes of the array anew.
LEMMA SortedOrder ==
    ASSUME NEW m, NEW s, Sewn(m, s), NEW up
    PROVE  Sorted(m, up, SortedNodes(m, up), DOMAIN m.node)
<1> DEFINE D == DOMAIN m.node
           base == [i \in 1 .. m.nEntry |-> <<>>]
           slots == SortNodes(m, up, base, s)
<1>0. IsOrder(s, D) /\ Len(s) = m.nEntry /\ Entries(m) = s /\ Len(s) \in Nat
  BY EntriesListed DEF Sewn, Threaded
<1>1. Slots(m, up, base, Len(s), D, {})
  <2>1. m.node \in [D -> Cell]
    BY DEF Sewn, Typed, Arrays
  <2>2. ASSUME NEW p \in D PROVE m.node[p].val \in Int
    <3>1. m.node[p] \in Cell
      BY <2>1
    <3> QED BY <3>1, HashmapAssumption DEF Cell
  <2> QED BY <1>0, <2>2, EmptySlots DEF Valued
<1> HIDE DEF base
<1>2. Slots(m, up, slots, Len(s), D, D)
  BY <1>0, <1>1, NodesTaken
<1> HIDE DEF slots
<1>3. Lists(m, up, slots, D, {}) /\ ItemsOf(slots, 1 .. Len(slots)) = D
  BY <1>2 DEF Slots
<1>4. Sorted(m, up, <<>>, {})
  BY DEF Sorted, Rising, IsOrder, Items, Distinct
<1>5. Sorted(m, up, MergeOnto(m, up, <<>>, slots), {} \cup D)
  <2> DEFINE e == <<>>
  <2>1. Sorted(m, up, e, {})
    BY <1>4
  <2> HIDE DEF e
  <2>2. Sorted(m, up, MergeOnto(m, up, e, slots), {} \cup ItemsOf(slots, 1 .. Len(slots)))
    BY <1>3, <2>1, MergedAll
  <2> QED BY <1>3, <2>2 DEF e
<1>6. SortedNodes(m, up) = MergeOnto(m, up, <<>>, slots)
  BY <1>0 DEF SortedNodes, MergeOnto, slots, SortNodes, base
<1>7. {} \cup D = D
  OBVIOUS
<1> QED BY <1>5, <1>6, <1>7

\* g is m with its entries in another order, and the links of t.
Resewn(m, g, t) ==
    /\ Sewn(g, t) /\ DOMAIN g.node = DOMAIN m.node /\ g.pLast = m.pLast /\ g.iNextIdx = m.iNextIdx
    /\ g.pCur = t[1] /\ SameVals(m, g)
    /\ \A q \in DOMAIN m.node : g.node[q].key = m.node[q].key /\ g.node[q].hash = m.node[q].hash

\* HashmapMergeSort leaves one list of all the nodes, and the chains alone.
LEMMA MergeSorted ==
    ASSUME NEW m, NEW s, Sewn(m, s), DOMAIN m.node # {}, NEW up
    PROVE  Resewn(m, HashmapMergeSort(m, up), SortedNodes(m, up))
<1> DEFINE D == DOMAIN m.node
           t == SortedNodes(m, up)
           r == HashmapMergeSort(m, up)
           at(i) == IF i \in 1 .. Len(t) THEN t[i] ELSE Nil
           pos(p) == CHOOSE i \in 1 .. Len(t) : t[i] = p
           cell(p) == [m.node[p] EXCEPT !.prev = at(pos(p) + 1), !.next = at(pos(p) - 1)]
           N == [p \in D |-> cell(p)]
<1>0. /\ Typed(m) /\ Threaded(m, s) /\ Hung(m, D) /\ m.nSize # 0 /\ IsOrder(t, D)
      /\ m \in Arrays(D, m.nSize) /\ m.nSize \in Nat /\ D \in SUBSET Nodes
      /\ m.nEntry = Len(s) /\ IsOrder(s, D)
  <2>1. IsOrder(t, D)
    <3>1. Sorted(m, up, t, D)
      BY SortedOrder
    <3> QED BY <3>1 DEF Sorted
  <2>2. Typed(m) /\ Threaded(m, s) /\ Hung(m, D) /\ m.nSize # 0
    BY DEF Sewn
  <2>3. m \in Arrays(D, m.nSize) /\ m.nSize \in Nat /\ D \in SUBSET Nodes
    BY <2>2 DEF Typed
  <2>4. m.nEntry = Len(s) /\ IsOrder(s, D)
    BY <2>2 DEF Threaded
  <2> HIDE DEF t
  <2> QED BY <2>1, <2>2, <2>3, <2>4, Zenon
<1>1. r = [m EXCEPT !.pFirst = t[1], !.pCur = t[1], !.node = N]
  BY <1>0 DEF HashmapMergeSort
<1> HIDE DEF t, r
<1>2. /\ Len(t) \in Nat /\ \A i \in 1 .. Len(t) : t[i] \in D
      /\ \A x \in D : \E i \in 1 .. Len(t) : t[i] = x
      /\ \A i, j \in 1 .. Len(t) : t[i] = t[j] => i = j
  BY <1>0, OrderFacts, ZenonT(60)
<1>3. Len(t) = Len(s) /\ t[1] \in D /\ 1 \in 1 .. Len(t)
  <2>1. Len(t) = Len(s)
    BY <1>0, OrderLength
  <2>2. 1 \in 1 .. Len(t)
    BY <1>2
  <2> QED BY <1>2, <2>1, <2>2
<1>4. \A p \in D : pos(p) \in 1 .. Len(t) /\ t[pos(p)] = p
  BY <1>2
<1>5. \A i \in 1 .. Len(t) : pos(t[i]) = i
  BY <1>2, <1>4
<1>6. \A i \in Int : at(i) \in Ptr /\ at(i) = At(t, i)
  BY <1>0, <1>2 DEF At, Ptr
<1> HIDE DEF pos, at
<1>7. m.node \in [D -> Cell]
  BY <1>0 DEF Arrays
<1>8. ASSUME NEW p \in D
      PROVE  /\ cell(p) \in Cell /\ cell(p).prev = at(pos(p) + 1) /\ cell(p).next = at(pos(p) - 1)
             /\ \A f \in Fields \ {"prev", "next"} : cell(p)[f] = m.node[p][f]
  <2>1. m.node[p] \in Cell
    BY <1>7
  <2>2. pos(p) + 1 \in Int /\ pos(p) - 1 \in Int
    <3> DEFINE x == pos(p)
    <3>1. x \in 1 .. Len(t) /\ Len(t) \in Nat
      BY <1>2, <1>4
    <3> HIDE DEF x
    <3>2. x + 1 \in Int /\ x - 1 \in Int
      BY <3>1
    <3> QED BY <3>2 DEF x
  <2>3. at(pos(p) + 1) \in Ptr /\ at(pos(p) - 1) \in Ptr
    BY <1>6, <2>2
  <2> QED BY <2>1, <2>3 DEF Cell, Fields, LinkFields
<1>9. N \in [D -> Cell] /\ \A p \in D : /\ N[p].prev = at(pos(p) + 1) /\ N[p].next = at(pos(p) - 1)
                                        /\ \A f \in Fields \ {"prev", "next"} : N[p][f] = m.node[p][f]
  <2> HIDE DEF cell
  <2> QED BY <1>8
<1>10. DOMAIN N = D
  OBVIOUS
<1> HIDE DEF N
<1>11. /\ r.node = N /\ r.pFirst = t[1] /\ r.pCur = t[1] /\ r.pLast = m.pLast /\ r.nSize = m.nSize
       /\ r.nEntry = m.nEntry /\ r.iNextIdx = m.iNextIdx /\ r.apBucket = m.apBucket
  BY <1>0, <1>1 DEF Arrays
<1>12. r \in Arrays(D, m.nSize)
  <2>1. t[1] \in Ptr
    BY <1>0, <1>3 DEF Ptr
  <2> HIDE DEF D
  <2> QED BY <1>0, <1>1, <1>9, <2>1 DEF Arrays
<1>13. Typed(r) /\ DOMAIN r.node = D
  BY <1>0, <1>10, <1>11, <1>12 DEF Typed
<1>14. \A q \in D : /\ r.node[q].key = m.node[q].key /\ r.node[q].hash = m.node[q].hash
                    /\ r.node[q].nextC = m.node[q].nextC /\ r.node[q].prevC = m.node[q].prevC
                    /\ r.node[q].prev = at(pos(q) + 1) /\ r.node[q].next = at(pos(q) - 1)
                    /\ r.node[q].val = m.node[q].val
  BY <1>9, <1>11 DEF Fields, LinkFields
<1>15. Hung(r, D)
  <2>1. /\ \A b \in 0 .. m.nSize - 1 : r.apBucket[b] = m.apBucket[b]
        /\ \A q \in D : /\ q \in DOMAIN m.node /\ q \in DOMAIN r.node
                        /\ r.node[q].hash = m.node[q].hash
                        /\ r.node[q].nextC = m.node[q].nextC
                        /\ r.node[q].prevC = m.node[q].prevC
    BY <1>11, <1>13, <1>14
  <2>2. Hung(m, D) /\ r.nSize = m.nSize
    BY <1>0, <1>11
  <2> HIDE DEF D
  <2> QED BY <2>1, <2>2, HungStill
<1>16. Threaded(r, t)
  <2>1. Strung(t, Col(r, "prev"), Col(r, "next"))
    <3> SUFFICES ASSUME NEW i \in 1 .. Len(t)
                 PROVE  Col(r, "prev")[t[i]] = At(t, i + 1) /\ Col(r, "next")[t[i]] = At(t, i - 1)
      BY DEF Strung
    <3>1. t[i] \in D /\ pos(t[i]) = i /\ i + 1 \in Int /\ i - 1 \in Int
      BY <1>2, <1>5
    <3>2. r.node[t[i]].prev = At(t, i + 1) /\ r.node[t[i]].next = At(t, i - 1)
      BY <1>6, <1>14, <3>1
    <3> QED BY <1>13, <3>1, <3>2 DEF Col
  <2>2. r.pFirst = At(t, 1)
    BY <1>3, <1>11 DEF At
  <2> QED BY <1>0, <1>3, <1>11, <1>13, <2>1, <2>2 DEF Threaded
<1>17. Sewn(r, t)
  BY <1>0, <1>3, <1>11, <1>13, <1>15, <1>16 DEF Sewn
<1> QED BY <1>11, <1>13, <1>14, <1>17 DEF Resewn, SameVals, r, t

\* pLast put on the last entry makes a sewn array whole.
LEMMA LastSet ==
    ASSUME NEW m, NEW s, Sewn(m, s), NEW q, q = At(s, Len(s))
    PROVE  LET g == [m EXCEPT !.pLast = q]
           IN  Whole(g, s) /\ g.node = m.node /\ g.iNextIdx = m.iNextIdx /\ g.pCur = m.pCur
<1> DEFINE g == [m EXCEPT !.pLast = q]
           D == DOMAIN m.node
<1>0. /\ Typed(m) /\ Threaded(m, s) /\ Hung(m, D) /\ (D # {} => m.nSize # 0) /\ m.pCur \in D \cup {Nil}
      /\ m \in Arrays(D, m.nSize) /\ m.nSize \in Nat /\ D \in SUBSET Nodes /\ IsOrder(s, D)
  BY DEF Sewn, Typed, Threaded
<1>1. q \in Ptr
  BY <1>0, OrderFacts DEF At, Ptr
<1>2. /\ g \in Arrays(D, m.nSize) /\ g.node = m.node /\ g.pFirst = m.pFirst /\ g.pCur = m.pCur
      /\ g.pLast = q /\ g.nSize = m.nSize /\ g.nEntry = m.nEntry /\ g.iNextIdx = m.iNextIdx
      /\ g.apBucket = m.apBucket
  BY <1>0, <1>1 DEF Arrays
<1> HIDE DEF g
<1>3. Typed(g)
  BY <1>0, <1>2 DEF Typed
<1>4. Threaded(g, s) /\ Hung(g, D)
  BY <1>0, <1>2, HungStill DEF Threaded, Col
<1> QED BY <1>0, <1>2, <1>3, <1>4 DEF Whole, Listed, g

-----------------------------------------------------------------------------
(* The operations keep an array good.                                        *)

\* A good array has an order of its entries.
LEMMA GoodWhole ==
    ASSUME NEW m, Good(m)
    PROVE  \E s : Whole(m, s) /\ Sewn(m, s) /\ IsOrder(s, DOMAIN m.node) /\ m.nEntry = Len(s)
BY DEF Good, Proper, Whole, Sewn, Listed, Threaded

\* An array with entries has a first and a last one.
LEMMA LastOf ==
    ASSUME NEW m, NEW s, Whole(m, s), m.nEntry > 0
    PROVE  /\ Len(s) \in 1 .. Len(s) /\ 1 \in 1 .. Len(s) /\ m.pLast = s[Len(s)] /\ m.pFirst = s[1]
           /\ m.pLast \in DOMAIN m.node /\ m.pFirst \in DOMAIN m.node /\ DOMAIN m.node # {}
<1>1. IsOrder(s, DOMAIN m.node) /\ m.nEntry = Len(s) /\ m.pFirst = At(s, 1) /\ m.pLast = At(s, Len(s))
  BY DEF Whole, Listed, Threaded
<1>2. Len(s) \in Nat /\ \A i \in 1 .. Len(s) : s[i] \in DOMAIN m.node
  BY <1>1, OrderFacts
<1>3. Len(s) \in 1 .. Len(s) /\ 1 \in 1 .. Len(s)
  BY <1>1, <1>2
<1> QED BY <1>1, <1>2, <1>3 DEF At

\* array_pop, array_shift, unset.
LEMMA UnlinkGood ==
    ASSUME NEW m, Good(m), NEW p \in DOMAIN m.node
    PROVE  Good(PH7_HashmapUnlinkNode(m, p))
<1>1. PICK s : Whole(m, s) /\ IsOrder(s, DOMAIN m.node)
  BY GoodWhole
<1>2. PICK k \in 1 .. Len(s) : s[k] = p
  BY <1>1, OrderFacts
<1> DEFINE x == s[k]
           r == PH7_HashmapUnlinkNode(m, x)
<1>3. /\ Whole(r, Less(s, k)) /\ DOMAIN r.node = DOMAIN m.node \ {x} /\ r.iNextIdx = m.iNextIdx
      /\ SameData(m, r, DOMAIN m.node \ {x})
  <2>1. Removed(m, r, s, k)
    BY <1>1, NodeUnlinked
  <2> QED BY <2>1 DEF Removed
<1> HIDE DEF r
<1>4. \A q \in DOMAIN r.node : /\ q \in DOMAIN m.node
                               /\ r.node[q].key = m.node[q].key /\ r.node[q].hash = m.node[q].hash
  BY <1>3 DEF SameData
<1>5. Good(r)
  BY <1>3, <1>4 DEF Good, Proper, Keyed, Unique, IndexBehind
<1>6. x = p
  BY <1>2
<1> HIDE DEF x
<1> QED BY <1>5, <1>6 DEF r

\* The cursor on an entry, or on none.
LEMMA CursorGood ==
    ASSUME NEW m, Good(m), NEW q \in DOMAIN m.node \cup {Nil}
    PROVE  Good([m EXCEPT !.pCur = q])
<1> DEFINE g == [m EXCEPT !.pCur = q]
<1>1. PICK s : Whole(m, s)
  BY GoodWhole
<1>2. Whole(g, s) /\ g.node = m.node /\ g.iNextIdx = m.iNextIdx
  BY <1>1, CursorSet
<1> HIDE DEF g
<1>3. Good(g)
  BY <1>2 DEF Good, Proper, Keyed, Unique, IndexBehind
<1> QED BY <1>3 DEF g

\* pFirst, pLast and pCur name entries or none.
LEMMA EndsGood ==
    ASSUME NEW m, Good(m)
    PROVE  m.pFirst \in DOMAIN m.node \cup {Nil} /\ m.pLast \in DOMAIN m.node \cup {Nil}
           /\ m.pCur \in DOMAIN m.node \cup {Nil}
<1>1. PICK s : Whole(m, s)
  BY GoodWhole
<1>2. IsOrder(s, DOMAIN m.node) /\ m.pFirst = At(s, 1) /\ m.pLast = At(s, Len(s))
      /\ m.pCur \in DOMAIN m.node \cup {Nil}
  BY <1>1 DEF Whole, Listed, Threaded
<1>3. Len(s) \in Int /\ 1 \in Int
  BY <1>2, OrderFacts
<1> QED BY <1>2, <1>3, AtTyped

\* So do the links of the current entry (next, prev).
LEMMA StepsGood ==
    ASSUME NEW m, Good(m), m.pCur # Nil
    PROVE  /\ m.node[m.pCur].prev \in DOMAIN m.node \cup {Nil}
           /\ m.node[m.pCur].next \in DOMAIN m.node \cup {Nil}
<1>1. PICK s : Whole(m, s)
  BY GoodWhole
<1>2. /\ IsOrder(s, DOMAIN m.node) /\ m.pCur \in DOMAIN m.node
      /\ Strung(s, Col(m, "prev"), Col(m, "next"))
  BY <1>1 DEF Whole, Listed, Threaded
<1>3. PICK i \in 1 .. Len(s) : s[i] = m.pCur
  BY <1>2, OrderFacts
<1>4. m.node[m.pCur].prev = At(s, i + 1) /\ m.node[m.pCur].next = At(s, i - 1)
  BY <1>2, <1>3 DEF Strung, Col
<1>5. i + 1 \in Int /\ i - 1 \in Int
  OBVIOUS
<1> QED BY <1>2, <1>4, <1>5, AtTyped

\* Renumbering leaves keys that are distinct and below the automatic index.
LEMMA RehashGood ==
    ASSUME NEW m, Good(m), NEW all
    PROVE  Good(Rehashed(m, all)) /\ DOMAIN Rehashed(m, all).node = DOMAIN m.node
<1> DEFINE r == Rehashed(m, all)
<1>1. PICK s : Whole(m, s) /\ Sewn(m, s) /\ IsOrder(s, DOMAIN m.node)
  BY GoodWhole
<1>2. Renumbered(r, m, s, 1 .. Len(s), all)
  BY <1>1, NodesRehashed DEF Good, Proper
<1> HIDE DEF r
<1>3. /\ Sewn(r, s) /\ Keyed(r) /\ Unique(r) /\ ~IndexBehind(r) /\ r.pLast = m.pLast
      /\ DOMAIN r.node = DOMAIN m.node
  BY <1>1, <1>2, RenumberedKeys
<1>4. m.pLast = At(s, Len(s))
  BY <1>1, SewnWhole
<1>5. Whole(r, s)
  BY <1>3, <1>4, SewnWhole
<1> QED BY <1>3, <1>5 DEF Good, Proper, r

\* r has the values of m, rising along its entries t, and the first is current.
SortOf(m, r, up, t) ==
    /\ Whole(r, t) /\ Sorted(m, up, t, DOMAIN m.node) /\ DOMAIN r.node = DOMAIN m.node
    /\ r.pCur = t[1] /\ SameVals(m, r)

\* sort() and rsort(): the last entry becomes the last of the new order.
LEMMA SortValuesGood ==
    ASSUME NEW m, Good(m), m.nEntry > 0, NEW up
    PROVE  LET r == HashmapSortRehash(HashmapMergeSort(m, up))
           IN  Good(r) /\ \E t : SortOf(m, r, up, t) /\ Ranked(r, m, t, Len(t), TRUE)
<1> DEFINE g == HashmapMergeSort(m, up)
           t == SortedNodes(m, up)
           r == Rehashed(g, TRUE)
           e == [r EXCEPT !.pLast = Entries(g)[g.nEntry]]
<1>1. PICK s : Whole(m, s) /\ Sewn(m, s)
  BY GoodWhole
<1>2. DOMAIN m.node # {}
  BY <1>1, LastOf
<1>3. Resewn(m, g, t) /\ Sorted(m, up, t, DOMAIN m.node)
  BY <1>1, <1>2, MergeSorted, SortedOrder
<1>4. HashmapSortRehash(g) = e
  BY DEF HashmapSortRehash
<1> HIDE DEF g, t, r
<1>5. Sewn(g, t) /\ Keyed(g) /\ Unique(g) /\ DOMAIN g.node # {}
  BY <1>2, <1>3 DEF Resewn, Good, Proper, Keyed, Unique
<1>6. Renumbered(r, g, t, 1 .. Len(t), TRUE)
  BY <1>5, NodesRehashed DEF r
<1>7. IsOrder(t, DOMAIN g.node) /\ g.nEntry = Len(t) /\ Entries(g) = t
  BY <1>5, EntriesListed DEF Sewn, Threaded
<1>8. Sewn(r, t) /\ Keyed(r) /\ Unique(r) /\ ~IndexBehind(r)
  BY <1>6, <1>7, RenumberedKeys
<1>9. Entries(g)[g.nEntry] = At(t, Len(t))
  <2>1. Len(t) \in Nat /\ \A x \in DOMAIN g.node : \E i \in 1 .. Len(t) : t[i] = x
    BY <1>7, OrderFacts
  <2>2. Len(t) \in 1 .. Len(t)
    BY <1>5, <2>1
  <2> QED BY <1>7, <2>2 DEF At
<1>10. Whole(e, t) /\ e.node = r.node /\ e.iNextIdx = r.iNextIdx /\ e.pCur = r.pCur
  BY <1>8, <1>9, LastSet
<1> HIDE DEF e
<1>11. Good(e)
  BY <1>8, <1>10 DEF Good, Proper, Keyed, Unique, IndexBehind
<1>12. r.pCur = g.pCur /\ SameVals(g, r) /\ DOMAIN r.node = DOMAIN g.node /\ Ranked(r, g, t, Len(t), TRUE)
  <2>1. Len(t) \in 0 .. Len(t)
    BY <1>7, OrderFacts
  <2>2. \A c \in 0 .. Len(t) : 1 .. Len(t) = 1 .. c => Ranked(r, g, t, c, TRUE)
    BY <1>6 DEF Renumbered
  <2> QED BY <1>6, <2>1, <2>2 DEF Renumbered
<1>13. SortOf(m, e, up, t)
  BY <1>3, <1>10, <1>12 DEF Resewn, SameVals, SortOf
<1>14. Ranked(e, m, t, Len(t), TRUE)
  BY <1>10, <1>12 DEF Ranked, NewKey
<1> QED BY <1>4, <1>11, <1>13, <1>14 DEF g

\* asort() and the rest: the links followed from the old last entry.
LEMMA SortEntriesGood ==
    ASSUME NEW m, Good(m), m.nEntry > 0, NEW up
    PROVE  LET r == LastFixed(HashmapMergeSort(m, up))
           IN  /\ Good(r) /\ r.iNextIdx = m.iNextIdx /\ \A q \in DOMAIN m.node : r.node[q].key = m.node[q].key
               /\ \E t : SortOf(m, r, up, t)
<1> DEFINE g == HashmapMergeSort(m, up)
           t == SortedNodes(m, up)
           pr == "prev"
           tail == Walk(g, g.pLast, pr)
           e == [g EXCEPT !.pLast = tail[Len(tail)]]
<1>1. PICK s : Whole(m, s) /\ Sewn(m, s)
  BY GoodWhole
<1>2. DOMAIN m.node # {} /\ m.pLast \in DOMAIN m.node
  BY <1>1, LastOf
<1>3. Resewn(m, g, t) /\ Sorted(m, up, t, DOMAIN m.node)
  BY <1>1, <1>2, MergeSorted, SortedOrder
<1>4. LastFixed(g) = e
  BY DEF LastFixed
<1> HIDE DEF g, t
<1>5. Sewn(g, t) /\ Keyed(g) /\ Unique(g) /\ ~IndexBehind(g) /\ g.pLast \in DOMAIN g.node
  BY <1>2, <1>3 DEF Resewn, Good, Proper, Keyed, Unique, IndexBehind
<1>6. /\ IsOrder(t, DOMAIN g.node) /\ g.nEntry = Len(t) /\ Nil \notin DOMAIN g.node /\ g.nEntry \in Nat
      /\ Strung(t, Col(g, pr), Col(g, "next"))
  BY <1>5, HashmapAssumption DEF Sewn, Threaded, Typed, Arrays
<1>7. /\ Len(t) \in Nat /\ \A i \in 1 .. Len(t) : t[i] \in DOMAIN g.node
      /\ \A x \in DOMAIN g.node : \E i \in 1 .. Len(t) : t[i] = x
  BY <1>6, OrderFacts
<1>8. PICK k \in 1 .. Len(t) : t[k] = g.pLast
  BY <1>5, <1>7
<1>9. tail = From(t, k)
  <2>1. \A i \in 1 .. Len(t) : g.node[t[i]][pr] = At(t, i + 1)
    BY <1>6, <1>7 DEF Strung, Col
  <2>2. At(t, k) = g.pLast /\ k \in 1 .. Len(t) + 1 /\ Len(t) <= g.nEntry
    BY <1>6, <1>7, <1>8 DEF At
  <2> HIDE DEF pr
  <2>3. Walk(g, At(t, k), pr) = From(t, k)
    BY <1>6, <2>1, <2>2, WalkOrder
  <2> QED BY <2>2, <2>3
<1>10. Len(From(t, k)) = Len(t) - k + 1
  <2>1. From(t, k) \in [1 .. Len(t) - k + 1 -> DOMAIN g.node] /\ Len(t) - k + 1 \in Nat
    <3>1. \A i \in 1 .. Len(t) - k + 1 : k + i - 1 \in 1 .. Len(t)
      BY <1>7
    <3>2. Len(t) - k + 1 \in Nat
      BY <1>7
    <3> QED BY <1>7, <3>1, <3>2 DEF From
  <2> DEFINE l == Len(t) - k + 1
             y == From(t, k)
  <2>2. y \in [1 .. l -> DOMAIN g.node] /\ l \in Nat
    BY <2>1
  <2> HIDE DEF l, y
  <2>3. y \in Seq(DOMAIN g.node) /\ DOMAIN y = 1 .. l
    BY <2>2, SeqDef
  <2>4. Len(y) = l
    BY <2>2, <2>3, LenProperties
  <2> QED BY <2>4 DEF l, y
<1>11. tail[Len(tail)] = At(t, Len(t))
  <2>1. Len(t) - k + 1 \in 1 .. Len(t) - k + 1 /\ k + (Len(t) - k + 1) - 1 = Len(t) /\ Len(t) \in 1 .. Len(t)
    BY <1>7
  <2>2. From(t, k)[Len(t) - k + 1] = t[Len(t)]
    BY <2>1 DEF From
  <2> HIDE DEF tail
  <2> QED BY <1>9, <1>10, <2>1, <2>2 DEF At
<1> HIDE DEF tail
<1>12. Whole(e, t) /\ e.node = g.node /\ e.iNextIdx = g.iNextIdx /\ e.pCur = g.pCur
  BY <1>5, <1>11, LastSet
<1> HIDE DEF e
<1>13. Good(e)
  BY <1>5, <1>12 DEF Good, Proper, Keyed, Unique, IndexBehind
<1>14. SortOf(m, e, up, t)
  BY <1>3, <1>12 DEF Resewn, SameVals, SortOf
<1>15. e.iNextIdx = m.iNextIdx /\ \A q \in DOMAIN m.node : e.node[q].key = m.node[q].key
  BY <1>3, <1>12 DEF Resewn
<1> QED BY <1>4, <1>13, <1>14, <1>15 DEF g

\* array_reverse, with the keys kept or not.
LEMMA TurnedProper ==
    ASSUME NEW m, Good(m), NEW b \in BOOLEAN
    PROVE  LET r == HashmapInsertNodes(m, PH7_NewHashmap, Walk(m, m.pLast, "next"), b)
           IN  Proper(r) /\ Unique(r) /\ (b \/ ~IndexBehind(r))
<1>1. PICK s : Whole(m, s)
  BY GoodWhole
<1>2. Walk(m, m.pLast, "next") = Reverse(s) /\ IsOrder(Reverse(s), DOMAIN m.node)
  BY <1>1, WalkBack
<1> DEFINE t == Reverse(s)
           r == HashmapInsertNodes(m, PH7_NewHashmap, t, b)
<1> HIDE DEF t
<1>3. Fits(r, m, t, 1 .. Len(t), b)
  BY <1>2, NodesInserted DEF t
<1> HIDE DEF r
<1>4. Proper(r) /\ Unique(r) /\ (b \/ ~IndexBehind(r))
  BY <1>3 DEF Fits
<1> QED BY <1>2, <1>4 DEF r, t

\* PH7_HashmapDup keeps the keys and the automatic index.
LEMMA CopyGood ==
    ASSUME NEW m, Good(m)
    PROVE  Good(PH7_HashmapDup(m))
<1>1. PICK s : Whole(m, s) /\ Sewn(m, s) /\ IsOrder(s, DOMAIN m.node)
  BY GoodWhole
<1> DEFINE g == HashmapInsertNodes(m, PH7_NewHashmap, s, TRUE)
           x == m.iNextIdx
           r == [g EXCEPT !.iNextIdx = x]
<1>2. PH7_HashmapDup(m) = r
  BY <1>1, EntriesListed DEF PH7_HashmapDup, Sewn
<1>3. Fits(g, m, s, 1 .. Len(s), TRUE)
  BY <1>1, NodesInserted
<1> HIDE DEF g
<1>4. Proper(g) /\ Unique(g) /\ x \in Int
      /\ \A k \in KeysOf(g) : \E i \in 1 .. Len(s) : k = m.node[s[i]].key
  BY <1>3, ProperTyped DEF Fits, Good
<1>5. PICK u : Whole(g, u)
  BY <1>4 DEF Proper
<1>6. Whole(r, u) /\ r.node = g.node /\ r.iNextIdx = x
  BY <1>4, <1>5, IndexSet
<1> HIDE DEF r
<1>7. \A i \in 1 .. Len(s) : s[i] \in DOMAIN m.node
  BY <1>1, OrderFacts
<1>8. ~IndexBehind(r)
  <2> SUFFICES ASSUME NEW q \in DOMAIN g.node, g.node[q].key \in IntKeys, g.node[q].key >= x PROVE FALSE
    BY <1>6 DEF IndexBehind
  <2>1. g.node[q].key \in KeysOf(g)
    BY DEF KeysOf
  <2>2. PICK i \in 1 .. Len(s) : g.node[q].key = m.node[s[i]].key
    BY <1>4, <2>1
  <2>3. s[i] \in DOMAIN m.node
    BY <1>7
  <2> QED BY <2>2, <2>3 DEF Good, IndexBehind
<1>9. Good(r)
  BY <1>4, <1>6, <1>8 DEF Good, Proper, Keyed, Unique
<1> QED BY <1>2, <1>9

\* Every operation of the script keeps an array good.
LEMMA StepGood ==
    ASSUME Good(h), Next
    PROVE  Good(h')
<1>1. ASSUME NEW v \in Values, NEW mem \in Memory, Push(v, mem) PROVE Good(h')
  <2>1. h' = InsertAuto(h, v, mem) /\ DOMAIN h.node # Nodes /\ h.iNextIdx \in IntKeys
    BY <1>1 DEF Push, Room, AtIndex
  <2>2. InsertAuto(h, v, mem) = h \/ AutoAdded(h, InsertAuto(h, v, mem))
    BY <2>1, AutoGood
  <2> QED BY <2>1, <2>2 DEF AutoAdded
<1>2. ASSUME NEW v \in Values, NEW mem \in Memory, NEW k \in Keys, Insert(k, v, mem) PROVE Good(h')
  BY <1>2, InsertGood DEF Insert, Room
<1>3. ASSUME NEW k \in Keys, NEW v \in Values, Union(k, v) PROVE Good(h')
  BY <1>3, UnionProper DEF Union, Room, Good
<1>4. ASSUME NEW k \in Keys, Unset(k) PROVE Good(h')
  <2> DEFINE p == HashmapLookup(h, k)
  <2>1. p # Nil /\ h' = PH7_HashmapUnlinkNode(h, p)
    BY <1>4 DEF Unset
  <2>2. p \in DOMAIN h.node
    BY <2>1, HashNat, LookupProper DEF Good
  <2> HIDE DEF p
  <2> QED BY <2>1, <2>2, UnlinkGood
<1>5. CASE Pop
  <2> DEFINE g == PH7_HashmapUnlinkNode(h, h.pLast)
  <2>1. h.nEntry > 0 /\ h' = [g EXCEPT !.pCur = g.pFirst]
    BY <1>5 DEF Pop
  <2>2. h.pLast \in DOMAIN h.node
    BY <2>1, GoodWhole, LastOf
  <2>3. Good(g)
    BY <2>2, UnlinkGood
  <2> HIDE DEF g
  <2>4. g.pFirst \in DOMAIN g.node \cup {Nil}
    BY <2>3, EndsGood
  <2> QED BY <2>1, <2>3, <2>4, CursorGood
<1>6. CASE Shift
  <2> DEFINE g == PH7_HashmapUnlinkNode(h, h.pFirst)
             r == Rehashed(g, FALSE)
  <2>1. h.nEntry > 0 /\ h' = [r EXCEPT !.pCur = g.pFirst]
    BY <1>6 DEF Shift
  <2>2. h.pFirst \in DOMAIN h.node
    BY <2>1, GoodWhole, LastOf
  <2>3. Good(g)
    BY <2>2, UnlinkGood
  <2> HIDE DEF g
  <2>4. g.pFirst \in DOMAIN g.node \cup {Nil}
    BY <2>3, EndsGood
  <2>5. Good(r) /\ DOMAIN r.node = DOMAIN g.node
    BY <2>3, RehashGood
  <2> HIDE DEF r
  <2> QED BY <2>1, <2>4, <2>5, CursorGood
<1>7. CASE Turn
  BY <1>7, TurnedProper DEF Turn, Reversed, Good
<1>8. CASE TurnKeepingKeys
  BY <1>8, TurnedProper DEF TurnKeepingKeys, Reversed, Good
<1>9. CASE Copy
  BY <1>9, CopyGood DEF Copy
<1>10. CASE Rewind
  BY <1>10, EndsGood, CursorGood DEF Rewind
<1>11. CASE ToEnd
  BY <1>11, EndsGood, CursorGood DEF ToEnd
<1>12. CASE Advance
  BY <1>12, StepsGood, CursorGood DEF Advance
<1>13. CASE StepBack
  BY <1>13, StepsGood, CursorGood DEF StepBack
<1>14. ASSUME NEW up \in BOOLEAN, SortEntries(up) PROVE Good(h')
  <2>1. h.nEntry > 0
    BY <1>14, ProperTyped DEF SortEntries, Good, Typed, Arrays
  <2> QED BY <1>14, <2>1, SortEntriesGood DEF SortEntries
<1>15. ASSUME NEW up \in BOOLEAN, SortValues(up) PROVE Good(h')
  <2>1. h.nEntry > 0
    BY <1>15, ProperTyped DEF SortValues, Good, Typed, Arrays
  <2> QED BY <1>15, <2>1, SortValuesGood DEF SortValues
<1> QED
  BY <1>1, <1>2, <1>3, <1>4, <1>5, <1>6, <1>7, <1>8, <1>9, <1>10, <1>11, <1>12, <1>13, <1>14, <1>15 DEF Next

\* The inductive invariant.
IInv == Good(h)

\* In every state the entries hang on one list and in their buckets, the keys are
\* distinct, and the automatic index is past all of them.
THEOREM Invariance == Spec => []IInv
<1>1. Init => IInv
  BY NewHashmapGood DEF Init, IInv
<1>2. IInv /\ [Next]_h => IInv'
  <2> SUFFICES ASSUME IInv, [Next]_h PROVE IInv'
    OBVIOUS
  <2>1. CASE Next
    BY <2>1, StepGood DEF IInv
  <2>2. CASE UNCHANGED h
    BY <2>2 DEF IInv
  <2> QED BY <2>1, <2>2
<1> QED BY <1>1, <1>2, PTL DEF Spec

\* What ListIntact says follows from the order of the entries.
LEMMA ListSeen ==
    ASSUME IInv
    PROVE  ListIntact
<1>1. PICK s : Whole(h, s) /\ Sewn(h, s) /\ IsOrder(s, DOMAIN h.node) /\ h.nEntry = Len(s)
  BY GoodWhole DEF IInv
<1> DEFINE D == DOMAIN h.node
           n == Len(s)
<1>2. Entries(h) = s
  BY <1>1, EntriesListed DEF Sewn
<1>3. TypeOK
  <2>1. h \in Arrays(D, h.nSize) /\ h.nSize \in Nat /\ D \subseteq Nodes
    BY <1>1 DEF Whole, Typed
  <2>2. /\ h.node \in [D -> Cell] /\ h.pFirst \in Ptr /\ h.pLast \in Ptr /\ h.pCur \in Ptr
        /\ h.apBucket \in [0 .. h.nSize - 1 -> Ptr] /\ h.nEntry \in Nat /\ h.iNextIdx \in Int
    BY <2>1 DEF Arrays
  <2> QED BY <2>1, <2>2 DEF TypeOK, Cell, Ptr
<1>4. n \in Nat /\ ToSet(s) = D /\ Cardinality(D) = n /\ DOMAIN s = 1 .. n
      /\ (\A i \in 1 .. n : s[i] \in D) /\ (n = 0 <=> s = <<>>)
  <2>1. n \in Nat /\ s \in Seq(D) /\ (\A i \in 1 .. n : s[i] \in D) /\ \A x \in D : \E i \in 1 .. n : s[i] = x
    BY <1>1, OrderFacts
  <2>2. DOMAIN s = 1 .. n
    BY <2>1, LenProperties
  <2>3. ToSet(s) = D
    BY <2>1, <2>2 DEF ToSet
  <2>4. Cardinality(D) = n
    BY <1>1, OrderLength
  <2> QED BY <2>1, <2>2, <2>3, <2>4, EmptySeq
<1>5. /\ h.pFirst = At(s, 1) /\ h.pLast = At(s, n) /\ h.pCur \in D \cup {Nil}
      /\ Strung(s, Col(h, "prev"), Col(h, "next"))
  BY <1>1 DEF Whole, Listed, Threaded
<1>6. CASE s = <<>>
  <2>1. h.pFirst = Nil /\ h.pLast = Nil
    BY <1>4, <1>5, <1>6 DEF At
  <2> QED BY <1>1, <1>2, <1>3, <1>4, <1>5, <1>6, <2>1 DEF ListIntact
<1>7. CASE s # <<>>
  <2>1. 1 \in 1 .. n /\ n \in 1 .. n
    BY <1>4, <1>7
  <2>2. h.pFirst = s[1] /\ h.pLast = s[n]
    BY <1>5, <2>1 DEF At
  <2>3. h.pFirst \in D /\ h.pLast \in D
    BY <1>4, <2>1, <2>2
  <2>4. h.node[h.pLast].prev = Nil /\ h.node[h.pFirst].next = Nil
    <3>1. At(s, n + 1) = Nil /\ At(s, 1 - 1) = Nil
      BY <1>4 DEF At
    <3> QED BY <1>5, <2>1, <2>2, <2>3, <3>1 DEF Strung, Col
  <2>5. Link(h, h.pLast, "prev") = Nil /\ Link(h, h.pFirst, "next") = Nil
    BY <2>3, <2>4 DEF Link
  <2>6. Walk(h, h.pLast, "next") = Reverse(s)
    BY <1>1, WalkBack
  <2>7. h.pLast = s[h.nEntry] /\ Len(s) = h.nEntry
    BY <1>1, <2>2
  <2> QED BY <1>1, <1>2, <1>3, <1>4, <1>5, <1>7, <2>5, <2>6, <2>7 DEF ListIntact
<1> QED BY <1>6, <1>7

\* Node p stands once on chain c, at i, between its links.
Seat(p, c, i) ==
    /\ i \in 1 .. Len(c) /\ Len(c) \in Nat /\ c[i] = p
    /\ h.apBucket[Bucket(h, h.node[p].hash)] = At(c, 1)
    /\ \A j \in 1 .. Len(c) : /\ c[j] \in DOMAIN h.node /\ (c[j] = p => j = i)
                              /\ h.node[c[j]].nextC = At(c, j + 1)
                              /\ h.node[c[j]].prevC = At(c, j - 1)

\* What ChainsIntact says follows from the order of each chain.
LEMMA ChainsSeen ==
    ASSUME IInv
    PROVE  ChainsIntact
<1>1. PICK s : Whole(h, s) /\ IsOrder(s, DOMAIN h.node) /\ h.nEntry = Len(s)
  BY GoodWhole DEF IInv
<1> DEFINE D == DOMAIN h.node
           b(p) == Bucket(h, h.node[p].hash)
<1>2. Typed(h) /\ Hung(h, D) /\ (D # {} => h.nSize # 0) /\ h.nSize \in Nat /\ Keyed(h) /\ Nil \notin D
  BY <1>1, HashmapAssumption DEF Whole, Typed, IInv, Good, Proper
<1>3. h.nEntry > 0 => h.nSize > 0
  BY <1>1, <1>2, LastOf
<1>4. ASSUME NEW x \in 0 .. h.nSize - 1
      PROVE  /\ ToSet(Walk(h, h.apBucket[x], "nextC")) = {p \in D : b(p) = x}
             /\ Cardinality(ToSet(Walk(h, h.apBucket[x], "nextC"))) = Len(Walk(h, h.apBucket[x], "nextC"))
  <2>1. PICK c : Hangs(h, D, x, c)
    BY <1>2 DEF Hung
  <2>2. Walk(h, h.apBucket[x], "nextC") = c
    BY <1>1, <2>1, ChainWalk
  <2> DEFINE R == InBucket(h, D, x)
  <2>3. IsOrder(c, R) /\ R = {p \in D : b(p) = x}
    BY <2>1 DEF Hangs, InBucket
  <2> HIDE DEF R
  <2>4. /\ Len(c) \in Nat /\ c \in Seq(R) /\ (\A i \in 1 .. Len(c) : c[i] \in R)
        /\ \A y \in R : \E i \in 1 .. Len(c) : c[i] = y
    <3>1. IsOrder(c, R)
      BY <2>3
    <3> QED BY ONLY <3>1, OrderFacts
  <2>5. DOMAIN c = 1 .. Len(c)
    BY <2>4, LenProperties
  <2>6. ToSet(c) = R
    BY <2>4, <2>5 DEF ToSet
  <2>7. Cardinality(R) = Len(c)
    BY <2>3, OrderLength
  <2> QED BY <2>2, <2>3, <2>6, <2>7
<1>5. ASSUME NEW p \in D
      PROVE  \E c, i : Seat(p, c, i)
  <2>1. b(p) \in 0 .. h.nSize - 1
    BY <1>2, BucketOf
  <2>2. PICK c : Hangs(h, D, b(p), c)
    BY <1>2, <2>1 DEF Hung
  <2> DEFINE R == InBucket(h, D, b(p))
  <2>3. IsOrder(c, R) /\ p \in R /\ R \subseteq D /\ h.apBucket[b(p)] = At(c, 1)
        /\ Strung(c, Col(h, "nextC"), Col(h, "prevC"))
    BY <2>2 DEF Hangs, InBucket
  <2> HIDE DEF R
  <2>4. /\ Len(c) \in Nat /\ (\A j \in 1 .. Len(c) : c[j] \in R)
        /\ (\A y \in R : \E j \in 1 .. Len(c) : c[j] = y)
        /\ \A i, j \in 1 .. Len(c) : c[i] = c[j] => i = j
    BY <2>3, OrderFacts
  <2>5. PICK i \in 1 .. Len(c) : c[i] = p
    BY <2>3, <2>4
  <2>6. \A j \in 1 .. Len(c) : /\ c[j] \in D /\ h.node[c[j]].nextC = At(c, j + 1)
                                /\ h.node[c[j]].prevC = At(c, j - 1)
    BY <2>3, <2>4 DEF Strung, Col
  <2>7. Seat(p, c, i)
    BY <2>3, <2>4, <2>5, <2>6 DEF Seat
  <2> QED BY <2>7
<1>6. ASSUME NEW p \in D PROVE h.node[p].prevC = Nil <=> h.apBucket[b(p)] = p
  <2>0. PICK c, i : Seat(p, c, i)
    BY <1>5
  <2>1. /\ i \in 1 .. Len(c) /\ Len(c) \in Nat /\ c[i] = p /\ h.node[p].prevC = At(c, i - 1)
        /\ h.apBucket[b(p)] = At(c, 1) /\ \A j \in 1 .. Len(c) : c[j] \in D /\ (c[j] = p => j = i)
    BY <2>0 DEF Seat
  <2>2. CASE i = 1
    BY <2>1, <2>2 DEF At
  <2>3. CASE i # 1
    <3>1. i - 1 \in 1 .. Len(c) /\ 1 \in 1 .. Len(c)
      BY <2>1, <2>3
    <3> QED BY <1>2, <2>1, <2>3, <3>1 DEF At
  <2> QED BY <2>2, <2>3
<1>7. ASSUME NEW p \in D, NEW q \in D PROVE h.node[p].nextC = q <=> h.node[q].prevC = p
  <2>1. ASSUME h.node[p].nextC = q PROVE h.node[q].prevC = p
    <3>0. PICK c, i : Seat(p, c, i)
      BY <1>5
    <3>1. /\ i \in 1 .. Len(c) /\ Len(c) \in Nat /\ c[i] = p /\ h.node[p].nextC = At(c, i + 1)
          /\ \A j \in 1 .. Len(c) : h.node[c[j]].prevC = At(c, j - 1)
      BY <3>0 DEF Seat
    <3>2. i + 1 \in 1 .. Len(c) /\ c[i + 1] = q
      BY <1>2, <2>1, <3>1 DEF At
    <3>3. h.node[q].prevC = At(c, i + 1 - 1) /\ i + 1 - 1 = i
      BY <3>1, <3>2
    <3> QED BY <3>1, <3>3 DEF At
  <2>2. ASSUME h.node[q].prevC = p PROVE h.node[p].nextC = q
    <3>0. PICK c, i : Seat(q, c, i)
      BY <1>5
    <3>1. /\ i \in 1 .. Len(c) /\ Len(c) \in Nat /\ c[i] = q /\ h.node[q].prevC = At(c, i - 1)
          /\ \A j \in 1 .. Len(c) : h.node[c[j]].nextC = At(c, j + 1)
      BY <3>0 DEF Seat
    <3>2. i - 1 \in 1 .. Len(c) /\ c[i - 1] = p
      BY <1>2, <2>2, <3>1 DEF At
    <3>3. h.node[p].nextC = At(c, i - 1 + 1) /\ i - 1 + 1 = i
      BY <3>1, <3>2
    <3> QED BY <3>1, <3>3 DEF At
  <2> QED BY <2>1, <2>2
<1>8. \A p \in D : h.node[p].hash = Hash(h.node[p].key)
  BY <1>2 DEF Keyed
<1> QED BY <1>3, <1>4, <1>6, <1>7, <1>8 DEF ChainsIntact

\* The entries are one doubly linked list of nEntry nodes from pFirst to pLast,
\* whatever the sequence of insertions, removals and sorts (hashmap.c).
THEOREM EntriesIntact == Spec => []ListIntact
<1>1. IInv => ListIntact
  BY ListSeen
<1> QED BY <1>1, Invariance, PTL

\* Every node is on the collision chain of its own bucket and on no other.
THEOREM BucketsIntact == Spec => []ChainsIntact
<1>1. IInv => ChainsIntact
  BY ChainsSeen
<1> QED BY <1>1, Invariance, PTL

\* No key names two entries.
THEOREM KeysDistinct == Spec => []KeysUnique
<1>1. IInv => KeysUnique
  BY DEF IInv, Good, Unique, KeysUnique
<1> QED BY <1>1, Invariance, PTL

\* Every link, bucket and counter has its type.
THEOREM TypeCorrect == Spec => []TypeOK
<1>1. ListIntact => TypeOK
  BY DEF ListIntact
<1> QED BY <1>1, EntriesIntact, PTL
=============================================================================
