--------------------------- MODULE ObjectsProofs ----------------------------
(* What is true of every program, every number of objects, variables and   *)
(* running methods: the references of an instance are counted, and the     *)
(* class lent to it for a call is given back (Objects.RefsCounted and      *)
(* ClassRestored).                                                         *)
(*                                                                         *)
(* The invariant is Sound: heap and stack well formed, and for every live  *)
(* instance iRef = HeldIn + CellsTo, and Lent.  ClassRestored alone says   *)
(* nothing of the classes the calls below will give back; Lent does: every *)
(* item that lends the object gives back the class that is right then.     *)
EXTENDS Objects, SequenceTheorems, FiniteSetTheorems, WellFoundedInduction, TLAPS

-----------------------------------------------------------------------------
(* Sequences and sets.                                                      *)

\* A set of naturals has a least element.
LEMMA MinIn ==
    ASSUME NEW S, S # {}, S \subseteq Nat
    PROVE  Min(S) \in S /\ \A y \in S : Min(S) <= y
<1>1. IsWellFoundedOn(OpToRel(<, Nat), Nat)
    BY NatLessThanWellFounded
<1>2. PICK m \in S : \A l \in S : ~(<<l, m>> \in OpToRel(<, Nat))
    BY <1>1, WFMin
<1>3. \A l \in S : l \in Nat /\ m \in Nat
    OBVIOUS
<1>4. \A l \in S : ~(l < m)
    BY <1>2, <1>3 DEF OpToRel
<1>5. \A l \in S : m <= l
    BY <1>3, <1>4
<1>. QED  BY <1>2, <1>3, <1>5 DEF Min

\* A bounded one has a greatest element.
LEMMA MaxIn ==
    ASSUME NEW S, S # {}, NEW n \in Nat, S \subseteq 0 .. n
    PROVE  Max(S) \in S
<1> DEFINE R == {n - i : i \in S}
           m == n - Min(R)
<1>0. \A i \in S : i \in Int /\ n - i \in Nat
    OBVIOUS
<1>1. R # {} /\ R \subseteq Nat
    BY <1>0
<1>2. Min(R) \in R /\ \A y \in R : Min(R) <= y
    <2> HIDE DEF R
    <2>. QED  BY <1>1, MinIn
<1>3. PICK i \in S : Min(R) = n - i
    BY <1>2
<1>4. m = i
    BY <1>0, <1>3
<1>5. \A j \in S : i >= j
    <2> SUFFICES ASSUME NEW j \in S PROVE i >= j
        OBVIOUS
    <2>1. n - i <= n - j
        BY <1>2, <1>3
    <2>. QED  BY <1>0, <2>1
<1>6. \E x \in S : \A y \in S : x >= y
    BY <1>5
<1>. QED  BY <1>6 DEF Max

\* What holds of a, and of i + 1 if of i, holds up to n.
LEMMA FromTo ==
    ASSUME NEW a \in Nat, NEW n \in Nat, NEW T, a \in T,
           \A i, j \in a .. n : j = i + 1 /\ i \in T => j \in T
    PROVE  \A i \in a .. n : i \in T
<1> DEFINE B == {i \in a .. n : i \notin T}
<1>1. ASSUME B # {} PROVE FALSE
    <2>1. B \subseteq Nat
        OBVIOUS
    <2> DEFINE m == Min(B)
    <2>2. m \in B /\ \A y \in B : m <= y
        <3> HIDE DEF B
        <3>. QED  BY <1>1, <2>1, MinIn
    <2> HIDE DEF m
    <2>3. m \in a .. n /\ m # a
        BY <2>2
    <2>4. PICK k \in a .. n : m = k + 1
        BY <2>3
    <2>5. ~(m <= k)
        BY <2>4
    <2>6. k \in T
        BY <2>2, <2>4, <2>5
    <2>. QED  BY <2>2, <2>3, <2>4, <2>6
<1>. QED  BY <1>1

\* An item put on top.
LEMMA OnTop ==
    ASSUME NEW S, NEW t \in S, NEW c \in Seq(S), NEW d, d = <<t>> \o c
    PROVE  /\ d \in Seq(S) /\ Len(d) = Len(c) + 1 /\ d[1] = t /\ Len(c) \in Nat
           /\ \A i \in 1 .. Len(c), j \in Nat : j = i + 1 => d[j] = c[i]
           /\ \A j \in 1 .. Len(d) : j # 1 => \E i \in 1 .. Len(c) : j = i + 1
           /\ d # <<>> /\ Head(d) = t /\ Tail(d) = c
<1>1. d \in Seq(S) /\ Len(d) = Len(c) + 1 /\ d[1] = t /\ Len(c) \in Nat
    OBVIOUS
<1>2. \A i \in 1 .. Len(c), j \in Nat : j = i + 1 => d[j] = c[i]
    OBVIOUS
<1>3. \A j \in 1 .. Len(d) : j # 1 => \E i \in 1 .. Len(c) : j = i + 1
    <2> SUFFICES ASSUME NEW j \in 1 .. Len(d), j # 1 PROVE \E i \in 1 .. Len(c) : j = i + 1
        OBVIOUS
    <2>1. j - 1 \in 1 .. Len(c) /\ j = (j - 1) + 1
        BY <1>1
    <2>. QED  BY <2>1
<1>4. d # <<>> /\ Head(d) = t
    BY <1>1
<1>5. Tail(d) = c
    <2>1. Tail(d) \in Seq(S) /\ Len(Tail(d)) = Len(c)
        BY <1>1
    <2>2. \A i \in 1 .. Len(c) : Tail(d)[i] = c[i]
        BY <1>1
    <2>. QED  BY <2>1, <2>2, SeqEqual
<1>. QED  BY <1>1, <1>2, <1>3, <1>4, <1>5

Stacked(d, t, c, S) ==
    /\ d \in Seq(S) /\ Len(d) = Len(c) + 1 /\ d[1] = t /\ Len(c) \in Nat
    /\ \A i \in 1 .. Len(c), j \in Nat : j = i + 1 => d[j] = c[i]
    /\ \A j \in 1 .. Len(d) : j # 1 => \E i \in 1 .. Len(c) : j = i + 1

\* ... said of the two.
LEMMA OnTopOf ==
    ASSUME NEW S, NEW t \in S, NEW c \in Seq(S)
    PROVE  Stacked(<<t>> \o c, t, c, S)
<1> DEFINE d == <<t>> \o c
<1>1. d = <<t>> \o c
    OBVIOUS
<1> HIDE DEF d
<1>2. Stacked(d, t, c, S)
    BY <1>1, OnTop DEF Stacked
<1>. QED  BY <1>2 DEF d

\* A stack is its top on the rest.
LEMMA TopAndRest ==
    ASSUME NEW S, NEW c \in Seq(S), c # <<>>
    PROVE  Head(c) \in S /\ Tail(c) \in Seq(S) /\ c = <<Head(c)>> \o Tail(c)
<1>1. Head(c) \in S /\ Tail(c) \in Seq(S) /\ Len(c) \in Nat /\ Len(c) # 0
    OBVIOUS
<1> DEFINE d == <<Head(c)>> \o Tail(c)
<1>2. d \in Seq(S) /\ Len(d) = Len(c)
    BY <1>1
<1>3. \A i \in 1 .. Len(c) : d[i] = c[i]
    BY <1>1
<1> HIDE DEF d
<1>4. d = c
    BY <1>2, <1>3, SeqEqual
<1>. QED  BY <1>1, <1>4 DEF d

Steps(f, n, b, g) == \A i \in 0 .. n : f[i] = IF i = 0 THEN b ELSE g[i][f[i - 1]]

\* A recursion over 0..n has a solution.
LEMMA StepByStep ==
    ASSUME NEW Q, NEW n \in Nat, NEW b \in Q, NEW g \in [1 .. n -> [Q -> Q]]
    PROVE  \E f \in [0 .. n -> Q] : Steps(f, n, b, g)
<1> DEFINE F(m) == {f \in [0 .. m -> Q] :
                       \A i \in 0 .. m : f[i] = IF i = 0 THEN b ELSE g[i][f[i - 1]]}
           T == {m \in 0 .. n : F(m) # {}}
<1>1. 0 \in T
    <2>1. [i \in 0 .. 0 |-> b] \in F(0)
        OBVIOUS
    <2>2. 0 \in 0 .. n
        OBVIOUS
    <2> HIDE DEF F
    <2>. QED  BY <2>1, <2>2
<1>2. \A m, k \in 0 .. n : k = m + 1 /\ m \in T => k \in T
    <2> SUFFICES ASSUME NEW m \in 0 .. n, NEW k \in 0 .. n, k = m + 1, m \in T PROVE k \in T
        OBVIOUS
    <2>1. PICK f \in [0 .. m -> Q] :
              \A i \in 0 .. m : f[i] = IF i = 0 THEN b ELSE g[i][f[i - 1]]
        OBVIOUS
    <2> DEFINE h == [i \in 0 .. k |-> IF i <= m THEN f[i] ELSE g[k][f[m]]]
    <2>2. m \in Nat /\ m \in 0 .. m /\ k # 0 /\ k \in Nat /\ k \in 1 .. n
        OBVIOUS
    <2>3. g[k][f[m]] \in Q
        BY <2>2
    <2>4. h \in [0 .. k -> Q]
        BY <2>2, <2>3
    <2>5. \A i \in 0 .. k : h[i] = IF i = 0 THEN b ELSE g[i][h[i - 1]]
        <3> SUFFICES ASSUME NEW i \in 0 .. k
                     PROVE  h[i] = IF i = 0 THEN b ELSE g[i][h[i - 1]]
            OBVIOUS
        <3>1. CASE i <= m
            <4>1. i \in 0 .. m /\ h[i] = f[i] /\ (i # 0 => h[i - 1] = f[i - 1])
                BY <2>2, <3>1
            <4>. QED  BY <2>1, <4>1
        <3>2. CASE ~(i <= m)
            <4>1. i = k /\ i - 1 = m /\ i # 0 /\ m <= m
                BY <2>2, <3>2
            <4>2. h[k] = g[k][f[m]] /\ h[m] = f[m]
                BY <2>2
            <4> HIDE DEF h
            <4>. QED  BY <4>1, <4>2
        <3>. QED  BY <3>1, <3>2
    <2>6. h \in F(k)
        BY <2>4, <2>5
    <2> HIDE DEF F, h
    <2>. QED  BY <2>6
<1>3. n \in T
    <2> HIDE DEF T
    <2>1. \A i \in 0 .. n : i \in T
        BY <1>1, <1>2, FromTo
    <2>. QED  BY <2>1
<1>. QED  BY <1>3 DEF Steps

\* The sequences of s one behind the other, f: and after how many of them.
OneByOne(s, n, f) ==
    /\ f[1] = s[1] /\ FlattenSeq(s) = f[n]
    /\ \A i, j \in 1 .. n : j = i + 1 => f[j] = f[i] \o s[j]

\* Sequences one behind the other: what each of them adds.
LEMMA Flattened ==
    ASSUME NEW S, NEW n \in Nat, n # 0, NEW s \in [1 .. n -> Seq(S)]
    PROVE  \E f \in [1 .. n -> Seq(S)] : OneByOne(s, n, f)
<1> DEFINE Q == Seq(S)
<1>0. \A x, y \in Q : x \o y \in Q
    OBVIOUS
<1> DEFINE F(m) == {f \in [1 .. m -> Q] :
                       \A i \in 1 .. m : f[i] = IF i = 1 THEN s[i] ELSE f[i - 1] \o s[i]}
           T == {m \in 1 .. n : F(m) # {}}
<1>s. Len(s) = n
    OBVIOUS
<1>q. s \in [1 .. n -> Q]
    OBVIOUS
<1> HIDE DEF Q
<1>1. 1 \in T
    <2>1. s[1] \in Q
        BY <1>q
    <2>2. [i \in 1 .. 1 |-> s[1]] \in F(1)
        BY <2>1
    <2>3. 1 \in 1 .. n
        OBVIOUS
    <2> HIDE DEF F
    <2>. QED  BY <2>2, <2>3
<1>2. \A m, k \in 1 .. n : k = m + 1 /\ m \in T => k \in T
    <2> SUFFICES ASSUME NEW m \in 1 .. n, NEW k \in 1 .. n, k = m + 1, m \in T PROVE k \in T
        OBVIOUS
    <2>1. PICK f \in [1 .. m -> Q] :
              \A i \in 1 .. m : f[i] = IF i = 1 THEN s[i] ELSE f[i - 1] \o s[i]
        OBVIOUS
    <2> DEFINE g == [i \in 1 .. k |-> IF i <= m THEN f[i] ELSE f[m] \o s[k]]
    <2>2. m \in Nat /\ m \in 1 .. m /\ k # 1 /\ k \in Nat
        OBVIOUS
    <2>3. f[m] \o s[k] \in Q
        BY <1>0, <1>q, <2>2
    <2>4. g \in [1 .. k -> Q]
        BY <2>2, <2>3
    <2>5. \A i \in 1 .. k : g[i] = IF i = 1 THEN s[i] ELSE g[i - 1] \o s[i]
        <3> SUFFICES ASSUME NEW i \in 1 .. k
                     PROVE  g[i] = IF i = 1 THEN s[i] ELSE g[i - 1] \o s[i]
            OBVIOUS
        <3>1. CASE i <= m
            <4>1. i \in 1 .. m /\ g[i] = f[i] /\ (i # 1 => g[i - 1] = f[i - 1])
                BY <2>2, <3>1
            <4>. QED  BY <2>1, <4>1
        <3>2. CASE ~(i <= m)
            <4>1. i = k /\ i - 1 = m /\ i # 1 /\ m <= m
                BY <2>2, <3>2
            <4>2. g[k] = f[m] \o s[k] /\ g[m] = f[m]
                BY <2>2
            <4> HIDE DEF g
            <4>. QED  BY <4>1, <4>2
        <3>. QED  BY <3>1, <3>2
    <2>6. g \in F(k)
        BY <2>4, <2>5
    <2> HIDE DEF F, g
    <2>. QED  BY <2>6
<1>3. n \in T
    <2> HIDE DEF T
    <2>1. \A i \in 1 .. n : i \in T
        BY <1>1, <1>2, FromTo
    <2>. QED  BY <2>1
<1> DEFINE flatten == CHOOSE f : f = [i \in 1 .. Len(s) |-> IF i = 1 THEN s[i] ELSE f[i - 1] \o s[i]]
<1>4. PICK f \in [1 .. n -> Q] : \A i \in 1 .. n : f[i] = IF i = 1 THEN s[i] ELSE f[i - 1] \o s[i]
    BY <1>3
<1>5. flatten = [i \in 1 .. n |-> IF i = 1 THEN s[i] ELSE flatten[i - 1] \o s[i]]
    <2>1. f = [i \in 1 .. Len(s) |-> IF i = 1 THEN s[i] ELSE f[i - 1] \o s[i]]
        BY <1>4, <1>s
    <2>. QED  BY <1>s, <2>1
<1>6. FlattenSeq(s) = flatten[n]
    BY <1>s DEF FlattenSeq
<1> HIDE DEF flatten
<1>7. DOMAIN flatten = 1 .. n /\ flatten[1] = s[1]
    <2>1. flatten[1] = IF 1 = 1 THEN s[1] ELSE flatten[1 - 1] \o s[1]
        BY <1>5
    <2>. QED  BY <1>5, <2>1
<1>8. \A i, j \in 1 .. n : j = i + 1 => flatten[j] = flatten[i] \o s[j]
    <2> SUFFICES ASSUME NEW i \in 1 .. n, NEW j \in 1 .. n, j = i + 1 PROVE flatten[j] = flatten[i] \o s[j]
        OBVIOUS
    <2>1. j # 1 /\ j - 1 = i
        OBVIOUS
    <2>2. flatten[j] = IF j = 1 THEN s[j] ELSE flatten[j - 1] \o s[j]
        BY <1>5, Zenon
    <2>. QED  BY <2>1, <2>2
<1> DEFINE G == {i \in 1 .. n : flatten[i] \in Q}
<1>9. \A i \in 1 .. n : i \in G
    <2>1. 1 \in G
        BY <1>q, <1>7
    <2>2. \A i, j \in 1 .. n : j = i + 1 /\ i \in G => j \in G
        BY <1>0, <1>q, <1>8
    <2> HIDE DEF G
    <2>. QED  BY <2>1, <2>2, FromTo
<1>10. flatten \in [1 .. n -> Q]
    <2>1. \A i \in 1 .. n : flatten[i] \in Q
        BY <1>9
    <2>2. flatten = [i \in 1 .. n |-> flatten[i]]
        BY <1>5, <1>7
    <2>. QED  BY <2>1, <2>2
<1>11. OneByOne(s, n, flatten)
    BY <1>6, <1>7, <1>8 DEF OneByOne
<1>. QED  BY <1>10, <1>11 DEF Q

\* ... together they are a sequence of the same things.
LEMMA FlattenedIn ==
    ASSUME NEW S, NEW n \in Nat, NEW s \in [1 .. n -> Seq(S)]
    PROVE  FlattenSeq(s) \in Seq(S)
<1>1. CASE n = 0
    <2>1. s = <<>> /\ Len(s) = 0
        BY <1>1
    <2>. QED  BY <2>1 DEF FlattenSeq
<1>2. CASE n # 0
    <2>1. n # 0 /\ n \in 1 .. n
        BY <1>2
    <2>2. PICK f \in [1 .. n -> Seq(S)] : OneByOne(s, n, f)
        BY <1>2, Flattened
    <2>3. FlattenSeq(s) = f[n]
        BY <2>2 DEF OneByOne
    <2> DEFINE Q == Seq(S)
    <2>4. f \in [1 .. n -> Q]
        OBVIOUS
    <2> HIDE DEF Q
    <2>5. FlattenSeq(s) \in Q
        BY <2>1, <2>3, <2>4
    <2>. QED  BY <2>5 DEF Q
<1>. QED  BY <1>1, <1>2

-----------------------------------------------------------------------------
(* Counting.                                                                *)

\* Places moved up by one are as many.
LEMMA MovedUp ==
    ASSUME NEW I, IsFiniteSet(I), I \subseteq Nat
    PROVE  LET J == {i + 1 : i \in I} IN IsFiniteSet(J) /\ Cardinality(J) = Cardinality(I)
<1> DEFINE J == {i + 1 : i \in I}
           f == [i \in I |-> i + 1]
<1>1. f \in Bijection(I, J)
    <2>1. f \in [I -> J] /\ \A y \in J : \E i \in I : f[i] = y
        OBVIOUS
    <2>2. \A i, j \in I : f[i] = f[j] => i = j
        OBVIOUS
    <2> HIDE DEF f
    <2>3. IsInjective(f)
        BY <2>1, <2>2 DEF IsInjective
    <2>. QED  BY <2>1, <2>3 DEF Bijection, Injection, Surjection
<1> HIDE DEF f
<1>. QED  BY <1>1, FS_Bijection DEF ExistsBijection

\* Two sets that differ in whether w is in them.
LEMMA DifferInOne ==
    ASSUME NEW P, NEW Q, NEW w, IsFiniteSet(P), P \ {w} = Q \ {w}
    PROVE  /\ IsFiniteSet(Q)
           /\ Cardinality(P) + (IF w \in Q THEN 1 ELSE 0) = Cardinality(Q) + (IF w \in P THEN 1 ELSE 0)
<1> DEFINE R == P \ {w}
<1>1. /\ IsFiniteSet(R)
      /\ Cardinality(R) = IF w \in P THEN Cardinality(P) - 1 ELSE Cardinality(P)
    BY FS_RemoveElement
<1>2. w \in Q => Q = R \cup {w} /\ w \notin R
    OBVIOUS
<1>3. w \notin Q => Q = R
    OBVIOUS
<1> HIDE DEF R
<1>4. /\ IsFiniteSet(R \cup {w})
      /\ Cardinality(R \cup {w}) = IF w \in R THEN Cardinality(R) ELSE Cardinality(R) + 1
    BY <1>1, FS_AddElement
<1>5. IsFiniteSet(Q) /\ Cardinality(Q) = IF w \in Q THEN Cardinality(R) + 1 ELSE Cardinality(R)
    BY <1>1, <1>2, <1>3, <1>4, Zenon
<1>6. Cardinality(P) \in Nat /\ Cardinality(R) \in Nat
    BY <1>1, FS_CardinalityType
<1> DEFINE p == Cardinality(P)  q == Cardinality(Q)  r == Cardinality(R)
<1>7. p \in Nat /\ r \in Nat /\ (q = IF w \in Q THEN r + 1 ELSE r) /\ (r = IF w \in P THEN p - 1 ELSE p)
    BY <1>1, <1>5, <1>6
<1> HIDE DEF p, q, r
<1>8. p + (IF w \in Q THEN 1 ELSE 0) = q + (IF w \in P THEN 1 ELSE 0)
    BY <1>7
<1>. QED  BY <1>5, <1>8 DEF p, q


-----------------------------------------------------------------------------
(* The references the control stack holds: item by item.                    *)

Counts(S, o) == \A t \in S : Held(t, o) \in Nat

HeldSums(stack, o, u) ==
    /\ u[0] = 0 /\ HeldIn(stack, o) = u[Len(stack)]
    /\ \A i, j \in 0 .. Len(stack) : j = i + 1 => u[j] = u[i] + Held(stack[j], o)

\* The references a stack holds are summed up item by item.
LEMMA HeldSteps ==
    ASSUME NEW S, NEW c \in Seq(S), NEW o, Counts(S, o)
    PROVE  \E u \in [0 .. Len(c) -> Nat] : HeldSums(c, o, u)
<1> DEFINE n == Len(c)
           H(i) == Held(c[i], o)
           g == [i \in 1 .. n |-> [x \in Nat |-> x + H(i)]]
<1>n. n \in Nat
    OBVIOUS
<1>h. \A i \in 1 .. n : H(i) \in Nat
    BY DEF Counts
<1> HIDE DEF H, n
<1> DEFINE upto == CHOOSE f : f = [i \in 0 .. n |-> IF i = 0 THEN 0 ELSE f[i - 1] + H(i)]
<1>1. g \in [1 .. n -> [Nat -> Nat]]
    BY <1>h
<1>2. PICK f \in [0 .. n -> Nat] : Steps(f, n, 0, g)
    <2> HIDE DEF g
    <2>. QED  BY <1>n, <1>1, StepByStep
<1>4. \A i \in 0 .. n : f[i] = IF i = 0 THEN 0 ELSE f[i - 1] + H(i)
    <2> SUFFICES ASSUME NEW i \in 0 .. n, i # 0 PROVE f[i] = f[i - 1] + H(i)
        BY <1>2 DEF Steps
    <2>1. i \in 1 .. n /\ f[i - 1] \in Nat
        BY <1>n
    <2>. QED  BY <1>2, <2>1 DEF Steps
<1>5. upto = [i \in 0 .. n |-> IF i = 0 THEN 0 ELSE upto[i - 1] + H(i)]
    <2>1. f = [i \in 0 .. n |-> IF i = 0 THEN 0 ELSE f[i - 1] + H(i)]
        BY <1>4
    <2>. QED  BY <2>1
<1>6. HeldIn(c, o) = upto[n]
    BY DEF HeldIn, n, H
<1> HIDE DEF upto
<1>7. DOMAIN upto = 0 .. n /\ upto[0] = 0
    <2>1. upto[0] = IF 0 = 0 THEN 0 ELSE upto[0 - 1] + H(0)
        BY <1>5, <1>n
    <2>. QED  BY <1>5, <2>1
<1>8. \A i, j \in 0 .. n : j = i + 1 => upto[j] = upto[i] + H(j)
    <2> SUFFICES ASSUME NEW i \in 0 .. n, NEW j \in 0 .. n, j = i + 1 PROVE upto[j] = upto[i] + H(j)
        OBVIOUS
    <2>1. j # 0 /\ j - 1 = i
        BY <1>n
    <2>2. upto[j] = IF j = 0 THEN 0 ELSE upto[j - 1] + H(j)
        BY <1>5, Zenon
    <2>. QED  BY <2>1, <2>2
<1>9. \A i \in 0 .. n : upto[i] \in Nat
    <2> DEFINE G == {i \in 0 .. n : upto[i] \in Nat}
    <2>1. 0 \in G
        BY <1>n, <1>7
    <2>2. \A i, j \in 0 .. n : j = i + 1 /\ i \in G => j \in G
        <3> SUFFICES ASSUME NEW i \in 0 .. n, NEW j \in 0 .. n, j = i + 1, i \in G PROVE j \in G
            OBVIOUS
        <3>1. j \in 1 .. n
            BY <1>n
        <3>. QED  BY <1>h, <1>8, <3>1
    <2>3. \A i \in 0 .. n : i \in G
        <3> HIDE DEF G
        <3>. QED  BY <1>n, <2>1, <2>2, FromTo
    <2>. QED  BY <2>3
<1>10. upto \in [0 .. n -> Nat]
    BY <1>5, <1>7, <1>9
<1>11. HeldSums(c, o, upto)
    BY <1>6, <1>7, <1>8 DEF HeldSums, n, H
<1>. QED  BY <1>10, <1>11 DEF n

\* An empty stack holds no reference.
LEMMA HeldByNone ==
    ASSUME NEW S, NEW c \in Seq(S), NEW o, Counts(S, o), c = <<>>
    PROVE  HeldIn(c, o) = 0
<1>1. PICK u \in [0 .. Len(c) -> Nat] : HeldSums(c, o, u)
    BY HeldSteps
<1>2. Len(c) = 0
    OBVIOUS
<1>. QED  BY <1>1, <1>2 DEF HeldSums

\* An item on top adds what it holds.
LEMMA HeldOnTop ==
    ASSUME NEW S, NEW t \in S, NEW c \in Seq(S), NEW o, Counts(S, o)
    PROVE  /\ HeldIn(c, o) \in Nat
           /\ HeldIn(<<t>> \o c, o) = Held(t, o) + HeldIn(c, o)
<1> DEFINE d == <<t>> \o c
           n == Len(c)
<1>1. /\ d \in Seq(S) /\ Len(d) = n + 1 /\ d[1] = t /\ n \in Nat
      /\ \A i \in 1 .. n, j \in Nat : j = i + 1 => d[j] = c[i]
    BY OnTop
<1> HIDE DEF d
<1>2. PICK u \in [0 .. n -> Nat] : HeldSums(c, o, u)
    BY HeldSteps
<1>3. PICK w \in [0 .. Len(d) -> Nat] : HeldSums(d, o, w)
    BY <1>1, HeldSteps
<1> DEFINE h == Held(t, o)
           H(i) == Held(c[i], o)
<1>4. /\ u[0] = 0 /\ HeldIn(c, o) = u[n]
      /\ \A i, j \in 0 .. n : j = i + 1 => u[j] = u[i] + H(j)
    BY <1>2 DEF HeldSums
<1>5. /\ w[0] = 0 /\ HeldIn(d, o) = w[n + 1]
      /\ \A i, j \in 0 .. n + 1 : j = i + 1 => w[j] = w[i] + Held(d[j], o)
    BY <1>1, <1>3 DEF HeldSums
<1>6. h \in Nat /\ \A i \in 1 .. n : H(i) \in Nat
    BY DEF Counts
<1>7. w[1] = w[0] + Held(d[1], o)
    BY <1>1, <1>5
<1>8. \A i \in 1 .. n, k \in 0 .. n + 1 : k = i + 1 => w[k] = w[i] + H(i)
    <2> SUFFICES ASSUME NEW i \in 1 .. n, NEW k \in 0 .. n + 1, k = i + 1 PROVE w[k] = w[i] + H(i)
        OBVIOUS
    <2>0. i \in 0 .. n + 1
        BY <1>1
    <2>1. w[k] = w[i] + Held(d[k], o)
        BY <1>5, <2>0
    <2>2. d[k] = c[i]
        BY <1>1
    <2>. QED  BY <2>1, <2>2
<1> HIDE DEF n, h, H
<1> DEFINE T == {i \in 0 .. n : w[i + 1] = h + u[i]}
<1>9. 0 \in T
    BY <1>1, <1>4, <1>5, <1>6, <1>7 DEF h
<1>10. \A i, j \in 0 .. n : j = i + 1 /\ i \in T => j \in T
    <2> SUFFICES ASSUME NEW i \in 0 .. n, NEW j \in 0 .. n, j = i + 1, i \in T PROVE j \in T
        OBVIOUS
    <2>1. j \in 1 .. n /\ j + 1 \in 0 .. n + 1
        BY <1>1
    <2>2. w[j + 1] = w[j] + H(j)
        BY <1>8, <2>1
    <2>3. u[j] = u[i] + H(j) /\ w[j] = h + u[i]
        BY <1>4
    <2>4. u[i] \in Nat /\ H(j) \in Nat
        BY <1>6, <2>1, <1>2
    <2>. QED  BY <1>6, <2>2, <2>3, <2>4
<1>11. \A i \in 0 .. n : i \in T
    <2> HIDE DEF T
    <2>. QED  BY <1>1, <1>9, <1>10, FromTo
<1>12. w[n + 1] = h + u[n] /\ u[n] \in Nat
    BY <1>1, <1>2, <1>11
<1>. QED  BY <1>4, <1>5, <1>12 DEF d, h

-----------------------------------------------------------------------------
(* Class tables.                                                            *)

AttrInfo(names) ==
    [cls : names, name : STRING, access : Accesses, const : BOOLEAN, init : STRING]
MethodInfo(names) ==
    [cls : names, name : STRING, access : Accesses, marks : SUBSET MethodMarks,
     params : Seq(Parameters)]

\* Entries pushed on a table of a class leave a table of such entries.
LEMMA PushAllIn ==
    ASSUME NEW S, NEW list \in Seq(S), NEW entries \in Seq(S)
    PROVE  PushAll(list, entries) \in Seq(S)
<1> DEFINE n == Len(entries)
           Q == Seq(S)
           g == [i \in 1 .. n |-> [x \in Q |-> PushNew(x, entries[i])]]
           pushed == CHOOSE f : f = [i \in 0 .. n |->
                         IF i = 0 THEN list ELSE PushNew(f[i - 1], entries[i])]
<1>n. n \in Nat
    OBVIOUS
<1>q. list \in Q /\ \A i \in 1 .. n, x \in Q : PushNew(x, entries[i]) \in Q
    BY DEF PushNew, Push
<1>0. PushAll(list, entries) = pushed[n]
    BY DEF PushAll
<1> HIDE DEF n, Q, pushed
<1>1. g \in [1 .. n -> [Q -> Q]]
    BY <1>q
<1>2. PICK f \in [0 .. n -> Q] : Steps(f, n, list, g)
    <2> HIDE DEF g
    <2>. QED  BY <1>n, <1>q, <1>1, StepByStep
<1>3. \A i \in 0 .. n : f[i] = IF i = 0 THEN list ELSE PushNew(f[i - 1], entries[i])
    <2> SUFFICES ASSUME NEW i \in 0 .. n, i # 0 PROVE f[i] = PushNew(f[i - 1], entries[i])
        BY <1>2 DEF Steps
    <2>1. i \in 1 .. n /\ f[i - 1] \in Q
        BY <1>n
    <2>. QED  BY <1>2, <2>1 DEF Steps
<1>4. pushed = [i \in 0 .. n |-> IF i = 0 THEN list ELSE PushNew(pushed[i - 1], entries[i])]
    <2>1. f = [i \in 0 .. n |-> IF i = 0 THEN list ELSE PushNew(f[i - 1], entries[i])]
        BY <1>3
    <2>. QED  BY <2>1 DEF pushed
<1> DEFINE G == {i \in 0 .. n : pushed[i] \in Q}
<1>5. 0 \in G
    <2>1. 0 \in 0 .. n
        BY <1>n
    <2>2. pushed[0] = list
        BY <1>4, <2>1
    <2>. QED  BY <1>q, <2>1, <2>2
<1>6. \A i, j \in 0 .. n : j = i + 1 /\ i \in G => j \in G
    <2> SUFFICES ASSUME NEW i \in 0 .. n, NEW j \in 0 .. n, j = i + 1, i \in G PROVE j \in G
        OBVIOUS
    <2>1. j # 0 /\ j - 1 = i /\ j \in 1 .. n
        BY <1>n
    <2>2. pushed[j] = IF j = 0 THEN list ELSE PushNew(pushed[j - 1], entries[j])
        BY <1>4, Zenon
    <2>3. pushed[j] = PushNew(pushed[i], entries[j])
        BY <2>1, <2>2
    <2>. QED  BY <1>q, <2>1, <2>3
<1>7. \A i \in 0 .. n : i \in G
    <2> HIDE DEF G
    <2>. QED  BY <1>n, <1>5, <1>6, FromTo
<1>. QED  BY <1>n, <1>0, <1>7 DEF Q

\* A list put in the other order is one of the same things, as long.
LEMMA ReverseIn ==
    ASSUME NEW S, NEW s \in Seq(S)
    PROVE  Reverse(s) \in Seq(S) /\ Len(Reverse(s)) = Len(s)
BY DEF Reverse

\* A class of the program, as declared.
LEMMA DeclaredClass ==
    ASSUME NEW names, NEW d \in Declarations, d.name \in names
    PROVE  NewClass(d) \in ClassInfo(names)
<1> DEFINE AD == [name : STRING, access : Accesses, const : BOOLEAN, init : STRING]
           MD == [name : STRING, access : Accesses, marks : SUBSET MethodMarks,
                  params : Seq(Parameters)]
           A == [i \in DOMAIN d.attrs |-> NewAttribute(d, d.attrs[i])]
           M == [i \in DOMAIN d.methods |-> NewMethod(d, d.methods[i])]
<1>1. /\ d.name \in STRING /\ d.marks \in SUBSET ClassMarks
      /\ d.attrs \in Seq(AD) /\ d.methods \in Seq(MD)
    BY DEF Declarations
<1>2. A \in Seq(AttrInfo(names))
    <2>1. \A a \in AD : NewAttribute(d, a) \in AttrInfo(names)
        BY DEF NewAttribute, AttrInfo
    <2> HIDE DEF AD
    <2>2. \A i \in 1 .. Len(d.attrs) : A[i] \in AttrInfo(names)
        BY <1>1, <2>1
    <2> DEFINE T == AttrInfo(names)
    <2>3. Len(d.attrs) \in Nat /\ DOMAIN d.attrs = 1 .. Len(d.attrs)
        BY <1>1
    <2>4. A \in [1 .. Len(d.attrs) -> T]
        BY <2>2, <2>3
    <2> HIDE DEF A, T
    <2>. QED  BY <2>3, <2>4 DEF T
<1>3. M \in Seq(MethodInfo(names))
    <2>1. \A m \in MD : NewMethod(d, m) \in MethodInfo(names)
        BY DEF NewMethod, MethodInfo
    <2> HIDE DEF MD
    <2>2. \A i \in 1 .. Len(d.methods) : M[i] \in MethodInfo(names)
        BY <1>1, <2>1
    <2> DEFINE T == MethodInfo(names)
    <2>3. Len(d.methods) \in Nat /\ DOMAIN d.methods = 1 .. Len(d.methods)
        BY <1>1
    <2>4. M \in [1 .. Len(d.methods) -> T]
        BY <2>2, <2>3
    <2> HIDE DEF M, T
    <2>. QED  BY <2>3, <2>4 DEF T
<1> HIDE DEF A, M
<1>4. Reverse(A) \in Seq(AttrInfo(names)) /\ Reverse(M) \in Seq(MethodInfo(names))
    BY <1>2, <1>3, ReverseIn
<1>5. NewClass(d) = [name |-> d.name, marks |-> d.marks, hDerived |-> <<>>, pBase |-> Nil,
                     aInterface |-> {}, hAttr |-> Reverse(A), hMethod |-> Reverse(M)]
    BY DEF NewClass, A, M
<1>6. <<>> \in Seq([name : names])
    OBVIOUS
<1>. QED  BY <1>1, <1>4, <1>5, <1>6 DEF ClassInfo, AttrInfo, MethodInfo

\* The classes as the compiler installs them make a well formed table.
LEMMA InstalledOK ==
    ASSUME NEW ds \in Seq(Declarations)
    PROVE  TableOK(Installed(ds)) /\ DOMAIN Installed(ds) = {ds[i].name : i \in DOMAIN ds}
<1> DEFINE names == {ds[i].name : i \in DOMAIN ds}
<1>1. \A c \in names : LET d == ds[CHOOSE i \in DOMAIN ds : ds[i].name = c]
                       IN  d \in Declarations /\ d.name \in names
    <2> SUFFICES ASSUME NEW c \in names
                 PROVE  LET d == ds[CHOOSE i \in DOMAIN ds : ds[i].name = c]
                        IN  d \in Declarations /\ d.name \in names
        OBVIOUS
    <2> DEFINE k == CHOOSE i \in DOMAIN ds : ds[i].name = c
    <2>1. k \in DOMAIN ds /\ ds[k].name = c
        OBVIOUS
    <2> HIDE DEF k
    <2>2. ds[k] \in Declarations /\ ds[k].name \in names
        BY <2>1
    <2>. QED  BY <2>2 DEF k
<1>2. Installed(ds) = [c \in names |-> NewClass(ds[CHOOSE i \in DOMAIN ds : ds[i].name = c])]
    BY DEF Installed
<1> HIDE DEF names
<1>3. Installed(ds) \in [names -> ClassInfo(names)]
    <2>1. \A c \in names : Installed(ds)[c] \in ClassInfo(names)
        <3> SUFFICES ASSUME NEW c \in names PROVE Installed(ds)[c] \in ClassInfo(names)
            OBVIOUS
        <3> DEFINE d == ds[CHOOSE i \in DOMAIN ds : ds[i].name = c]
        <3>1. d \in Declarations /\ d.name \in names /\ Installed(ds)[c] = NewClass(d)
            BY <1>1, <1>2
        <3> HIDE DEF d
        <3>. QED  BY <3>1, DeclaredClass
    <2>. QED  BY <1>2, <2>1
<1>. QED  BY <1>2, <1>3 DEF TableOK, names

\* The linking steps the compiler leaves name classes of the program.
LEMMA InitTodoIn ==
    ASSUME NEW ds \in Seq(Declarations)
    PROVE  InitTodo(ds) \in Seq({ds[i].name : i \in DOMAIN ds} \X LinkSteps)
<1> DEFINE names == {ds[i].name : i \in DOMAIN ds}
           L(d) == [j \in DOMAIN Links(d) |-> <<d.name, Links(d)[j]>>]
           s == [i \in DOMAIN ds |-> L(ds[i])]
<1>1. \A d \in Declarations : Links(d) \in Seq(LinkSteps)
    <2> SUFFICES ASSUME NEW d \in Declarations PROVE Links(d) \in Seq(LinkSteps)
        OBVIOUS
    <2> DEFINE Each(kind, list) == [i \in DOMAIN list |-> <<kind, list[i]>>]
    <2>1. d.extends \in Seq(STRING) /\ d.implements \in Seq(STRING)
        BY DEF Declarations
    <2>2. \A kind \in {"inherit", "implement", "interface"}, list \in Seq(STRING) :
              Each(kind, list) \in Seq(LinkSteps)
        <3> SUFFICES ASSUME NEW kind \in {"inherit", "implement", "interface"}, NEW list \in Seq(STRING)
                     PROVE  Each(kind, list) \in Seq(LinkSteps)
            OBVIOUS
        <3>1. Each(kind, list) \in [1 .. Len(list) -> LinkSteps]
            BY DEF LinkSteps
        <3>. QED  BY <3>1
    <2>3. Links(d) = IF "interface" \in d.marks THEN Each("interface", d.extends)
                     ELSE Each("inherit", d.extends) \o Each("implement", d.implements)
        BY DEF Links
    <2> HIDE DEF Each
    <2>4. /\ Each("interface", d.extends) \in Seq(LinkSteps)
          /\ Each("inherit", d.extends) \in Seq(LinkSteps)
          /\ Each("implement", d.implements) \in Seq(LinkSteps)
        BY <2>1, <2>2
    <2>. QED  BY <2>3, <2>4
<1>2. \A d \in Declarations : d.name \in names => L(d) \in Seq(names \X LinkSteps)
    <2> SUFFICES ASSUME NEW d \in Declarations, d.name \in names
                 PROVE  L(d) \in Seq(names \X LinkSteps)
        OBVIOUS
    <2>1. L(d) \in [1 .. Len(Links(d)) -> names \X LinkSteps]
        BY <1>1
    <2>. QED  BY <1>1, <2>1
<1>3. \A i \in 1 .. Len(ds) : ds[i] \in Declarations /\ ds[i].name \in names
    OBVIOUS
<1>4. s \in [1 .. Len(ds) -> Seq(names \X LinkSteps)]
    <2> HIDE DEF L, names
    <2>. QED  BY <1>2, <1>3
<1>5. InitTodo(ds) = FlattenSeq(s)
    BY DEF InitTodo
<1>6. Len(ds) \in Nat
    OBVIOUS
<1>. QED
    <2> HIDE DEF s, names
    <2>1. FlattenSeq(s) \in Seq(names \X LinkSteps)
        BY <1>4, <1>6, FlattenedIn
    <2>. QED  BY <1>5, <2>1 DEF names

\* The tables of a class, and the class with other ones.
LEMMA ClassFields ==
    ASSUME NEW cs, TableOK(cs), NEW c \in DOMAIN cs
    PROVE  /\ cs[c] \in ClassInfo(DOMAIN cs)
           /\ cs[c].name \in STRING /\ cs[c].marks \in SUBSET ClassMarks
           /\ cs[c].hDerived \in Seq([name : DOMAIN cs])
           /\ cs[c].hAttr \in Seq(AttrInfo(DOMAIN cs))
           /\ cs[c].hMethod \in Seq(MethodInfo(DOMAIN cs))
<1>1. cs[c] \in ClassInfo(DOMAIN cs)
    BY DEF TableOK
<1>. QED  BY <1>1 DEF ClassInfo, AttrInfo, MethodInfo

\* A table with one class replaced by another well formed one.
LEMMA ClassChanged ==
    ASSUME NEW cs, TableOK(cs), NEW sub \in DOMAIN cs, NEW new,
           DOMAIN new = DOMAIN cs, new = [cs EXCEPT ![sub] = new[sub]],
           new[sub] \in ClassInfo(DOMAIN cs)
    PROVE  TableOK(new)
<1> DEFINE T == ClassInfo(DOMAIN cs)  N == DOMAIN cs
<1>1. cs \in [N -> T] /\ new[sub] \in T
    BY DEF TableOK
<1> HIDE DEF T
<1>2. [cs EXCEPT ![sub] = new[sub]] \in [N -> T]
    BY <1>1
<1>3. new \in [N -> T]
    <2> HIDE DEF N
    <2>. QED  BY <1>2, Zenon
<1>. QED  BY <1>3 DEF T, TableOK

\* Every linking step that is not refused keeps the table well formed, and the
\* classes in it.
LEMMA LinkKeepsTable ==
    ASSUME NEW cs, TableOK(cs), NEW sub \in DOMAIN cs, NEW link \in LinkSteps,
           ~ LinkRefused(cs, sub, link)
    PROVE  TableOK(Link(cs, sub, link)) /\ DOMAIN Link(cs, sub, link) = DOMAIN cs
<1> DEFINE N == DOMAIN cs
           base == link[2]
           new == Link(cs, sub, link)
<1>1. link[1] \in {"inherit", "implement", "interface"}
    BY DEF LinkSteps
<1>2. /\ cs[sub] \in ClassInfo(N)
      /\ cs[sub].hDerived \in Seq([name : N])
      /\ cs[sub].hAttr \in Seq(AttrInfo(N)) /\ cs[sub].hMethod \in Seq(MethodInfo(N))
    BY ClassFields
<1>3. CASE link[1] = "inherit"
    <2>1. new = Inherit(cs, sub, base) /\ base \in N
        BY <1>3 DEF Link, LinkRefused, InheritRefused
    <2>2. cs[base].hAttr \in Seq(AttrInfo(N)) /\ cs[base].hMethod \in Seq(MethodInfo(N))
        BY <2>1, ClassFields
    <2> DEFINE hD == Push(cs[sub].hDerived, [name |-> base])
               hA == Reverse(cs[base].hAttr) \o cs[sub].hAttr
               hM == PushAll(cs[sub].hMethod, cs[base].hMethod)
               pB == IF cs[sub].pBase = Nil THEN base ELSE cs[sub].pBase
    <2>3. hD \in Seq([name : N])
        BY <1>2, <2>1 DEF Push
    <2>4. hA \in Seq(AttrInfo(N))
        <3> DEFINE T == AttrInfo(N)
        <3>1. Reverse(cs[base].hAttr) \in Seq(T) /\ cs[sub].hAttr \in Seq(T)
            BY <1>2, <2>2, ReverseIn
        <3> HIDE DEF T
        <3>2. hA \in Seq(T)
            BY <3>1
        <3>. QED  BY <3>2 DEF T
    <2>5. hM \in Seq(MethodInfo(N))
        BY <1>2, <2>2, PushAllIn
    <2>6. pB \in N \cup {Nil}
        BY <1>2, <2>1 DEF ClassInfo
    <2>7. new = [cs EXCEPT ![sub] = [cs[sub] EXCEPT !.hDerived = hD, !.hAttr = hA,
                                                  !.hMethod = hM, !.pBase = pB]]
        BY <1>2, <2>1 DEF Inherit, ClassInfo
    <2> HIDE DEF hD, hA, hM, pB
    <2>8. new[sub] \in ClassInfo(N)
        BY <1>2, <2>3, <2>4, <2>5, <2>6, <2>7, ZenonT(60) DEF ClassInfo, AttrInfo, MethodInfo
    <2>9. new = [cs EXCEPT ![sub] = new[sub]] /\ DOMAIN new = N
        BY <2>7
    <2> HIDE DEF new
    <2>. QED  BY <2>8, <2>9, ClassChanged DEF new
<1>4. CASE link[1] = "implement"
    <2>1. new = Implement(cs, sub, base) /\ base \in N
        BY <1>4 DEF Link, LinkRefused, ImplementRefused
    <2>2. cs[base].hAttr \in Seq(AttrInfo(N))
        BY <2>1, ClassFields
    <2> DEFINE hA == PushAll(cs[sub].hAttr, cs[base].hAttr)
               aI == cs[sub].aInterface \cup {base}
    <2>4. hA \in Seq(AttrInfo(N))
        BY <1>2, <2>2, PushAllIn
    <2>6. aI \in SUBSET N
        BY <1>2, <2>1 DEF ClassInfo
    <2>7. new = [cs EXCEPT ![sub] = [cs[sub] EXCEPT !.hAttr = hA, !.aInterface = aI]]
        BY <1>2, <2>1 DEF Implement, ClassInfo
    <2> HIDE DEF hA, aI
    <2>8. new[sub] \in ClassInfo(N)
        BY <1>2, <2>4, <2>6, <2>7 DEF ClassInfo, AttrInfo, MethodInfo
    <2>9. new = [cs EXCEPT ![sub] = new[sub]] /\ DOMAIN new = N
        BY <2>7
    <2> HIDE DEF new
    <2>. QED  BY <2>8, <2>9, ClassChanged DEF new
<1>5. CASE link[1] = "interface"
    <2>1. new = InterfaceInherit(cs, sub, base) /\ base \in N
        BY <1>5 DEF Link, LinkRefused, InterfaceInheritRefused
    <2>2. cs[base].hAttr \in Seq(AttrInfo(N)) /\ cs[base].hMethod \in Seq(MethodInfo(N))
        BY <2>1, ClassFields
    <2> DEFINE hD == Push(cs[sub].hDerived, [name |-> base])
               hA == PushAll(cs[sub].hAttr, cs[base].hAttr)
               hM == PushAll(cs[sub].hMethod, cs[base].hMethod)
               pB == base
    <2>3. hD \in Seq([name : N])
        BY <1>2, <2>1 DEF Push
    <2>4. hA \in Seq(AttrInfo(N))
        BY <1>2, <2>2, PushAllIn
    <2>5. hM \in Seq(MethodInfo(N))
        BY <1>2, <2>2, PushAllIn
    <2>6. pB \in N \cup {Nil}
        BY <2>1
    <2>7. new = [cs EXCEPT ![sub] = [cs[sub] EXCEPT !.hDerived = hD, !.hAttr = hA,
                                                  !.hMethod = hM, !.pBase = pB]]
        BY <1>2, <2>1 DEF InterfaceInherit, ClassInfo
    <2> HIDE DEF hD, hA, hM, pB
    <2>8. new[sub] \in ClassInfo(N)
        BY <1>2, <2>3, <2>4, <2>5, <2>6, <2>7, ZenonT(60) DEF ClassInfo, AttrInfo, MethodInfo
    <2>9. new = [cs EXCEPT ![sub] = new[sub]] /\ DOMAIN new = N
        BY <2>7
    <2> HIDE DEF new
    <2>. QED  BY <2>8, <2>9, ClassChanged DEF new
<1>. QED  BY <1>1, <1>3, <1>4, <1>5

\* What the look-ups find are methods of the tables.
LEMMA GetIn ==
    ASSUME NEW S, NEW list \in Seq(S), NEW name, Get(list, name) # Nil
    PROVE  Get(list, name) \in S
<1> DEFINE at == {i \in DOMAIN list : list[i].name = name}
<1>1. at # {} /\ Get(list, name) = list[Min(at)]
    BY DEF Get
<1>2. at \subseteq Nat
    OBVIOUS
<1>3. Min(at) \in at
    <2> HIDE DEF at
    <2>. QED  BY <1>1, <1>2, MinIn
<1>4. \A i \in at : list[i] \in S
    OBVIOUS
<1> HIDE DEF at
<1>. QED  BY <1>1, <1>3, <1>4

\* The method OP_MEMBER finds, in a class or in its bases, is one of the tables.
LEMMA MemberMethodIn ==
    ASSUME NEW cs, TableOK(cs), NEW c \in DOMAIN cs, NEW mark, NEW name,
           MemberMethod(cs, c, mark, name) # Nil
    PROVE  MemberMethod(cs, c, mark, name) \in MethodInfo(DOMAIN cs)
<1> DEFINE S == MethodInfo(DOMAIN cs)
           own == Get(cs[c].hMethod, name)
           bases == cs[c].hDerived
           answers == [i \in DOMAIN bases |-> Get(cs[bases[i].name].hMethod, name)]
           at == {i \in DOMAIN answers : answers[i] # Nil}
<1>1. cs[c].hMethod \in Seq(S) /\ bases \in Seq([name : DOMAIN cs])
    BY ClassFields
<1>2. \A b \in DOMAIN cs : Get(cs[b].hMethod, name) # Nil => Get(cs[b].hMethod, name) \in S
    <2> SUFFICES ASSUME NEW b \in DOMAIN cs, Get(cs[b].hMethod, name) # Nil
                 PROVE  Get(cs[b].hMethod, name) \in S
        OBVIOUS
    <2>1. cs[b].hMethod \in Seq(S)
        BY ClassFields
    <2> HIDE DEF S
    <2>. QED  BY <2>1, GetIn
<1>3. MemberMethod(cs, c, mark, name) = IF mark # "parent" /\ own # Nil THEN own
                                        ELSE FirstFound(answers)
    BY DEF MemberMethod
<1>4. FirstFound(answers) # Nil => FirstFound(answers) \in S
    <2> SUFFICES ASSUME FirstFound(answers) # Nil PROVE FirstFound(answers) \in S
        OBVIOUS
    <2>1. at # {} /\ FirstFound(answers) = answers[Min(at)]
        BY DEF FirstFound
    <2>2. at \subseteq Nat
        BY <1>1
    <2>3. Min(at) \in at
        <3> HIDE DEF at
        <3>. QED  BY <2>1, <2>2, MinIn
    <2>4. \A i \in at : answers[i] \in S
        <3> SUFFICES ASSUME NEW i \in at PROVE answers[i] \in S
            OBVIOUS
        <3>0. i \in DOMAIN bases
            OBVIOUS
        <3>1. bases[i].name \in DOMAIN cs
            <4> DEFINE R == [name : DOMAIN cs]
            <4>1. bases \in Seq(R)
                BY <1>1
            <4> HIDE DEF R, bases
            <4>2. bases[i] \in R
                BY <3>0, <4>1
            <4>. QED  BY <4>2 DEF R, bases
        <3>3. answers[i] = Get(cs[bases[i].name].hMethod, name)
            BY <3>0
        <3>2. answers[i] # Nil
            OBVIOUS
        <3> HIDE DEF answers, at, S
        <3>. QED  BY <1>2, <3>1, <3>2, <3>3
    <2> HIDE DEF at, answers
    <2>. QED  BY <2>1, <2>3, <2>4
<1> HIDE DEF answers, S
<1>. QED  BY <1>2, <1>3, <1>4 DEF S

\* The overload OP_CALL settles on is a method of the tables.
LEMMA OverloadIn ==
    ASSUME NEW cs, TableOK(cs), NEW method, method.cls \in DOMAIN cs,
           NEW types, Len(types) \in Nat, Overload(cs, method, types) # Nil
    PROVE  Overload(cs, method, types) \in MethodInfo(DOMAIN cs)
<1> DEFINE S == MethodInfo(DOMAIN cs)
           list == cs[method.cls].hMethod
           fit == {i \in Overloads(list, method) : Fits(list[i], Len(types))}
           A(i) == Agreement(list[i], types)
           values == {A(i) : i \in fit}
           best == {i \in fit : A(i) = Max(values)}
<1>1. list \in Seq(S)
    BY ClassFields
<1>0. fit \subseteq DOMAIN list
    BY DEF Overloads
<1>2. fit # {} /\ Overload(cs, method, types) = list[Max(best)]
    BY DEF Overload
<1>3. \A i \in fit : A(i) \in 0 .. Len(types)
    <2> SUFFICES ASSUME NEW i \in fit PROVE A(i) \in 0 .. Len(types)
        OBVIOUS
    <2> DEFINE m == list[i]
               n == IF Len(types) < Len(m.params) THEN Len(types) ELSE Len(m.params)
               same == {k \in 0 .. n : \A j \in 1 .. k : m.params[j].type = types[j]}
    <2>1. list[i] \in S
        BY <1>0, <1>1
    <2>2. Len(m.params) \in Nat
        BY <2>1 DEF MethodInfo
    <2>3. n \in Nat /\ n <= Len(types)
        BY <2>2
    <2>4. A(i) = Max(same)
        BY DEF Agreement
    <2>5. 0 \in same /\ same \subseteq 0 .. n
        BY <2>3
    <2>6. Max(same) \in same
        <3> HIDE DEF same, n
        <3>. QED  BY <2>3, <2>5, MaxIn
    <2>7. Max(same) \in 0 .. n
        BY <2>5, <2>6
    <2> HIDE DEF same, n
    <2>8. Max(same) \in 0 .. Len(types)
        BY <2>3, <2>7
    <2>. QED  BY <2>4, <2>8
<1>4. values # {} /\ values \subseteq 0 .. Len(types)
    <2> HIDE DEF A, fit
    <2>. QED  BY <1>2, <1>3
<1>5. Max(values) \in values
    <2> HIDE DEF values
    <2>. QED  BY <1>4, MaxIn
<1>6. best # {}
    <2> HIDE DEF A, fit
    <2>. QED  BY <1>5
<1>7. best \subseteq 0 .. Len(list) /\ Len(list) \in Nat
    <2> HIDE DEF A
    <2>. QED  BY <1>0, <1>1
<1>8. Max(best) \in best
    <2> HIDE DEF best, list
    <2>. QED  BY <1>6, <1>7, MaxIn
<1>9. \A i \in best : list[i] \in S
    <2> HIDE DEF A
    <2>. QED  BY <1>0, <1>1
<1> HIDE DEF best, S
<1>. QED  BY <1>2, <1>8, <1>9 DEF S

-----------------------------------------------------------------------------
(* References among values.                                                 *)

\* What holds of the empty sequence, and of one with an item put on top.
LEMMA OneAfterAnother ==
    ASSUME NEW S, NEW T, <<>> \in T, NEW c \in Seq(S),
           \A t \in S, s \in Seq(S) : s \in T => <<t>> \o s \in T
    PROVE  c \in T
<1> DEFINE n == Len(c)
           G == {m \in 0 .. n : \A s \in Seq(S) : Len(s) = m => s \in T}
<1>1. n \in Nat
    OBVIOUS
<1>2. 0 \in G
    <2>1. \A s \in Seq(S) : Len(s) = 0 => s = <<>>
        OBVIOUS
    <2>. QED  BY <1>1, <2>1
<1>3. \A i, j \in 0 .. n : j = i + 1 /\ i \in G => j \in G
    <2> SUFFICES ASSUME NEW i \in 0 .. n, NEW j \in 0 .. n, j = i + 1, i \in G,
                        NEW s \in Seq(S), Len(s) = j
                 PROVE  s \in T
        OBVIOUS
    <2>1. s # <<>>
        OBVIOUS
    <2>2. Head(s) \in S /\ Tail(s) \in Seq(S) /\ s = <<Head(s)>> \o Tail(s)
        BY <2>1, TopAndRest
    <2>3. Len(Tail(s)) = i
        BY <2>1
    <2>. QED  BY <2>2, <2>3
<1>4. \A i \in 0 .. n : i \in G
    <2> HIDE DEF G, n
    <2>. QED  BY <1>1, <1>2, <1>3, FromTo
<1>5. n \in G
    <2> HIDE DEF G
    <2>. QED  BY <1>1, <1>4
<1>. QED  BY <1>5

\* Is this one?
To(val, o) == IF val.ref = o THEN 1 ELSE 0

\* The values that refer to an object can be counted.
LEMMA RefsFinite ==
    ASSUME NEW V, NEW s \in Seq(V), NEW o
    PROVE  /\ IsFiniteSet({i \in DOMAIN s : s[i].ref = o})
           /\ RefsIn(s, o) \in Nat
<1> DEFINE I == {i \in DOMAIN s : s[i].ref = o}
<1>1. IsFiniteSet(1 .. Len(s)) /\ I \in SUBSET (1 .. Len(s))
    BY FS_Interval
<1>2. IsFiniteSet(I)
    BY <1>1, FS_Subset
<1>. QED  BY <1>2, FS_CardinalityType DEF RefsIn

\* No values hold no reference.
LEMMA RefsInNone ==
    ASSUME NEW o, NEW s, s = <<>>
    PROVE  RefsIn(s, o) = 0
<1>1. {i \in DOMAIN s : s[i].ref = o} = {}
    OBVIOUS
<1>. QED  BY <1>1, FS_EmptySet DEF RefsIn

\* One value more counts as itself and those behind it.
LEMMA RefsOnTop ==
    ASSUME NEW V, NEW v \in V, NEW s \in Seq(V), NEW o
    PROVE  RefsIn(<<v>> \o s, o) = To(v, o) + RefsIn(s, o)
<1> DEFINE d == <<v>> \o s
           n == Len(s)
           I == {i \in DOMAIN s : s[i].ref = o}
           J == {i + 1 : i \in I}
           D == {i \in DOMAIN d : d[i].ref = o}
<1>0. Stacked(d, v, s, V)
    BY OnTopOf
<1>1. /\ d \in Seq(V) /\ Len(d) = n + 1 /\ d[1] = v /\ n \in Nat
      /\ \A i \in 1 .. n, j \in Nat : j = i + 1 => d[j] = s[i]
      /\ \A j \in 1 .. Len(d) : j # 1 => \E i \in 1 .. n : j = i + 1
    BY <1>0 DEF Stacked
<1>2. DOMAIN d = 1 .. n + 1 /\ DOMAIN s = 1 .. n
    BY <1>1
<1> HIDE DEF d, n
<1>3. IsFiniteSet(I) /\ RefsIn(s, o) = Cardinality(I) /\ Cardinality(I) \in Nat
    BY RefsFinite DEF RefsIn
<1>4. IsFiniteSet(J) /\ Cardinality(J) = Cardinality(I)
    <2>1. I \subseteq Nat
        BY <1>2
    <2> HIDE DEF I
    <2>. QED  BY <1>3, <2>1, MovedUp
<1>5. 1 \notin J
    BY <1>1, <1>2
<1>6. D = IF v.ref = o THEN J \cup {1} ELSE J
    <2>1. \A j \in J : j \in D /\ j # 1
        BY <1>1, <1>2
    <2>2. \A j \in D : j # 1 => j \in J
        <3> SUFFICES ASSUME NEW j \in D, j # 1 PROVE j \in J
            OBVIOUS
        <3>1. PICK i \in 1 .. n : j = i + 1
            BY <1>1, <1>2
        <3>2. d[j] = s[i] /\ d[j].ref = o
            BY <1>1, <3>1
        <3>3. i \in I
            BY <1>2, <3>1, <3>2
        <3>. QED  BY <3>1, <3>3
    <2>3. 1 \in D <=> v.ref = o
        BY <1>1, <1>2
    <2> HIDE DEF D, J
    <2>4. CASE v.ref = o
        BY <2>1, <2>2, <2>3, <2>4
    <2>5. CASE v.ref # o
        <3>1. \A j : j \in D <=> j \in J
            BY <2>1, <2>2, <2>3, <2>5
        <3>2. D = J
            BY <3>1
        <3>. QED  BY <2>5, <3>2, Zenon
    <2>. QED  BY <2>4, <2>5
<1> HIDE DEF J, D
<1>7. /\ IsFiniteSet(J \cup {1})
      /\ Cardinality(J \cup {1}) = IF 1 \in J THEN Cardinality(J) ELSE Cardinality(J) + 1
    BY <1>4, FS_AddElement
<1>8. RefsIn(d, o) = Cardinality(D)
    BY DEF RefsIn, D
<1>9. RefsIn(d, o) = To(v, o) + RefsIn(s, o)
    <2>1. CASE v.ref = o
        BY <1>3, <1>4, <1>5, <1>6, <1>7, <1>8, <2>1 DEF To
    <2>2. CASE v.ref # o
        BY <1>3, <1>4, <1>5, <1>6, <1>7, <1>8, <2>2 DEF To
    <2>. QED  BY <2>1, <2>2
<1>. QED  BY <1>9 DEF d

\* A value alone.
LEMMA RefsInOne ==
    ASSUME NEW v, NEW o
    PROVE  RefsIn(<<v>>, o) = To(v, o)
<1>1. v \in {v} /\ <<>> \in Seq({v}) /\ <<v>> \o <<>> = <<v>>
    OBVIOUS
<1>2. RefsIn(<<v>> \o <<>>, o) = To(v, o) + RefsIn(<<>>, o)
    BY <1>1, RefsOnTop, ZenonT(60)
<1>3. RefsIn(<<>>, o) = 0 /\ To(v, o) \in Nat
    BY RefsInNone DEF To
<1>. QED  BY <1>1, <1>2, <1>3

\* One value replaced by another.
Put(s, k, v) == [s EXCEPT ![k] = v]

\* A value replaced: the count loses what the old one and gains what the new
\* one refers to.
LEMMA RefsPut ==
    ASSUME NEW V, NEW s \in Seq(V), NEW k \in DOMAIN s, NEW v, NEW o
    PROVE  RefsIn(s, o) + To(v, o) = RefsIn(Put(s, k, v), o) + To(s[k], o)
<1> DEFINE t == Put(s, k, v)
           P == {i \in DOMAIN s : s[i].ref = o}
           Q == {i \in DOMAIN t : t[i].ref = o}
<1>1. IsFiniteSet(P)
    BY RefsFinite
<1>2. P \ {k} = Q \ {k} /\ (k \in P <=> s[k].ref = o) /\ (k \in Q <=> v.ref = o)
    BY DEF Put
<1> HIDE DEF P, Q, t
<1>3. Cardinality(P) + (IF k \in Q THEN 1 ELSE 0) = Cardinality(Q) + (IF k \in P THEN 1 ELSE 0)
    BY <1>1, <1>2, DifferInOne
<1>4. RefsIn(s, o) = Cardinality(P) /\ RefsIn(t, o) = Cardinality(Q)
    BY DEF RefsIn, P, Q
<1>5. To(v, o) = (IF k \in Q THEN 1 ELSE 0) /\ To(s[k], o) = (IF k \in P THEN 1 ELSE 0)
    BY <1>2 DEF To
<1>. QED  BY <1>3, <1>4, <1>5 DEF t

\* The variables of a frame that refer to o.
VarsTo(variables, o) == Cardinality({v \in Vars : variables[v].ref = o})

\* The variables that refer to an object can be counted.
LEMMA VarsFinite ==
    ASSUME NEW variables, NEW o
    PROVE  IsFiniteSet({v \in Vars : variables[v].ref = o}) /\ VarsTo(variables, o) \in Nat
<1> DEFINE P == {v \in Vars : variables[v].ref = o}
<1>1. IsFiniteSet(Vars) /\ P \in SUBSET Vars
    BY ObjectsAssumption
<1>2. IsFiniteSet(P)
    BY <1>1, FS_Subset
<1>. QED  BY <1>2, FS_CardinalityType DEF VarsTo

\* A variable assigned: the count loses the old value and gains the new one.
LEMMA VarReplaced ==
    ASSUME NEW V, NEW s \in [Vars -> V], NEW k \in Vars, NEW v, NEW o
    PROVE  VarsTo(s, o) + To(v, o) = VarsTo(Put(s, k, v), o) + To(s[k], o)
<1> DEFINE t == Put(s, k, v)
           P == {i \in Vars : s[i].ref = o}
           Q == {i \in Vars : t[i].ref = o}
<1>1. IsFiniteSet(P)
    BY VarsFinite
<1>2. P \ {k} = Q \ {k} /\ (k \in P <=> s[k].ref = o) /\ (k \in Q <=> v.ref = o)
    BY DEF Put
<1> HIDE DEF P, Q, t
<1>3. Cardinality(P) + (IF k \in Q THEN 1 ELSE 0) = Cardinality(Q) + (IF k \in P THEN 1 ELSE 0)
    BY <1>1, <1>2, DifferInOne
<1>4. VarsTo(s, o) = Cardinality(P) /\ VarsTo(t, o) = Cardinality(Q)
    BY DEF VarsTo, P, Q
<1>5. To(v, o) = (IF k \in Q THEN 1 ELSE 0) /\ To(s[k], o) = (IF k \in P THEN 1 ELSE 0)
    BY <1>2 DEF To
<1>. QED  BY <1>3, <1>4, <1>5 DEF t

\* What the end of a method drops is what its variables held.
LEMMA LocalsAreVars ==
    ASSUME NEW V, NEW vals \in [Vars -> V], NEW o
    PROVE  Locals(vals) \in Seq(V) /\ RefsIn(Locals(vals), o) = VarsTo(vals, o)
<1> DEFINE n == Cardinality(Vars)
           f == SetToSeq(Vars)
<1>1. IsFiniteSet(Vars) /\ n \in Nat /\ ExistsBijection(1 .. n, Vars)
    BY ObjectsAssumption, FS_CardinalityType
<1>2. PICK g \in Bijection(1 .. n, Vars) : TRUE
    BY <1>1 DEF ExistsBijection
<1>3. g \in [1 .. n -> Vars] /\ IsInjective(g)
    BY <1>2 DEF Bijection, Injection
<1>4. f \in [1 .. n -> Vars] /\ IsInjective(f)
    BY <1>3 DEF SetToSeq
<1> HIDE DEF f, n
<1>5. f \in Injection(1 .. n, Vars)
    BY <1>4 DEF Injection
<1>6. Cardinality(1 .. n) = n
    BY <1>1, FS_Interval
<1>7. f \in Surjection(1 .. n, Vars)
    BY <1>1, <1>5, <1>6, FS_Injection DEF n
<1>8. Locals(vals) = [i \in 1 .. n |-> vals[f[i]]]
    BY DEF Locals, f, n
<1>9. Locals(vals) \in Seq(V)
    BY <1>1, <1>4, <1>8
<1> DEFINE I == {i \in DOMAIN Locals(vals) : Locals(vals)[i].ref = o}
           P == {v \in Vars : vals[v].ref = o}
           h == [i \in I |-> f[i]]
<1>10. I = {i \in 1 .. n : vals[f[i]].ref = o}
    BY <1>8
<1>11. h \in Bijection(I, P)
    <2>1. h \in [I -> P]
        BY <1>4, <1>10
    <2>2. \A i, j \in I : h[i] = h[j] => i = j
        BY <1>4, <1>10 DEF IsInjective
    <2>3. \A v \in P : \E i \in I : h[i] = v
        <3> SUFFICES ASSUME NEW v \in P PROVE \E i \in I : h[i] = v
            OBVIOUS
        <3>1. PICK i \in 1 .. n : f[i] = v
            BY <1>7 DEF Surjection
        <3>2. i \in I
            BY <1>10, <3>1
        <3>. QED  BY <3>1, <3>2
    <2> HIDE DEF h, I, P
    <2>4. IsInjective(h)
        BY <2>1, <2>2 DEF IsInjective
    <2>. QED  BY <2>1, <2>3, <2>4 DEF Bijection, Injection, Surjection
<1>12. IsFiniteSet(I)
    BY <1>9, RefsFinite
<1> HIDE DEF h, I, P
<1>13. Cardinality(P) = Cardinality(I)
    BY <1>11, <1>12, FS_Bijection DEF ExistsBijection
<1>. QED  BY <1>9, <1>13 DEF RefsIn, VarsTo, I, P

-----------------------------------------------------------------------------
(* The control stack: what each of its items says.                          *)

\* The fields of an item, by its kind.
LEMMA ItemFields ==
    ASSUME NEW B, NEW N, NEW t \in Item(B, N)
    PROVE  /\ t.kind \in {"frame", "store", "send", "restore", "unref", "free", "dispose"}
           /\ t.kind = "frame" => /\ t.self \in B /\ t.back \in N /\ t.cls \in N
                                  /\ t.vars \in [Vars -> Value(B)]
           /\ t.kind = "store" => t.var \in Vars /\ t.val \in Value(B)
           /\ t.kind = "send" => t.obj \in B /\ t.mark \in Marks /\ t.args \in Seq(Value(B))
           /\ t.kind = "restore" => t.obj \in B /\ t.back \in N
           /\ t.kind \in {"unref", "free", "dispose"} => t.obj \in B
<1>1. CASE t \in [kind : {"frame"}, self : B, back : N, method : STRING, cls : N,
                  vars : [Vars -> Value(B)]]
    BY <1>1
<1>2. CASE t \in [kind : {"store"}, var : Vars, val : Value(B)]
    BY <1>2
<1>3. CASE t \in [kind : {"send"}, obj : B, mark : Marks, name : STRING, args : Seq(Value(B))]
    BY <1>3
<1>4. CASE t \in [kind : {"restore"}, obj : B, back : N]
    BY <1>4
<1>5. CASE t \in [kind : {"unref", "free", "dispose"}, obj : B]
    BY <1>5
<1>. QED  BY <1>1, <1>2, <1>3, <1>4, <1>5 DEF Item

\* What an item holds is a number of references.
LEMMA HeldType ==
    ASSUME NEW B, NEW N, NEW t \in Item(B, N), NEW o
    PROVE  Held(t, o) \in Nat
<1>1. CASE t.kind = "frame"
    <2>1. Held(t, o) = (IF t.self = o THEN 2 ELSE 0) + VarsTo(t.vars, o)
        BY <1>1 DEF Held, VarsTo
    <2>2. VarsTo(t.vars, o) \in Nat
        BY VarsFinite
    <2>. QED  BY <2>1, <2>2
<1>2. CASE t.kind = "store"
    BY <1>2 DEF Held
<1>3. CASE t.kind = "unref"
    BY <1>3 DEF Held
<1>4. CASE t.kind = "send"
    <2>1. Held(t, o) = (IF t.obj = o THEN 1 ELSE 0) + RefsIn(t.args, o)
        BY <1>4 DEF Held
    <2>2. t.args \in Seq(Value(B))
        BY <1>4, ItemFields
    <2>3. RefsIn(t.args, o) \in Nat
        BY <2>2, RefsFinite
    <2>. QED  BY <2>1, <2>3
<1>5. CASE t.kind \notin {"frame", "store", "unref", "send"}
    BY <1>5 DEF Held
<1>. QED  BY <1>1, <1>2, <1>3, <1>4, <1>5

\* k is the class an object has while the items of c above the i-th run, when
\* b is the one it was created with: that of the next frame that lends it.
Rightful(c, o, i, b, k) ==
    /\ (\A j \in DOMAIN c : i < j => ~ LendsOn(c[j], o)) => k = b
    /\ \A j \in DOMAIN c :
          /\ i < j /\ LendsOn(c[j], o) /\ c[j].kind = "frame"
          /\ \A m \in DOMAIN c : i < m /\ m < j => ~ LendsOn(c[m], o)
          => k = c[j].cls

\* ... and each item that lends it gives the one back that is right then.
Lent(c, o, b, k) ==
    /\ Rightful(c, o, 0, b, k)
    /\ \A i \in DOMAIN c : LendsOn(c[i], o) => Rightful(c, o, i, b, c[i].back)

\* With nothing running, every object is of the class it was created from.
LEMMA LentByNone ==
    ASSUME NEW c, c = <<>>, NEW o, NEW b, NEW k
    PROVE  Lent(c, o, b, k) <=> k = b
BY DEF Lent, Rightful

\* An item on top: one that lends the object keeps the class to give back,
\* and a frame among them says the class the object has; any other item
\* changes nothing.
LEMMA LentOnTop ==
    ASSUME NEW S, NEW t \in S, NEW c \in Seq(S), NEW o, NEW b, NEW k
    PROVE  /\ LendsOn(t, o) => (Lent(<<t>> \o c, o, b, k) <=>
                                  (t.kind = "frame" => k = t.cls) /\ Lent(c, o, b, t.back))
           /\ ~ LendsOn(t, o) => (Lent(<<t>> \o c, o, b, k) <=> Lent(c, o, b, k))
<1> DEFINE d == <<t>> \o c
           n == Len(c)
<1>0. Stacked(d, t, c, S)
    BY OnTopOf
<1>1. /\ d \in Seq(S) /\ Len(d) = n + 1 /\ d[1] = t /\ n \in Nat
      /\ \A i \in 1 .. n, j \in Nat : j = i + 1 => d[j] = c[i]
      /\ \A j \in 1 .. Len(d) : j # 1 => \E i \in 1 .. n : j = i + 1
    BY <1>0 DEF Stacked
<1>2. DOMAIN d = 1 .. n + 1 /\ DOMAIN c = 1 .. n
    BY <1>1
<1> HIDE DEF d, n
<1> DEFINE L(s, j) == LendsOn(s[j], o)
<1>3. \A i \in 1 .. n : i + 1 \in DOMAIN d /\ d[i + 1] = c[i]
    BY <1>1, <1>2
<1>4. \A j \in DOMAIN d : j = 1 \/ \E i \in 1 .. n : j = i + 1
    BY <1>1, <1>2
<1>5. 1 \in DOMAIN d /\ d[1] = t
    BY <1>1, <1>2
<1>6. ASSUME NEW i \in 0 .. n, NEW h
      PROVE  Rightful(d, o, i + 1, b, h) <=> Rightful(c, o, i, b, h)
    <2>1. (\A j \in DOMAIN d : i + 1 < j => ~ L(d, j)) <=> (\A j \in DOMAIN c : i < j => ~ L(c, j))
        <3>1. ASSUME \A j \in DOMAIN d : i + 1 < j => ~ L(d, j), NEW j \in DOMAIN c, i < j
              PROVE  ~ L(c, j)
            <4>1. j \in 1 .. n /\ i + 1 < j + 1
                BY <1>1, <1>2, <3>1
            <4>. QED  BY <1>3, <3>1, <4>1
        <3>2. ASSUME \A j \in DOMAIN c : i < j => ~ L(c, j), NEW m \in DOMAIN d, i + 1 < m
              PROVE  ~ L(d, m)
            <4>1. PICK j \in 1 .. n : m = j + 1
                BY <1>1, <1>4, <3>2
            <4>2. i < j
                BY <1>1, <3>2, <4>1
            <4>. QED  BY <1>2, <1>3, <3>2, <4>1, <4>2
        <3>. QED  BY <3>1, <3>2
    <2>2. ASSUME NEW j \in 1 .. n
          PROVE  (\A m \in DOMAIN d : i + 1 < m /\ m < j + 1 => ~ L(d, m))
                     <=> (\A m \in DOMAIN c : i < m /\ m < j => ~ L(c, m))
        <3>1. ASSUME \A m \in DOMAIN d : i + 1 < m /\ m < j + 1 => ~ L(d, m),
                     NEW m \in DOMAIN c, i < m, m < j
              PROVE  ~ L(c, m)
            <4>1. m \in 1 .. n /\ i + 1 < m + 1 /\ m + 1 < j + 1
                BY <1>1, <1>2, <3>1
            <4>. QED  BY <1>3, <3>1, <4>1
        <3>2. ASSUME \A m \in DOMAIN c : i < m /\ m < j => ~ L(c, m),
                     NEW e \in DOMAIN d, i + 1 < e, e < j + 1
              PROVE  ~ L(d, e)
            <4>1. PICK m \in 1 .. n : e = m + 1
                BY <1>1, <1>4, <3>2, SMTT(60)
            <4>2. i < m /\ m < j
                BY <1>1, <3>2, <4>1
            <4>. QED  BY <1>2, <1>3, <3>2, <4>1, <4>2
        <3>. QED  BY <3>1, <3>2
    <2> DEFINE P(s, x, j) == /\ x < j /\ L(s, j) /\ s[j].kind = "frame"
                             /\ \A m \in DOMAIN s : x < m /\ m < j => ~ L(s, m)
    <2>3. ASSUME NEW j \in 1 .. n PROVE P(d, i + 1, j + 1) <=> P(c, i, j)
        <3>1. i + 1 < j + 1 <=> i < j
            BY <1>1
        <3>. QED  BY <1>3, <2>2, <3>1
    <2>4. \A j \in DOMAIN d : P(d, i + 1, j) => \E m \in 1 .. n : j = m + 1
        <3>1. ~(i + 1 < 1)
            BY <1>1
        <3>. QED  BY <1>4, <3>1
    <2>5. (\A j \in DOMAIN d : P(d, i + 1, j) => h = d[j].cls)
              <=> (\A j \in DOMAIN c : P(c, i, j) => h = c[j].cls)
        <3> HIDE DEF P
        <3>. QED  BY <1>2, <1>3, <2>3, <2>4
    <2>. QED  BY <2>1, <2>5 DEF Rightful
<1>7. ASSUME NEW h, ~ L(d, 1) PROVE Rightful(d, o, 0, b, h) <=> Rightful(d, o, 1, b, h)
    <2>1. \A j \in DOMAIN d : j # 1 => (0 < j <=> 1 < j)
        BY <1>1, <1>2
    <2>2. \A j \in DOMAIN d : L(d, j) => j # 1 /\ 0 < j /\ 1 < j
        BY <1>1, <1>2, <1>7
    <2>. QED  BY <2>2 DEF Rightful
<1>8. ASSUME NEW h, L(d, 1)
      PROVE  Rightful(d, o, 0, b, h) <=> (t.kind = "frame" => h = t.cls)
    <2>1. \A j \in DOMAIN d : 0 < j /\ (j # 1 => 1 < j)
        BY <1>1, <1>2
    <2>2. \A m \in DOMAIN d : ~(0 < m /\ m < 1)
        BY <1>2
    <2>. QED  BY <1>5, <1>8, <2>1, <2>2 DEF Rightful
<1>9. (\A i \in DOMAIN d : i # 1 /\ L(d, i) => Rightful(d, o, i, b, d[i].back))
          <=> (\A i \in DOMAIN c : L(c, i) => Rightful(c, o, i, b, c[i].back))
    <2>1. \A i \in 1 .. n : i \in 0 .. n /\ i + 1 # 1
        BY <1>1
    <2>. QED  BY <1>2, <1>3, <1>4, <1>6, <2>1
<1>10. ASSUME NEW h PROVE Rightful(d, o, 1, b, h) <=> Rightful(c, o, 0, b, h)
    <2>1. 0 \in 0 .. n /\ 0 + 1 = 1
        BY <1>1
    <2>. QED  BY <1>6, <2>1
<1>11. CASE LendsOn(t, o)
    <2>1. Lent(d, o, b, k) <=> /\ t.kind = "frame" => k = t.cls
                               /\ Rightful(c, o, 0, b, t.back)
                               /\ \A i \in DOMAIN c : L(c, i) => Rightful(c, o, i, b, c[i].back)
        BY <1>5, <1>8, <1>9, <1>10, <1>11 DEF Lent
    <2>. QED  BY <1>11, <2>1 DEF Lent, d
<1>12. CASE ~ LendsOn(t, o)
    <2>1. Lent(d, o, b, k) <=> /\ Rightful(c, o, 0, b, k)
                               /\ \A i \in DOMAIN c : L(c, i) => Rightful(c, o, i, b, c[i].back)
        BY <1>5, <1>7, <1>9, <1>10, <1>12 DEF Lent
    <2>. QED  BY <1>12, <2>1 DEF Lent, d
<1>. QED  BY <1>11, <1>12

\* What an item may lie on.
Stackable(t, c) ==
    /\ t.kind = "store" => c # <<>> /\ c[1].kind = "frame"
    /\ t.kind = "send" => Len(t.args) <= 1

\* An item put where it may lie leaves a well formed stack.
LEMMA Pushed ==
    ASSUME NEW B, NEW N, NEW t \in Item(B, N), NEW c, StackOK(c, B, N), Stackable(t, c)
    PROVE  StackOK(<<t>> \o c, B, N)
<1> DEFINE d == <<t>> \o c
           n == Len(c)
           S == Item(B, N)
<1>0. c \in Seq(S)
    BY DEF StackOK
<1> HIDE DEF S
<1>1. /\ d \in Seq(S) /\ Len(d) = n + 1 /\ d[1] = t /\ n \in Nat
      /\ \A i \in 1 .. n, j \in Nat : j = i + 1 => d[j] = c[i]
      /\ \A j \in 1 .. Len(d) : j # 1 => \E i \in 1 .. n : j = i + 1
    BY <1>0, OnTop DEF S
<1>2. DOMAIN d = 1 .. n + 1 /\ DOMAIN c = 1 .. n
    BY <1>0, <1>1
<1> HIDE DEF d
<1> SUFFICES ASSUME NEW j \in DOMAIN d
             PROVE  /\ d[j].kind = "store" => j < Len(d) /\ d[j + 1].kind = "frame"
                    /\ d[j].kind = "send" => Len(d[j].args) <= 1
    BY <1>1 DEF StackOK, d, S
<1>3. CASE j = 1
    <2>1. t.kind = "store" => n # 0 /\ c[1].kind = "frame"
        BY <1>0 DEF Stackable
    <2>2. n # 0 => 1 < Len(d) /\ d[2] = c[1]
        BY <1>1
    <2>3. d[j] = t /\ j + 1 = 2
        BY <1>1, <1>3
    <2>. QED  BY <1>3, <2>1, <2>2, <2>3 DEF Stackable
<1>4. CASE j # 1
    <2>1. PICK i \in 1 .. n : j = i + 1
        BY <1>1, <1>2, <1>4
    <2>2. d[j] = c[i]
        BY <1>1, <1>2, <2>1
    <2>3. /\ c[i].kind = "store" => i < n /\ c[i + 1].kind = "frame"
          /\ c[i].kind = "send" => Len(c[i].args) <= 1
        BY <1>2, <2>1 DEF StackOK
    <2>4. i < n => j < Len(d) /\ d[j + 1] = c[i + 1]
        BY <1>1, <2>1
    <2>. QED  BY <2>2, <2>3, <2>4
<1>. QED  BY <1>3, <1>4

\* The top item is one, and what is below it a well formed stack.
LEMMA Popped ==
    ASSUME NEW B, NEW N, NEW c, StackOK(c, B, N), c # <<>>
    PROVE  /\ Head(c) \in Item(B, N) /\ StackOK(Tail(c), B, N) /\ c = <<Head(c)>> \o Tail(c)
           /\ Stackable(Head(c), Tail(c))
<1> DEFINE S == Item(B, N)
           r == Tail(c)
           n == Len(r)
<1>0. c \in Seq(S)
    BY DEF StackOK
<1>1. /\ Head(c) \in S /\ r \in Seq(S) /\ c = <<Head(c)>> \o r
    <2> HIDE DEF S
    <2>. QED  BY <1>0, TopAndRest
<1> HIDE DEF S
<1>2. n \in Nat /\ Len(c) = n + 1 /\ Head(c) = c[1] /\ \A i \in 1 .. n : r[i] = c[i + 1]
    BY <1>0
<1>3. DOMAIN c = 1 .. n + 1 /\ DOMAIN r = 1 .. n
    BY <1>0, <1>1, <1>2
<1> HIDE DEF r, n
<1>4. \A i \in DOMAIN c : /\ c[i].kind = "store" => i < Len(c) /\ c[i + 1].kind = "frame"
                          /\ c[i].kind = "send" => Len(c[i].args) <= 1
    BY DEF StackOK
<1>5. StackOK(r, B, N)
    <2> SUFFICES ASSUME NEW i \in DOMAIN r
                 PROVE  /\ r[i].kind = "store" => i < Len(r) /\ r[i + 1].kind = "frame"
                        /\ r[i].kind = "send" => Len(r[i].args) <= 1
        BY <1>1 DEF StackOK, S
    <2>1. i + 1 \in DOMAIN c /\ r[i] = c[i + 1]
        BY <1>2, <1>3
    <2>2. r[i].kind = "store" => i + 1 < n + 1 /\ c[(i + 1) + 1].kind = "frame"
        BY <1>2, <1>4, <2>1
    <2>3. i + 1 < n + 1 => i < n /\ r[i + 1] = c[(i + 1) + 1]
        BY <1>2, <1>3
    <2>. QED  BY <1>4, <2>1, <2>2, <2>3 DEF n
<1>6. Stackable(c[1], r)
    <2>1. 1 \in DOMAIN c
        BY <1>2, <1>3
    <2>2. c[1].kind = "store" => 1 < n + 1 /\ c[1 + 1].kind = "frame"
        BY <1>2, <1>4, <2>1
    <2>3. 1 < n + 1 => r # <<>> /\ r[1] = c[1 + 1]
        BY <1>2, <1>1 DEF n
    <2>. QED  BY <1>4, <2>1, <2>2, <2>3 DEF Stackable
<1>. QED  BY <1>1, <1>2, <1>5, <1>6 DEF S, r

\* The empty stack is well formed, and holds nothing.
LEMMA NothingOnStack ==
    ASSUME NEW B, NEW N
    PROVE  StackOK(<<>>, B, N)
<1> DEFINE S == Item(B, N)
<1>1. <<>> \in Seq(S) /\ DOMAIN <<>> = {}
    OBVIOUS
<1>. QED  BY <1>1 DEF StackOK

\* Stacks one on the other hold what both hold.
LEMMA HeldByBoth ==
    ASSUME NEW S, NEW o, Counts(S, o), NEW a \in Seq(S), NEW c \in Seq(S)
    PROVE  /\ HeldIn(a \o c, o) = HeldIn(a, o) + HeldIn(c, o)
           /\ HeldIn(a, o) \in Nat /\ HeldIn(c, o) \in Nat
<1> DEFINE T == {s \in Seq(S) : /\ HeldIn(s \o c, o) = HeldIn(s, o) + HeldIn(c, o)
                                /\ HeldIn(s, o) \in Nat}
<1>0. HeldIn(c, o) \in Nat
    <2>1. CASE c = <<>>
        <3>1. HeldIn(c, o) = 0
            BY <2>1, HeldByNone, Zenon
        <3>. QED  BY <3>1
    <2>2. CASE c # <<>>
        <3>1. PICK t \in S, r \in Seq(S) : c = <<t>> \o r
            BY <2>2, TopAndRest
        <3>2. HeldIn(c, o) = Held(t, o) + HeldIn(r, o) /\ HeldIn(r, o) \in Nat
            BY <3>1, HeldOnTop
        <3>. QED  BY <3>2 DEF Counts
    <2>. QED  BY <2>1, <2>2
<1>1. <<>> \in T
    <2>1. <<>> \in Seq(S) /\ <<>> \o c = c
        OBVIOUS
    <2>2. HeldIn(<<>>, o) = 0
        BY <2>1, HeldByNone
    <2>. QED  BY <1>0, <2>1, <2>2
<1>2. \A t \in S, s \in Seq(S) : s \in T => <<t>> \o s \in T
    <2> SUFFICES ASSUME NEW t \in S, NEW s \in Seq(S), s \in T PROVE <<t>> \o s \in T
        OBVIOUS
    <2>1. <<t>> \in Seq(S) /\ s \o c \in Seq(S) /\ <<t>> \o s \in Seq(S)
        OBVIOUS
    <2>2. (<<t>> \o s) \o c = <<t>> \o (s \o c)
        BY <2>1, ConcatAssociative
    <2>3. HeldIn(<<t>> \o (s \o c), o) = Held(t, o) + HeldIn(s \o c, o)
        <3> DEFINE x == s \o c
        <3>1. x \in Seq(S)
            BY <2>1
        <3> HIDE DEF x
        <3>2. HeldIn(<<t>> \o x, o) = Held(t, o) + HeldIn(x, o)
            BY <3>1, HeldOnTop
        <3>. QED  BY <3>2 DEF x
    <2>4. HeldIn(<<t>> \o s, o) = Held(t, o) + HeldIn(s, o) /\ HeldIn(s, o) \in Nat
        BY HeldOnTop
    <2>5. HeldIn(s \o c, o) = HeldIn(s, o) + HeldIn(c, o) /\ Held(t, o) \in Nat
        BY DEF Counts
    <2>6. HeldIn((<<t>> \o s) \o c, o) = Held(t, o) + HeldIn(s \o c, o)
        BY <2>2, <2>3
    <2> DEFINE u == (<<t>> \o s) \o c  w == <<t>> \o s  x == s \o c
    <2> HIDE DEF u, w, x
    <2>7. HeldIn(u, o) = HeldIn(w, o) + HeldIn(c, o) /\ HeldIn(w, o) \in Nat
        BY <1>0, <2>4, <2>5, <2>6 DEF u, w, x
    <2>. QED  BY <2>1, <2>7 DEF u, w
<1>3. a \in T
    <2> HIDE DEF T
    <2>. QED  BY <1>1, <1>2, OneAfterAnother
<1>. QED  BY <1>0, <1>3

\* The items that drop the references of values.
Drops(B) == [kind : {"unref"}, obj : B]

\* A reference to drop holds one, and lends nothing.
LEMMA DropsHeld ==
    ASSUME NEW B, NEW o
    PROVE  /\ Counts(Drops(B), o)
           /\ \A t \in Drops(B) : Held(t, o) = (IF t.obj = o THEN 1 ELSE 0) /\ ~ LendsOn(t, o)
<1>1. \A t \in Drops(B) : t.kind = "unref"
    BY DEF Drops
<1>2. \A t \in Drops(B) : Held(t, o) = (IF t.obj = o THEN 1 ELSE 0)
    BY <1>1 DEF Held
<1>. QED  BY <1>1, <1>2 DEF Counts, LendsOn

\* What Unrefs leaves to do holds every reference the values held.
LEMMA UnrefsHold ==
    ASSUME NEW B, NEW vals \in Seq(Value(B)), NEW o, o # Nil
    PROVE  Unrefs(vals) \in Seq(Drops(B)) /\ HeldIn(Unrefs(vals), o) = RefsIn(vals, o)
<1> DEFINE n == Len(vals)
           S == Drops(B)
           s == [i \in DOMAIN vals |->
                    IF vals[i].ref = Nil THEN <<>> ELSE <<Unref(vals[i].ref)>>]
<1>1. n \in Nat /\ DOMAIN vals = 1 .. n /\ Unrefs(vals) = FlattenSeq(s)
    BY DEF Unrefs
<1>2. \A i \in 1 .. n : vals[i].ref # Nil => Unref(vals[i].ref) \in S
    <2>1. \A i \in 1 .. n : vals[i] \in Value(B)
        OBVIOUS
    <2>. QED  BY <2>1 DEF Value, Unref, Drops
<1>3. s \in [1 .. n -> Seq(S)]
    <2>1. \A i \in 1 .. n : vals[i].ref # Nil => <<Unref(vals[i].ref)>> \in Seq(S)
        BY <1>2
    <2>2. <<>> \in Seq(S)
        OBVIOUS
    <2> DEFINE Q == Seq(S)
    <2> HIDE DEF Q, n
    <2>3. s \in [1 .. n -> Q]
        BY <1>1, <2>1, <2>2 DEF Q
    <2>. QED  BY <2>3 DEF Q
<1>4. Counts(S, o)
    BY DropsHeld
<1>5. \A i \in 1 .. n : HeldIn(s[i], o) = To(vals[i], o)
    <2> SUFFICES ASSUME NEW i \in 1 .. n PROVE HeldIn(s[i], o) = To(vals[i], o)
        OBVIOUS
    <2>0. s[i] = IF vals[i].ref = Nil THEN <<>> ELSE <<Unref(vals[i].ref)>>
        BY <1>1
    <2>1. CASE vals[i].ref = Nil
        <3>1. s[i] = <<>> /\ <<>> \in Seq(S)
            BY <2>0, <2>1
        <3>2. HeldIn(<<>>, o) = 0
            BY <1>4, <3>1, HeldByNone
        <3>. QED  BY <2>1, <3>1, <3>2 DEF To
    <2>2. CASE vals[i].ref # Nil
        <3> DEFINE t == Unref(vals[i].ref)
        <3>1. t \in S /\ <<>> \in Seq(S) /\ s[i] = <<t>>
            BY <1>2, <2>0, <2>2
        <3>2. Held(t, o) = To(vals[i], o)
            BY DEF Held, Unref, To
        <3> HIDE DEF t, s, S
        <3>3. <<t>> \o <<>> = <<t>>
            OBVIOUS
        <3>4. HeldIn(<<>>, o) = 0
            BY <1>4, <3>1, HeldByNone
        <3>5. HeldIn(<<t>> \o <<>>, o) = Held(t, o) + HeldIn(<<>>, o)
            BY <1>4, <3>1, HeldOnTop, ZenonT(60)
        <3>. QED  BY <3>1, <3>2, <3>3, <3>4, <3>5 DEF To
    <2>. QED  BY <2>1, <2>2
<1>6. CASE n = 0
    <2>1. s = <<>> /\ vals = <<>> /\ Len(s) = 0
        BY <1>6
    <2>2. FlattenSeq(s) = <<>>
        BY <2>1 DEF FlattenSeq
    <2>3. <<>> \in Seq(S)
        OBVIOUS
    <2>4. HeldIn(<<>>, o) = 0
        BY <1>4, <2>3, HeldByNone
    <2>5. RefsIn(<<>>, o) = 0
        BY RefsInNone
    <2> HIDE DEF s
    <2>. QED  BY <1>1, <2>1, <2>2, <2>3, <2>4, <2>5
<1>7. CASE n # 0
    <2> DEFINE K(i) == {j \in 1 .. i : vals[j].ref = o}
    <2> HIDE DEF s, S, n
    <2>1. PICK f \in [1 .. n -> Seq(S)] : OneByOne(s, n, f)
        BY <1>1, <1>3, <1>7, Flattened
    <2>2. /\ f[1] = s[1] /\ FlattenSeq(s) = f[n]
          /\ \A i, j \in 1 .. n : j = i + 1 => f[j] = f[i] \o s[j]
        BY <2>1 DEF OneByOne
    <2>3. 1 \in 1 .. n /\ n \in 1 .. n
        BY <1>1, <1>7
    <2>4. \A i \in 1 .. n : IsFiniteSet(K(i)) /\ Cardinality(K(i)) \in Nat
        <3> SUFFICES ASSUME NEW i \in 1 .. n PROVE IsFiniteSet(K(i)) /\ Cardinality(K(i)) \in Nat
            OBVIOUS
        <3>1. IsFiniteSet(1 .. i)
            BY FS_Interval
        <3>2. IsFiniteSet(K(i))
            BY <3>1, FS_Subset
        <3>. QED  BY <3>2, FS_CardinalityType
    <2> DEFINE T == {i \in 1 .. n : HeldIn(f[i], o) = Cardinality(K(i))}
    <2>5. 1 \in T
        <3>1. K(1) = IF vals[1].ref = o THEN {} \cup {1} ELSE {}
            BY <1>1
        <3>2. Cardinality({}) = 0 /\ Cardinality({} \cup {1}) = 1
            <4>1. IsFiniteSet({}) /\ Cardinality({}) = 0
                BY FS_EmptySet
            <4>2. Cardinality({} \cup {1}) = IF 1 \in {} THEN Cardinality({}) ELSE Cardinality({}) + 1
                BY <4>1, FS_AddElement
            <4>. QED  BY <4>1, <4>2
        <3>3. Cardinality(K(1)) = To(vals[1], o)
            BY <3>1, <3>2 DEF To
        <3>. QED  BY <1>5, <2>2, <2>3, <3>3
    <2>6. \A i, j \in 1 .. n : j = i + 1 /\ i \in T => j \in T
        <3> SUFFICES ASSUME NEW i \in 1 .. n, NEW j \in 1 .. n, j = i + 1, i \in T PROVE j \in T
            OBVIOUS
        <3>1. HeldIn(f[i] \o s[j], o) = HeldIn(f[i], o) + HeldIn(s[j], o)
            BY <1>3, <1>4, HeldByBoth
        <3>2. HeldIn(f[j], o) = Cardinality(K(i)) + To(vals[j], o)
            BY <1>5, <2>2, <3>1
        <3>3. K(j) = IF vals[j].ref = o THEN K(i) \cup {j} ELSE K(i)
            BY <1>1
        <3>4. j \notin K(i)
            BY <1>1
        <3>5. Cardinality(K(i) \cup {j}) = IF j \in K(i) THEN Cardinality(K(i)) ELSE Cardinality(K(i)) + 1
            BY <2>4, FS_AddElement
        <3>6. Cardinality(K(j)) = Cardinality(K(i)) + To(vals[j], o)
            <4> DEFINE k == Cardinality(K(i))
            <4>1. k \in Nat
                BY <2>4
            <4>2. CASE vals[j].ref = o
                BY <3>3, <3>4, <3>5, <4>2 DEF To
            <4>3. CASE vals[j].ref # o
                <5>1. K(j) = K(i) /\ To(vals[j], o) = 0
                    BY <3>3, <4>3 DEF To
                <5>2. Cardinality(K(j)) = k
                    BY <5>1
                <5> HIDE DEF k
                <5>3. Cardinality(K(j)) = k + 0
                    BY <4>1, <5>2
                <5>. QED  BY <5>1, <5>3 DEF k
            <4>. QED  BY <4>2, <4>3
        <3>. QED  BY <3>2, <3>6
    <2>7. \A i \in 1 .. n : i \in T
        <3> HIDE DEF T
        <3>. QED  BY <1>1, <2>3, <2>5, <2>6, FromTo
    <2>8. HeldIn(f[n], o) = Cardinality(K(n))
        BY <2>3, <2>7
    <2>9. Cardinality(K(n)) = RefsIn(vals, o)
        BY <1>1 DEF RefsIn
    <2>. QED  BY <1>1, <2>2, <2>3, <2>8, <2>9 DEF S
<1>. QED  BY <1>6, <1>7

\* Dropping references lends nothing, and lies on any stack.
LEMMA DropsOnTop ==
    ASSUME NEW B, NEW N, NEW u \in Seq(Drops(B)), NEW c, StackOK(c, B, N)
    PROVE  /\ StackOK(u \o c, B, N)
           /\ \A o, b, k : Lent(u \o c, o, b, k) <=> Lent(c, o, b, k)
<1> DEFINE S == Drops(B)
           T == {s \in Seq(S) : /\ StackOK(s \o c, B, N)
                                /\ \A o, b, k : Lent(s \o c, o, b, k) <=> Lent(c, o, b, k)}
<1>0. c \in Seq(Item(B, N)) /\ S \subseteq Item(B, N)
    BY DEF StackOK, Drops, Item
<1>1. <<>> \in T
    <2>1. <<>> \in Seq(S) /\ <<>> \o c = c
        BY <1>0
    <2>. QED  BY <2>1
<1>2. \A t \in S, s \in Seq(S) : s \in T => <<t>> \o s \in T
    <2> SUFFICES ASSUME NEW t \in S, NEW s \in Seq(S), s \in T PROVE <<t>> \o s \in T
        OBVIOUS
    <2> DEFINE x == s \o c
    <2>0. <<t>> \in Seq(S) /\ <<t>> \o s \in Seq(S)
        OBVIOUS
    <2>1. StackOK(x, B, N) /\ x \in Seq(Item(B, N)) /\ \A o, b, k : Lent(x, o, b, k) <=> Lent(c, o, b, k)
        BY DEF StackOK
    <2>2. (<<t>> \o s) \o c = <<t>> \o x
        <3> DEFINE I == Item(B, N)
        <3>1. <<t>> \in Seq(I) /\ s \in Seq(I) /\ c \in Seq(I)
            BY <1>0
        <3> HIDE DEF I
        <3>. QED  BY <3>1, ConcatAssociative
    <2>3. t \in Item(B, N) /\ t.kind = "unref"
        BY <1>0 DEF Drops
    <2> HIDE DEF x
    <2>4. StackOK(<<t>> \o x, B, N)
        BY <2>1, <2>3, Pushed DEF Stackable
    <2>5. \A o, b, k : Lent(<<t>> \o x, o, b, k) <=> Lent(x, o, b, k)
        <3> SUFFICES ASSUME NEW o, NEW b, NEW k PROVE Lent(<<t>> \o x, o, b, k) <=> Lent(x, o, b, k)
            OBVIOUS
        <3>1. ~ LendsOn(t, o)
            BY DropsHeld
        <3>. QED  BY <2>1, <2>3, <3>1, LentOnTop
    <2>. QED  BY <2>0, <2>1, <2>2, <2>4, <2>5
<1>3. u \in T
    <2> HIDE DEF T
    <2>. QED  BY <1>1, <1>2, OneAfterAnother
<1>. QED  BY <1>3

\* ... on top of a stack: it is well formed, holds those besides its own, and
\* nothing is lent by them.
LEMMA UnrefsOnTop ==
    ASSUME NEW B, Nil \notin B, NEW N, NEW vals \in Seq(Value(B)), NEW c, StackOK(c, B, N)
    PROVE  /\ StackOK(Unrefs(vals) \o c, B, N)
           /\ \A o : o # Nil => HeldIn(Unrefs(vals) \o c, o) = RefsIn(vals, o) + HeldIn(c, o)
           /\ \A o, b, k : Lent(Unrefs(vals) \o c, o, b, k) <=> Lent(c, o, b, k)
<1>1. Unrefs(vals) \in Seq(Drops(B))
    <2>1. 1 # Nil
        BY ObjectsAssumption
    <2>. QED  BY <2>1, UnrefsHold
<1>2. Drops(B) \subseteq Item(B, N) /\ c \in Seq(Item(B, N))
    BY DEF Drops, Item, StackOK
<1>3. ASSUME NEW o, o # Nil
      PROVE  HeldIn(Unrefs(vals) \o c, o) = RefsIn(vals, o) + HeldIn(c, o)
    <2> DEFINE I == Item(B, N)  u == Unrefs(vals)
    <2>1. HeldIn(u, o) = RefsIn(vals, o)
        BY <1>3, UnrefsHold
    <2>2. Counts(I, o)
        BY HeldType DEF Counts
    <2>3. u \in Seq(I) /\ c \in Seq(I)
        BY <1>1, <1>2
    <2> HIDE DEF I, u
    <2>4. HeldIn(u \o c, o) = HeldIn(u, o) + HeldIn(c, o)
        BY <2>2, <2>3, HeldByBoth
    <2>. QED  BY <2>1, <2>4 DEF u
<1>. QED  BY <1>1, <1>3, DropsOnTop

\* What is not in B is held by nothing that refers into B.
LEMMA NotHeld ==
    ASSUME NEW B, NEW N, NEW c \in Seq(Item(B, N)), NEW o, o \notin B, o # Nil
    PROVE  HeldIn(c, o) = 0 /\ \A b, k : Lent(c, o, b, k) <=> k = b
<1> DEFINE I == Item(B, N)
           T == {s \in Seq(I) : HeldIn(s, o) = 0 /\ \A b, k : Lent(s, o, b, k) <=> k = b}
<1>1. \A t \in I : Held(t, o) = 0 /\ ~ LendsOn(t, o)
    <2> SUFFICES ASSUME NEW t \in I PROVE Held(t, o) = 0 /\ ~ LendsOn(t, o)
        OBVIOUS
    <2>0. /\ t.kind \in {"frame", "store", "send", "restore", "unref", "free", "dispose"}
          /\ t.kind = "frame" => t.self \in B /\ t.vars \in [Vars -> Value(B)]
          /\ t.kind = "store" => t.val \in Value(B)
          /\ t.kind = "send" => t.obj \in B /\ t.args \in Seq(Value(B))
          /\ t.kind \in {"restore", "unref"} => t.obj \in B
        BY ItemFields, Zenon
    <2>v. \A v \in Value(B) : v.ref # o
        BY DEF Value
    <2> HIDE DEF I
    <2>1. CASE t.kind = "frame"
        <3>1. {v \in Vars : t.vars[v].ref = o} = {} /\ t.self # o
            BY <2>0, <2>1, <2>v
        <3>2. Held(t, o) = (IF t.self = o THEN 2 ELSE 0) + Cardinality({v \in Vars : t.vars[v].ref = o})
            BY <2>1 DEF Held
        <3>3. Cardinality({}) = 0
            BY FS_EmptySet
        <3>4. Held(t, o) = 0 + 0
            BY <3>1, <3>2, <3>3
        <3>5. ~ LendsOn(t, o)
            BY <2>1, <3>1 DEF LendsOn
        <3>. QED  BY <3>4, <3>5
    <2>2. CASE t.kind = "store"
        BY <2>0, <2>2, <2>v DEF Held, LendsOn
    <2>3. CASE t.kind = "send"
        <3>1. {i \in DOMAIN t.args : t.args[i].ref = o} = {} /\ t.obj # o
            BY <2>0, <2>3, <2>v
        <3>2. RefsIn(t.args, o) = 0
            BY <3>1, FS_EmptySet DEF RefsIn
        <3>. QED  BY <2>3, <3>1, <3>2 DEF Held, LendsOn
    <2>4. CASE t.kind \in {"restore", "unref"}
        BY <2>0, <2>4 DEF Held, LendsOn
    <2>5. CASE t.kind \in {"free", "dispose"}
        BY <2>5 DEF Held, LendsOn
    <2>. QED  BY <2>0, <2>1, <2>2, <2>3, <2>4, <2>5
<1>2. Counts(I, o)
    BY <1>1 DEF Counts
<1> HIDE DEF I
<1>3. <<>> \in T
    <2>1. <<>> \in Seq(I)
        OBVIOUS
    <2>2. HeldIn(<<>>, o) = 0
        BY <1>2, <2>1, HeldByNone
    <2>3. \A b, k : Lent(<<>>, o, b, k) <=> k = b
        BY LentByNone
    <2>. QED  BY <2>1, <2>2, <2>3
<1>4. \A t \in I, s \in Seq(I) : s \in T => <<t>> \o s \in T
    <2> SUFFICES ASSUME NEW t \in I, NEW s \in Seq(I), s \in T PROVE <<t>> \o s \in T
        OBVIOUS
    <2>1. <<t>> \o s \in Seq(I)
        OBVIOUS
    <2>2. HeldIn(<<t>> \o s, o) = 0
        <3>1. HeldIn(<<t>> \o s, o) = Held(t, o) + HeldIn(s, o)
            BY <1>2, HeldOnTop
        <3>. QED  BY <1>1, <3>1
    <2>3. ASSUME NEW b, NEW k PROVE Lent(<<t>> \o s, o, b, k) <=> k = b
        <3>1. Lent(<<t>> \o s, o, b, k) <=> Lent(s, o, b, k)
            BY <1>1, LentOnTop
        <3>. QED  BY <3>1
    <2> HIDE DEF I
    <2>. QED  BY <2>1, <2>2, <2>3
<1>5. c \in T
    <2>1. c \in Seq(I)
        BY DEF I
    <2> HIDE DEF T
    <2>. QED  BY <1>3, <1>4, <2>1, OneAfterAnother
<1>. QED  BY <1>5

\* An object more takes nothing away.
LEMMA MoreObjects ==
    ASSUME NEW B, NEW A, B \subseteq A, NEW N
    PROVE  /\ Value(B) \subseteq Value(A) /\ Item(B, N) \subseteq Item(A, N)
           /\ Instance(B, N) \subseteq Instance(A, N)
           /\ \A c : StackOK(c, B, N) => StackOK(c, A, N)
<1>1. Value(B) \subseteq Value(A)
    BY DEF Value
<1>2. Seq(Value(B)) \subseteq Seq(Value(A)) /\ [Vars -> Value(B)] \subseteq [Vars -> Value(A)]
    BY <1>1
<1>3. Item(B, N) \subseteq Item(A, N)
    BY <1>1, <1>2 DEF Item
<1>4. Attribute(B, N) \subseteq Attribute(A, N)
    BY <1>1 DEF Attribute
<1>5. Seq(Attribute(B, N)) \subseteq Seq(Attribute(A, N))
    BY <1>4
<1>6. Instance(B, N) \subseteq Instance(A, N)
    BY <1>5 DEF Instance
<1>7. Seq(Item(B, N)) \subseteq Seq(Item(A, N))
    BY <1>3
<1>. QED  BY <1>1, <1>3, <1>6, <1>7 DEF StackOK

-----------------------------------------------------------------------------
(* Attributes that refer to an object.                                      *)

\* An attribute that refers to an object.
LEMMA InCells ==
    ASSUME NEW h, NEW o
    PROVE  \A c : c \in CellsTo(h, o) <=>
               \E p \in Objects : \E i \in DOMAIN h[p].attrs :
                   c = <<p, i>> /\ h[p].attrs[i].val.ref = o
BY DEF CellsTo, Cells

\* The attributes that refer to an object can be counted.
LEMMA CellsFinite ==
    ASSUME NEW B, NEW N, NEW h \in [Objects -> Instance(B, N)], NEW o
    PROVE  IsFiniteSet(CellsTo(h, o)) /\ Cardinality(CellsTo(h, o)) \in Nat
<1> DEFINE D(p) == {p} \X (DOMAIN h[p].attrs)
           S == {D(p) : p \in Objects}
           f == [p \in Objects |-> D(p)]
<1>1. \A p \in Objects : IsFiniteSet(D(p))
    <2> SUFFICES ASSUME NEW p \in Objects PROVE IsFiniteSet(D(p))
        OBVIOUS
    <2>1. h[p].attrs \in Seq(Attribute(B, N))
        BY DEF Instance
    <2>2. DOMAIN h[p].attrs = 1 .. Len(h[p].attrs) /\ Len(h[p].attrs) \in Nat
        BY <2>1
    <2>3. IsFiniteSet(DOMAIN h[p].attrs)
        BY <2>2, FS_Interval
    <2>4. IsFiniteSet({p})
        BY FS_Singleton
    <2>. QED  BY <2>3, <2>4, FS_Product
<1>2. IsFiniteSet(S)
    <2> HIDE DEF D
    <2>1. f \in Surjection(Objects, S)
        BY DEF Surjection
    <2>. QED  BY <2>1, ObjectsAssumption, FS_Surjection
<1>3. IsFiniteSet(Cells(h))
    <2>1. \A T \in S : IsFiniteSet(T)
        BY <1>1
    <2>2. Cells(h) = UNION S
        BY DEF Cells
    <2> HIDE DEF S
    <2>. QED  BY <1>2, <2>1, <2>2, FS_UNION
<1>4. CellsTo(h, o) \in SUBSET Cells(h)
    BY DEF CellsTo
<1>5. IsFiniteSet(CellsTo(h, o))
    BY <1>3, <1>4, FS_Subset
<1>. QED  BY <1>5, FS_CardinalityType

\* Those of one object, and the others.
Others(h, x, o) == {c \in CellsTo(h, x) : c[1] # o}

\* They are those of one object and those of the others.
LEMMA CellsOfOne ==
    ASSUME NEW B, NEW N, NEW h \in [Objects -> Instance(B, N)], NEW o \in Objects, NEW x
    PROVE  /\ Cardinality(CellsTo(h, x)) = Cardinality(Others(h, x, o)) + RefsIn(Vals(h[o].attrs), x)
           /\ Cardinality(Others(h, x, o)) \in Nat /\ RefsIn(Vals(h[o].attrs), x) \in Nat
<1> DEFINE R == Others(h, x, o)
           attrs == h[o].attrs
           I == {i \in DOMAIN attrs : attrs[i].val.ref = x}
           Mine == {<<o, i>> : i \in I}
           f == [i \in I |-> <<o, i>>]
<1>1. IsFiniteSet(CellsTo(h, x)) /\ R \in SUBSET CellsTo(h, x)
    BY CellsFinite DEF Others
<1>2. IsFiniteSet(R) /\ Cardinality(R) \in Nat
    BY <1>1, FS_Subset, FS_CardinalityType
<1>3. attrs \in Seq(Attribute(B, N))
    BY DEF Instance
<1>4. IsFiniteSet(I)
    <2>1. DOMAIN attrs = 1 .. Len(attrs) /\ Len(attrs) \in Nat
        BY <1>3
    <2>2. IsFiniteSet(DOMAIN attrs)
        BY <2>1, FS_Interval
    <2>. QED  BY <2>2, FS_Subset
<1>5. RefsIn(Vals(attrs), x) = Cardinality(I)
    <2>1. {i \in DOMAIN Vals(attrs) : Vals(attrs)[i].ref = x} = I
        BY DEF Vals
    <2>. QED  BY <2>1 DEF RefsIn
<1>6. IsFiniteSet(Mine) /\ Cardinality(Mine) = Cardinality(I)
    <2>1. f \in [I -> Mine] /\ \A y \in Mine : \E i \in I : f[i] = y
        OBVIOUS
    <2>2. \A i, j \in I : f[i] = f[j] => i = j
        OBVIOUS
    <2> HIDE DEF f, I, Mine
    <2>3. IsInjective(f)
        BY <2>1, <2>2 DEF IsInjective
    <2>4. f \in Bijection(I, Mine)
        BY <2>1, <2>3 DEF Bijection, Injection, Surjection
    <2>. QED  BY <1>4, <2>4, FS_Bijection DEF ExistsBijection
<1>7. CellsTo(h, x) = R \cup Mine /\ R \cap Mine = {}
    <2>1. \A c : c \in CellsTo(h, x) <=> c \in R \/ c \in Mine
        BY InCells DEF Others
    <2>2. \A c \in R : c \notin Mine
        BY DEF Others
    <2> HIDE DEF R, Mine
    <2>. QED  BY <2>1, <2>2
<1> HIDE DEF R, Mine, I
<1>8. Cardinality(R \cup Mine) = Cardinality(R) + Cardinality(Mine) - Cardinality(R \cap Mine)
    BY <1>2, <1>6, FS_Union
<1>9. Cardinality({}) = 0 /\ Cardinality(I) \in Nat
    BY <1>4, FS_EmptySet, FS_CardinalityType
<1>10. Cardinality(R \cap Mine) = 0
    BY <1>7, <1>9
<1>11. Cardinality(CellsTo(h, x)) = Cardinality(R) + Cardinality(Mine)
    BY <1>2, <1>6, <1>7, <1>8, <1>9, <1>10
<1>. QED  BY <1>2, <1>5, <1>6, <1>9, <1>11 DEF R

\* When the attributes of one object change.
LEMMA CellsChanged ==
    ASSUME NEW B, NEW N, NEW h \in [Objects -> Instance(B, N)],
           NEW A, NEW M, NEW g \in [Objects -> Instance(A, M)], NEW o \in Objects, NEW x,
           \A p \in Objects : p # o => g[p].attrs = h[p].attrs
    PROVE  /\ Cardinality(CellsTo(g, x)) + RefsIn(Vals(h[o].attrs), x)
                  = Cardinality(CellsTo(h, x)) + RefsIn(Vals(g[o].attrs), x)
           /\ Cardinality(CellsTo(g, x)) \in Nat /\ Cardinality(CellsTo(h, x)) \in Nat
<1>1. Others(g, x, o) = Others(h, x, o)
    <2>1. \A c : c \in Others(g, x, o) <=> c \in Others(h, x, o)
        BY InCells DEF Others
    <2>. QED  BY <2>1
<1>2. /\ Cardinality(CellsTo(h, x)) = Cardinality(Others(h, x, o)) + RefsIn(Vals(h[o].attrs), x)
      /\ Cardinality(Others(h, x, o)) \in Nat /\ RefsIn(Vals(h[o].attrs), x) \in Nat
    BY CellsOfOne
<1>3. /\ Cardinality(CellsTo(g, x)) = Cardinality(Others(g, x, o)) + RefsIn(Vals(g[o].attrs), x)
      /\ RefsIn(Vals(g[o].attrs), x) \in Nat
    BY CellsOfOne
<1>. QED  BY <1>1, <1>2, <1>3

\* Objects with the same attributes refer to the same objects.
LEMMA SameCells ==
    ASSUME NEW h, NEW g, NEW x, \A p \in Objects : g[p].attrs = h[p].attrs
    PROVE  CellsTo(g, x) = CellsTo(h, x)
<1>1. \A c : c \in CellsTo(g, x) <=> c \in CellsTo(h, x)
    BY InCells
<1>. QED  BY <1>1

\* Nothing refers to an object that was not made.
LEMMA NoCells ==
    ASSUME NEW B, NEW N, NEW h \in [Objects -> Instance(B, N)], NEW o, o \notin B, o # Nil
    PROVE  CellsTo(h, o) = {} /\ Cardinality(CellsTo(h, o)) = 0
<1>1. \A p \in Objects : \A i \in DOMAIN h[p].attrs : h[p].attrs[i].val.ref # o
    <2> SUFFICES ASSUME NEW p \in Objects, NEW i \in DOMAIN h[p].attrs
                 PROVE  h[p].attrs[i].val.ref # o
        OBVIOUS
    <2> DEFINE T == Attribute(B, N)
    <2>1. h[p].attrs \in Seq(T)
        BY DEF Instance
    <2> HIDE DEF T
    <2>2. h[p].attrs[i] \in T
        BY <2>1
    <2>. QED  BY <2>2 DEF T, Attribute, Value
<1>2. \A c : c \notin CellsTo(h, o)
    BY <1>1, InCells
<1>. QED  BY <1>2, FS_EmptySet

-----------------------------------------------------------------------------
(* The invariant of the objects and the control stack.                      *)

BornIn(h) == {o \in Objects : h[o].state # "unborn"}

Balanced(h, c, o) ==
    /\ h[o].iRef = HeldIn(c, o) + Cardinality(CellsTo(h, o))
    /\ Lent(c, o, h[o].born, h[o].cls)

Sound(h, c, N) ==
    /\ HeapOK(h, BornIn(h), N)
    /\ StackOK(c, BornIn(h), N)
    /\ \A o \in Objects : h[o].state = "live" => Balanced(h, c, o)

\* An object that was made is one of the objects, and not null.
LEMMA BornFacts ==
    ASSUME NEW h
    PROVE  /\ BornIn(h) \subseteq Objects /\ Nil \notin BornIn(h)
           /\ \A o \in Objects : o # Nil /\ (h[o].state = "live" => o \in BornIn(h))
BY ObjectsAssumption DEF BornIn

\* The parts of an instance.
LEMMA InstanceFields ==
    ASSUME NEW B, NEW N, NEW h, HeapOK(h, B, N), NEW o \in Objects
    PROVE  /\ h \in [Objects -> Instance(B, N)] /\ DOMAIN h = Objects
           /\ h[o] \in Instance(B, N) /\ h[o].iRef \in Int
           /\ h[o].attrs \in Seq(Attribute(B, N)) /\ Vals(h[o].attrs) \in Seq(Value(B))
           /\ o \in B => h[o].cls \in N /\ h[o].born \in N
           /\ o \notin B => h[o].attrs = <<>>
           /\ h[o].state \in {"unborn", "live", "destroyed", "freed"}
<1>1. h \in [Objects -> Instance(B, N)]
    BY DEF HeapOK
<1>2. h[o] \in Instance(B, N)
    BY <1>1
<1>3. h[o].attrs \in Seq(Attribute(B, N)) /\ h[o].iRef \in Int
      /\ h[o].state \in {"unborn", "live", "destroyed", "freed"}
    BY <1>2 DEF Instance
<1>4. Vals(h[o].attrs) \in Seq(Value(B))
    <2> DEFINE a == h[o].attrs  T == Attribute(B, N)  V == Value(B)
    <2>0. a \in Seq(T) /\ \A x \in T : x.val \in V
        BY <1>3 DEF Attribute
    <2>1. Vals(a) = [i \in DOMAIN a |-> a[i].val]
        BY DEF Vals
    <2> HIDE DEF a, T, V
    <2>2. DOMAIN a = 1 .. Len(a) /\ Len(a) \in Nat /\ \A i \in 1 .. Len(a) : a[i] \in T
        BY <2>0
    <2>3. Vals(a) \in [1 .. Len(a) -> V]
        BY <2>0, <2>1, <2>2
    <2>. QED  BY <2>2, <2>3 DEF a, V
<1>. QED  BY <1>1, <1>2, <1>3, <1>4 DEF HeapOK

\* Only counts differ.
WithCounts(h, r) == [o \in Objects |-> [h[o] EXCEPT !.iRef = r[o]]]

\* Counts changed and nothing else leave the heap well formed.
LEMMA CountsOnly ==
    ASSUME NEW B, NEW N, NEW h, HeapOK(h, B, N), NEW r, \A o \in Objects : r[o] \in Int,
           NEW g, g = WithCounts(h, r)
    PROVE  /\ HeapOK(g, B, N) /\ BornIn(g) = BornIn(h)
           /\ \A o \in Objects : /\ g[o].cls = h[o].cls /\ g[o].born = h[o].born
                                 /\ g[o].attrs = h[o].attrs /\ g[o].state = h[o].state
                                 /\ g[o].iRef = r[o]
<1>1. \A o \in Objects : h[o] \in Instance(B, N)
    BY DEF HeapOK
<1>2. \A o \in Objects : /\ g[o] \in Instance(B, N)
                         /\ g[o].cls = h[o].cls /\ g[o].born = h[o].born
                         /\ g[o].attrs = h[o].attrs /\ g[o].state = h[o].state
                         /\ g[o].iRef = r[o]
    <2> SUFFICES ASSUME NEW o \in Objects
                 PROVE  /\ g[o] \in Instance(B, N)
                        /\ g[o].cls = h[o].cls /\ g[o].born = h[o].born
                        /\ g[o].attrs = h[o].attrs /\ g[o].state = h[o].state
                        /\ g[o].iRef = r[o]
        OBVIOUS
    <2>1. g[o] = [h[o] EXCEPT !.iRef = r[o]]
        BY DEF WithCounts
    <2>2. h[o] \in Instance(B, N) /\ r[o] \in Int
        BY <1>1
    <2>. QED  BY <2>1, <2>2 DEF Instance
<1>3. g \in [Objects -> Instance(B, N)]
    BY <1>2 DEF WithCounts
<1>. QED  BY <1>2, <1>3 DEF HeapOK, BornIn

\* References added change the counts, by as many as there are values.
LEMMA AddedRefs ==
    ASSUME NEW B, NEW N, NEW h, HeapOK(h, B, N), NEW V, NEW vals \in Seq(V)
    PROVE  /\ HeapOK(AddRefs(h, vals), B, N) /\ BornIn(AddRefs(h, vals)) = BornIn(h)
           /\ \A o \in Objects :
                 LET g == AddRefs(h, vals)
                 IN  /\ g[o].cls = h[o].cls /\ g[o].born = h[o].born
                     /\ g[o].attrs = h[o].attrs /\ g[o].state = h[o].state
                     /\ g[o].iRef = h[o].iRef + RefsIn(vals, o)
<1> DEFINE r == [o \in Objects |-> h[o].iRef + RefsIn(vals, o)]
           g == AddRefs(h, vals)
<1>1. \A o \in Objects : h[o] \in Instance(B, N) /\ h[o].iRef \in Int /\ RefsIn(vals, o) \in Nat
    BY InstanceFields, RefsFinite
<1>2. \A o \in Objects : r[o] = h[o].iRef + RefsIn(vals, o) /\ r[o] \in Int
    BY <1>1
<1>3. g = WithCounts(h, r)
    BY <1>1 DEF AddRefs, Instance, WithCounts
<1> HIDE DEF r, g
<1>4. /\ HeapOK(g, B, N) /\ BornIn(g) = BornIn(h)
      /\ \A o \in Objects : /\ g[o].cls = h[o].cls /\ g[o].born = h[o].born
                            /\ g[o].attrs = h[o].attrs /\ g[o].state = h[o].state
                            /\ g[o].iRef = r[o]
    BY <1>2, <1>3, CountsOnly
<1>. QED  BY <1>2, <1>4 DEF g

\* A non-lending item on top and the references it holds counted.
LEMMA Counted ==
    ASSUME NEW h, NEW c, NEW N, Sound(h, c, N), NEW t \in Item(BornIn(h), N), Stackable(t, c),
           t.kind \notin {"frame", "restore"}, NEW vals \in Seq(Value(BornIn(h))),
           \A x \in Objects : Held(t, x) = RefsIn(vals, x)
    PROVE  Sound(AddRefs(h, vals), <<t>> \o c, N)
<1> DEFINE B == BornIn(h)
           g == AddRefs(h, vals)
           d == <<t>> \o c
<1>1. HeapOK(h, B, N) /\ StackOK(c, B, N) /\ c \in Seq(Item(B, N)) /\ t \in Item(B, N)
    BY DEF Sound, StackOK
<1>2. /\ HeapOK(g, B, N) /\ BornIn(g) = B
      /\ \A o \in Objects : /\ g[o].cls = h[o].cls /\ g[o].born = h[o].born
                            /\ g[o].attrs = h[o].attrs /\ g[o].state = h[o].state
                            /\ g[o].iRef = h[o].iRef + RefsIn(vals, o)
    BY <1>1, AddedRefs
<1>3. StackOK(d, B, N)
    BY <1>1, Pushed
<1>4. \A x : Counts(Item(B, N), x) /\ ~ LendsOn(t, x)
    BY HeldType DEF Counts, LendsOn
<1> HIDE DEF B, g, d
<1>5. ASSUME NEW x \in Objects, g[x].state = "live" PROVE Balanced(g, d, x)
    <2>1. h[x].iRef = HeldIn(c, x) + Cardinality(CellsTo(h, x)) /\ Lent(c, x, h[x].born, h[x].cls)
        BY <1>2, <1>5 DEF Sound, Balanced
    <2>2. HeldIn(d, x) = Held(t, x) + HeldIn(c, x) /\ HeldIn(c, x) \in Nat
        BY <1>1, <1>4, HeldOnTop DEF d
    <2>3. CellsTo(g, x) = CellsTo(h, x)
        BY <1>2, SameCells
    <2>4. Cardinality(CellsTo(h, x)) \in Nat
        BY <1>1, CellsFinite DEF HeapOK
    <2>5. Lent(d, x, h[x].born, h[x].cls)
        BY <1>1, <1>4, <2>1, LentOnTop DEF d
    <2>6. RefsIn(vals, x) \in Nat
        BY RefsFinite
    <2>7. g[x].iRef = HeldIn(d, x) + Cardinality(CellsTo(g, x))
        BY <1>2, <2>1, <2>2, <2>3, <2>4, <2>6
    <2>. QED  BY <1>2, <2>5, <2>7 DEF Balanced
<1>. QED  BY <1>2, <1>3, <1>5 DEF Sound, g, d

-----------------------------------------------------------------------------
(* Items put on the stack.                                                  *)

\* The items the actions put on the stack are items.
LEMMA ItemsMade ==
    ASSUME NEW B, NEW N
    PROVE  /\ \A v \in Vars, val \in Value(B) : StoreItem(v, val) \in Item(B, N)
           /\ \A o \in B, mark \in Marks, name \in STRING, args \in Seq(Value(B)) :
                  SendItem(o, mark, name, args) \in Item(B, N)
           /\ \A o \in B : /\ Unref(o) \in Item(B, N) /\ Free(o) \in Item(B, N)
                           /\ Dispose(o) \in Item(B, N)
           /\ \A o \in B, back \in N : Restore(o, back) \in Item(B, N)
<1>1. \A v \in Vars, val \in Value(B) : StoreItem(v, val) \in Item(B, N)
    BY DEF StoreItem, Item
<1>2. \A o \in B, mark \in Marks, name \in STRING, args \in Seq(Value(B)) :
          SendItem(o, mark, name, args) \in Item(B, N)
    <2> SUFFICES ASSUME NEW o \in B, NEW mark \in Marks, NEW name \in STRING,
                        NEW args \in Seq(Value(B))
                 PROVE  SendItem(o, mark, name, args) \in Item(B, N)
        OBVIOUS
    <2>1. SendItem(o, mark, name, args)
              \in [kind : {"send"}, obj : B, mark : Marks, name : STRING, args : Seq(Value(B))]
        BY DEF SendItem
    <2>. QED  BY <2>1 DEF Item
<1>3. \A o \in B : /\ Unref(o) \in Item(B, N) /\ Free(o) \in Item(B, N)
                   /\ Dispose(o) \in Item(B, N)
    BY DEF Unref, Free, Dispose, Item
<1>4. \A o \in B, back \in N : Restore(o, back) \in Item(B, N)
    BY DEF Restore, Item
<1>. QED  BY <1>1, <1>2, <1>3, <1>4

\* What a new item holds.
LEMMA ItemsHold ==
    ASSUME NEW x
    PROVE  /\ \A v, val : Held(StoreItem(v, val), x) = To(val, x)
           /\ \A o, mark, name, args :
                  Held(SendItem(o, mark, name, args), x) = (IF o = x THEN 1 ELSE 0) + RefsIn(args, x)
           /\ \A o : Held(Unref(o), x) = IF o = x THEN 1 ELSE 0
           /\ \A o : Held(Free(o), x) = 0 /\ Held(Dispose(o), x) = 0
           /\ \A o, back : Held(Restore(o, back), x) = 0
BY DEF Held, StoreItem, SendItem, Unref, Free, Dispose, Restore, To

\* Null refers to nothing, a reference to its object.
LEMMA NullIn ==
    ASSUME NEW B
    PROVE  /\ Null \in Value(B) /\ \A o \in Objects : To(Null, o) = 0
           /\ \A o \in B, mark \in Marks : Reference(o, mark) \in Value(B)
           /\ \A o, mark, x : To(Reference(o, mark), x) = IF o = x THEN 1 ELSE 0
BY ObjectsAssumption DEF Null, Value, To, Reference, Marks

\* A sequence of at most one.
LEMMA UpToOne ==
    ASSUME NEW V, NEW s \in Seq(V), Len(s) <= 1
    PROVE  s = <<>> \/ (s[1] \in V /\ s = <<s[1]>>)
<1> DEFINE n == Len(s)
<1>1. n \in Nat /\ n <= 1 /\ DOMAIN s = 1 .. n /\ \A i \in 1 .. n : s[i] \in V
    OBVIOUS
<1>2. n = 0 => s = <<>>
    OBVIOUS
<1> HIDE DEF n
<1>3. n = 0 \/ n = 1
    BY <1>1
<1>4. CASE n = 1
    <2>1. s[1] \in V
        BY <1>1, <1>4
    <2>2. <<s[1]>> \in Seq(V) /\ Len(<<s[1]>>) = 1 /\ <<s[1]>>[1] = s[1]
        BY <2>1
    <2>3. \A i \in 1 .. Len(s) : s[i] = <<s[1]>>[i]
        BY <1>4, <2>2 DEF n
    <2>4. s = <<s[1]>>
        BY <1>4, <2>2, <2>3, SeqEqual DEF n
    <2>. QED  BY <2>1, <2>4
<1>. QED  BY <1>2, <1>3, <1>4

\* The variables of a method that starts with one argument.
Given(a) == [v \in Vars |-> IF v = "x" THEN a ELSE Null]

\* Of the variables of a new frame only the argument refers to anything.
LEMMA GivenHolds ==
    ASSUME NEW a, NEW x \in Objects
    PROVE  VarsTo(Given(a), x) = To(a, x)
<1> DEFINE P == {v \in Vars : Given(a)[v].ref = x}
<1>1. P = IF a.ref = x THEN {"x"} ELSE {}
    BY ObjectsAssumption DEF Given, Null
<1> HIDE DEF P
<1>2. Cardinality(P) = IF a.ref = x THEN 1 ELSE 0
    BY <1>1, FS_EmptySet, FS_Singleton
<1>. QED  BY <1>2 DEF VarsTo, To, P

\* The frame of a method that starts.
FrameItem(h, o, method, args) ==
    [kind |-> "frame", self |-> o, back |-> h[o].cls, method |-> method.name,
     cls |-> method.cls,
     vars |-> [v \in Vars |-> IF v = "x" /\ args # <<>> THEN args[1] ELSE Null]]

FrameHolds(o, args, x) == (IF o = x THEN 2 ELSE 0) + RefsIn(args, x)

HoldsFrame(f, o, args) == \A x \in Objects : Held(f, x) = FrameHolds(o, args, x)

\* The frame of a call is an item: it holds two references to its object and
\* those of its argument.
LEMMA FrameMade ==
    ASSUME NEW B, NEW N, NEW h, NEW o \in B, h[o].cls \in N, NEW method \in MethodInfo(N),
           NEW args \in Seq(Value(B)), Len(args) <= 1
    PROVE  /\ FrameItem(h, o, method, args) \in Item(B, N)
           /\ HoldsFrame(FrameItem(h, o, method, args), o, args)
<1> DEFINE f == FrameItem(h, o, method, args)
           w == [v \in Vars |-> IF v = "x" /\ args # <<>> THEN args[1] ELSE Null]
           e == [v \in Vars |-> Null]
<1>1. Null \in Value(B) /\ \A x \in Objects : To(Null, x) = 0
    BY NullIn
<1>2. args = <<>> \/ (args = <<args[1]>> /\ args[1] \in Value(B))
    BY UpToOne
<1>3. w \in [Vars -> Value(B)] /\ e \in [Vars -> Value(B)]
    BY <1>1, <1>2
<1>4. f \in Item(B, N)
    <2>1. method.name \in STRING /\ method.cls \in N
        BY DEF MethodInfo
    <2> HIDE DEF w
    <2>2. f = [kind |-> "frame", self |-> o, back |-> h[o].cls, method |-> method.name,
               cls |-> method.cls, vars |-> w]
        BY DEF FrameItem, w
    <2> HIDE DEF f
    <2>. QED  BY <1>3, <2>1, <2>2 DEF Item
<1>5. ASSUME NEW x \in Objects
      PROVE  Held(f, x) = FrameHolds(o, args, x)
    <2>1. Held(f, x) = (IF o = x THEN 2 ELSE 0) + VarsTo(w, x)
        BY DEF Held, VarsTo, FrameItem
    <2>2. {v \in Vars : e[v].ref = x} = {}
        BY ObjectsAssumption DEF Null
    <2>3. VarsTo(e, x) = 0
        BY <2>2, FS_EmptySet DEF VarsTo
    <2>4. VarsTo(w, x) = RefsIn(args, x)
        <3>1. CASE args = <<>>
            <4>1. w = e
                BY <3>1
            <4>. QED  BY <2>3, <3>1, <4>1, RefsInNone
        <3>2. CASE args # <<>>
            <4>1. w = Given(args[1])
                BY <3>2 DEF Given
            <4>2. RefsIn(args, x) = To(args[1], x)
                BY <1>2, <3>2, RefsInOne
            <4> HIDE DEF w
            <4>3. VarsTo(Given(args[1]), x) = To(args[1], x)
                BY GivenHolds
            <4>. QED  BY <4>1, <4>2, <4>3
        <3>. QED  BY <3>1, <3>2
    <2>. QED  BY <2>1, <2>4 DEF FrameHolds
<1> HIDE DEF f
<1>. QED  BY <1>4, <1>5 DEF f, HoldsFrame

\* ... on a stack.
FramedBy(d, c, B, N, o, args, cls, back) ==
    /\ StackOK(d, B, N)
    /\ \A x \in Objects : HeldIn(d, x) = FrameHolds(o, args, x) + HeldIn(c, x)
    /\ \A x, b, k : Lent(d, x, b, k) <=> IF x = o THEN k = cls /\ Lent(c, x, b, back)
                                         ELSE Lent(c, x, b, k)

\* ... on top of a stack.
LEMMA FrameOnTop ==
    ASSUME NEW B, NEW N, NEW h, NEW o \in B, h[o].cls \in N, NEW method \in MethodInfo(N),
           NEW args \in Seq(Value(B)), Len(args) <= 1, NEW c, StackOK(c, B, N)
    PROVE  FramedBy(Frame(h, o, method, args) \o c, c, B, N, o, args, method.cls, h[o].cls)
<1> DEFINE f == FrameItem(h, o, method, args)
           I == Item(B, N)
           d == Frame(h, o, method, args) \o c
<1>1. f \in I /\ HoldsFrame(f, o, args)
    BY FrameMade
<1>h. \A x \in Objects : Held(f, x) = FrameHolds(o, args, x)
    BY <1>1 DEF HoldsFrame
<1>2. d = <<f>> \o c
    BY DEF Frame, FrameItem
<1>3. f.kind = "frame" /\ f.self = o /\ f.cls = method.cls /\ f.back = h[o].cls
    BY DEF FrameItem
<1> HIDE DEF f, d
<1>4. StackOK(d, B, N)
    BY <1>1, <1>2, <1>3, Pushed DEF Stackable
<1>5. c \in Seq(I) /\ \A x : Counts(I, x)
    BY HeldType DEF StackOK, Counts
<1> HIDE DEF I
<1>6. \A x : HeldIn(<<f>> \o c, x) = Held(f, x) + HeldIn(c, x)
    BY <1>1, <1>5, HeldOnTop
<1>7. \A x : LendsOn(f, x) <=> x = o
    BY <1>3 DEF LendsOn
<1>8. \A x, b, k : Lent(d, x, b, k) <=> IF x = o THEN k = method.cls /\ Lent(c, x, b, h[o].cls)
                                        ELSE Lent(c, x, b, k)
    <2> SUFFICES ASSUME NEW x, NEW b, NEW k
                 PROVE  Lent(d, x, b, k) <=> IF x = o THEN k = method.cls /\ Lent(c, x, b, h[o].cls)
                                             ELSE Lent(c, x, b, k)
        OBVIOUS
    <2>1. CASE x = o
        <3>1. LendsOn(f, x)
            BY <1>7, <2>1
        <3>2. Lent(<<f>> \o c, x, b, k) <=> (f.kind = "frame" => k = f.cls) /\ Lent(c, x, b, f.back)
            BY <1>1, <1>5, <3>1, LentOnTop
        <3>. QED  BY <1>2, <1>3, <2>1, <3>2
    <2>2. CASE x # o
        <3>1. ~ LendsOn(f, x)
            BY <1>7, <2>2
        <3>2. Lent(<<f>> \o c, x, b, k) <=> Lent(c, x, b, k)
            BY <1>1, <1>5, <3>1, LentOnTop
        <3>. QED  BY <1>2, <2>2, <3>2
    <2>. QED  BY <2>1, <2>2
<1>9. FramedBy(d, c, B, N, o, args, method.cls, h[o].cls)
    BY <1>h, <1>2, <1>4, <1>6, <1>8 DEF FramedBy
<1>. QED  BY <1>9 DEF d

\* A variable of the innermost frame replaced.
WithVar(f, v, val) == [f EXCEPT !.vars[v] = val]

\* A variable of the top frame assigned: the stack loses the reference of the
\* old value, gains that of the new one, and lends what it lent.
LEMMA FrameChanged ==
    ASSUME NEW B, NEW N, NEW f \in Item(B, N), f.kind = "frame", NEW r, StackOK(r, B, N),
           NEW v \in Vars, NEW val \in Value(B), NEW e, e = WithVar(f, v, val)
    PROVE  /\ StackOK(<<e>> \o r, B, N) /\ f.vars[v] \in Value(B)
           /\ \A x : HeldIn(<<e>> \o r, x) + To(f.vars[v], x) = HeldIn(<<f>> \o r, x) + To(val, x)
           /\ \A x : HeldIn(<<e>> \o r, x) \in Nat /\ HeldIn(<<f>> \o r, x) \in Nat
           /\ \A x, b, k : Lent(<<e>> \o r, x, b, k) <=> Lent(<<f>> \o r, x, b, k)
<1> DEFINE I == Item(B, N)
           w == Put(f.vars, v, val)
<1>1. f \in [kind : {"frame"}, self : B, back : N, method : STRING, cls : N,
             vars : [Vars -> Value(B)]]
    BY DEF Item
<1>2. /\ e.kind = "frame" /\ e.self = f.self /\ e.back = f.back /\ e.cls = f.cls
      /\ e.vars = w /\ f.vars \in [Vars -> Value(B)] /\ w \in [Vars -> Value(B)]
      /\ f.vars[v] \in Value(B)
    BY <1>1 DEF WithVar, Put
<1>3. e \in I
    <2>1. e \in [kind : {"frame"}, self : B, back : N, method : STRING, cls : N,
                 vars : [Vars -> Value(B)]]
        BY <1>1, <1>2 DEF WithVar, Put
    <2>. QED  BY <2>1 DEF Item
<1>4. StackOK(<<e>> \o r, B, N)
    BY <1>2, <1>3, Pushed DEF Stackable
<1>5. r \in Seq(I) /\ f \in I /\ \A x : Counts(I, x)
    BY HeldType DEF StackOK, Counts
<1> HIDE DEF I, w
<1>6. \A x : /\ HeldIn(<<e>> \o r, x) = Held(e, x) + HeldIn(r, x)
             /\ HeldIn(<<f>> \o r, x) = Held(f, x) + HeldIn(r, x)
             /\ HeldIn(r, x) \in Nat /\ Held(e, x) \in Nat /\ Held(f, x) \in Nat
    <2> SUFFICES ASSUME NEW x
                 PROVE  /\ HeldIn(<<e>> \o r, x) = Held(e, x) + HeldIn(r, x)
                        /\ HeldIn(<<f>> \o r, x) = Held(f, x) + HeldIn(r, x)
                        /\ HeldIn(r, x) \in Nat /\ Held(e, x) \in Nat /\ Held(f, x) \in Nat
        OBVIOUS
    <2>1. HeldIn(<<e>> \o r, x) = Held(e, x) + HeldIn(r, x) /\ HeldIn(r, x) \in Nat
        BY <1>3, <1>5, HeldOnTop
    <2>2. HeldIn(<<f>> \o r, x) = Held(f, x) + HeldIn(r, x)
        BY <1>5, HeldOnTop
    <2>. QED  BY <1>3, <1>5, <2>1, <2>2 DEF Counts
<1>7. ASSUME NEW x PROVE Held(e, x) + To(f.vars[v], x) = Held(f, x) + To(val, x)
    <2>0. f.vars \in [Vars -> Value(B)]
        BY <1>2
    <2> DEFINE z == f.vars
    <2>a. z \in [Vars -> Value(B)] /\ w = Put(z, v, val)
        BY <2>0 DEF w
    <2> HIDE DEF z
    <2>b. VarsTo(z, x) + To(val, x) = VarsTo(w, x) + To(z[v], x)
        BY <2>a, VarReplaced
    <2>1. VarsTo(f.vars, x) + To(val, x) = VarsTo(w, x) + To(f.vars[v], x)
        BY <2>b DEF z
    <2>2. /\ Held(e, x) = (IF f.self = x THEN 2 ELSE 0) + VarsTo(w, x)
          /\ Held(f, x) = (IF f.self = x THEN 2 ELSE 0) + VarsTo(f.vars, x)
        BY <1>2 DEF Held, VarsTo
    <2>3. VarsTo(f.vars, x) \in Nat /\ VarsTo(w, x) \in Nat /\ To(val, x) \in Nat /\ To(f.vars[v], x) \in Nat
        BY VarsFinite DEF To
    <2>. QED  BY <2>1, <2>2, <2>3
<1>8. \A x, b, k : Lent(<<e>> \o r, x, b, k) <=> Lent(<<f>> \o r, x, b, k)
    <2> SUFFICES ASSUME NEW x, NEW b, NEW k
                 PROVE  Lent(<<e>> \o r, x, b, k) <=> Lent(<<f>> \o r, x, b, k)
        OBVIOUS
    <2>1. LendsOn(e, x) <=> LendsOn(f, x)
        BY <1>2 DEF LendsOn
    <2>2. CASE LendsOn(f, x)
        <3>0. LendsOn(e, x)
            BY <2>1, <2>2
        <3>1. Lent(<<e>> \o r, x, b, k) <=> (e.kind = "frame" => k = e.cls) /\ Lent(r, x, b, e.back)
            BY <1>3, <1>5, <3>0, LentOnTop
        <3>2. Lent(<<f>> \o r, x, b, k) <=> (f.kind = "frame" => k = f.cls) /\ Lent(r, x, b, f.back)
            BY <1>5, <2>2, LentOnTop
        <3>. QED  BY <1>2, <3>1, <3>2
    <2>3. CASE ~ LendsOn(f, x)
        <3>1. Lent(<<e>> \o r, x, b, k) <=> Lent(r, x, b, k)
            BY <1>3, <1>5, <2>1, <2>3, LentOnTop
        <3>2. Lent(<<f>> \o r, x, b, k) <=> Lent(r, x, b, k)
            BY <1>5, <2>3, LentOnTop
        <3>. QED  BY <3>1, <3>2
    <2>. QED  BY <2>2, <2>3
<1>9. \A x : /\ HeldIn(<<e>> \o r, x) + To(f.vars[v], x) = HeldIn(<<f>> \o r, x) + To(val, x)
             /\ HeldIn(<<e>> \o r, x) \in Nat /\ HeldIn(<<f>> \o r, x) \in Nat
    <2> SUFFICES ASSUME NEW x
                 PROVE  /\ HeldIn(<<e>> \o r, x) + To(f.vars[v], x) = HeldIn(<<f>> \o r, x) + To(val, x)
                        /\ HeldIn(<<e>> \o r, x) \in Nat /\ HeldIn(<<f>> \o r, x) \in Nat
        OBVIOUS
    <2>1. To(f.vars[v], x) \in Nat /\ To(val, x) \in Nat
        BY DEF To
    <2>. QED  BY <1>6, <1>7, <2>1
<1>. QED  BY <1>2, <1>4, <1>8, <1>9

-----------------------------------------------------------------------------
(* Steps that keep the invariant.                                           *)

\* Two items put on top are put one after the other.
LEMMA TwoOnTop ==
    ASSUME NEW S, NEW p \in S, NEW q \in S, NEW s \in Seq(S)
    PROVE  <<p, q>> \o s = <<p>> \o (<<q>> \o s) /\ <<q>> \o s \in Seq(S)
<1>1. <<p>> \in Seq(S) /\ <<q>> \in Seq(S) /\ <<p, q>> \in Seq(S) /\ <<p>> \o <<q>> \in Seq(S)
      /\ <<q>> \o s \in Seq(S)
    OBVIOUS
<1>2. <<p, q>> = <<p>> \o <<q>>
    <2>1. Len(<<p, q>>) = 2 /\ Len(<<p>> \o <<q>>) = 2
        BY <1>1
    <2>2. \A i \in 1 .. 2 : <<p, q>>[i] = (<<p>> \o <<q>>)[i]
        <3>1. (<<p>> \o <<q>>)[1] = p
            BY <1>1
        <3>2. (<<p>> \o <<q>>)[2] = q
            BY <1>1
        <3>. QED  BY <3>1, <3>2
    <2>. QED  BY <1>1, <2>1, <2>2, SeqEqual
<1>3. (<<p>> \o <<q>>) \o s = <<p>> \o (<<q>> \o s)
    BY <1>1, ConcatAssociative
<1>. QED  BY <1>1, <1>2, <1>3

\* What a sound state says of a live object.
LEMMA SoundFacts ==
    ASSUME NEW h, NEW c, NEW N, Sound(h, c, N), NEW x \in Objects
    PROVE  /\ HeldIn(c, x) \in Nat /\ Cardinality(CellsTo(h, x)) \in Nat
           /\ h[x].state = "live" => /\ h[x].iRef = HeldIn(c, x) + Cardinality(CellsTo(h, x))
                                     /\ Lent(c, x, h[x].born, h[x].cls)
<1> DEFINE B == BornIn(h)
           I == Item(B, N)
<1>1. c \in Seq(I) /\ Counts(I, x)
    BY HeldType DEF Sound, StackOK, Counts
<1>2. h \in [Objects -> Instance(B, N)]
    BY DEF Sound, HeapOK
<1> HIDE DEF B, I
<1>3. HeldIn(c, x) \in Nat
    BY <1>1, HeldByBoth
<1>4. Cardinality(CellsTo(h, x)) \in Nat
    BY <1>2, CellsFinite
<1>. QED  BY <1>3, <1>4 DEF Sound, Balanced

\* The top of a stack and what is below it.
LEMMA HeldBelow ==
    ASSUME NEW B, NEW N, NEW c, StackOK(c, B, N), c # <<>>, NEW x
    PROVE  /\ HeldIn(c, x) = Held(Head(c), x) + HeldIn(Tail(c), x)
           /\ HeldIn(Tail(c), x) \in Nat /\ Held(Head(c), x) \in Nat
<1> DEFINE t == Head(c)
           r == Tail(c)
           I == Item(B, N)
<1>1. t \in I /\ StackOK(r, B, N) /\ Stackable(t, r) /\ c = <<t>> \o r
    BY Popped
<1>2. r \in Seq(I)
    BY <1>1 DEF StackOK
<1>3. Counts(I, x)
    BY HeldType DEF Counts
<1> HIDE DEF t, r, I
<1>4. HeldIn(<<t>> \o r, x) = Held(t, x) + HeldIn(r, x) /\ HeldIn(r, x) \in Nat
    BY <1>1, <1>2, <1>3, HeldOnTop
<1>5. Held(t, x) \in Nat
    BY <1>1, <1>3 DEF Counts
<1>6. HeldIn(c, x) = Held(t, x) + HeldIn(r, x)
    BY <1>1, <1>4
<1>. QED  BY <1>4, <1>5, <1>6 DEF t, r

\* What the top item is to what is lent below it.
LEMMA LentBelow ==
    ASSUME NEW B, NEW N, NEW c, StackOK(c, B, N), c # <<>>, NEW x, NEW b, NEW k
    PROVE  /\ LendsOn(Head(c), x) =>
                 (Lent(c, x, b, k) <=> /\ Head(c).kind = "frame" => k = Head(c).cls
                                       /\ Lent(Tail(c), x, b, Head(c).back))
           /\ ~ LendsOn(Head(c), x) => (Lent(c, x, b, k) <=> Lent(Tail(c), x, b, k))
<1> DEFINE t == Head(c)
           r == Tail(c)
           I == Item(B, N)
<1>1. t \in I /\ StackOK(r, B, N) /\ Stackable(t, r) /\ c = <<t>> \o r
    BY Popped
<1>2. r \in Seq(I)
    BY <1>1 DEF StackOK
<1> HIDE DEF t, r, I
<1>3. /\ LendsOn(t, x) => (Lent(<<t>> \o r, x, b, k) <=>
                                     (t.kind = "frame" => k = t.cls) /\ Lent(r, x, b, t.back))
      /\ ~ LendsOn(t, x) => (Lent(<<t>> \o r, x, b, k) <=> Lent(r, x, b, k))
    BY <1>1, <1>2, LentOnTop
<1>4. /\ LendsOn(t, x) => (Lent(c, x, b, k) <=>
                                     (t.kind = "frame" => k = t.cls) /\ Lent(r, x, b, t.back))
      /\ ~ LendsOn(t, x) => (Lent(c, x, b, k) <=> Lent(r, x, b, k))
    BY <1>1, <1>3
<1>. QED  BY <1>4 DEF t, r

\* A stack with any item on top: its form, what it holds and what it lends.
LEMMA ItemOnTop ==
    ASSUME NEW B, NEW N, NEW t \in Item(B, N), NEW r, StackOK(r, B, N), Stackable(t, r)
    PROVE  /\ StackOK(<<t>> \o r, B, N)
           /\ \A x : /\ HeldIn(<<t>> \o r, x) = Held(t, x) + HeldIn(r, x)
                     /\ HeldIn(r, x) \in Nat /\ Held(t, x) \in Nat
           /\ \A x, b, k : LendsOn(t, x) =>
                 (Lent(<<t>> \o r, x, b, k) <=> (t.kind = "frame" => k = t.cls) /\ Lent(r, x, b, t.back))
           /\ \A x, b, k : ~ LendsOn(t, x) => (Lent(<<t>> \o r, x, b, k) <=> Lent(r, x, b, k))
<1> DEFINE I == Item(B, N)
<1>1. StackOK(<<t>> \o r, B, N)
    BY Pushed
<1>2. r \in Seq(I) /\ t \in I
    BY DEF StackOK
<1>3. \A x : Counts(I, x)
    BY HeldType DEF Counts
<1> HIDE DEF I
<1>4. ASSUME NEW x
      PROVE  HeldIn(<<t>> \o r, x) = Held(t, x) + HeldIn(r, x) /\ HeldIn(r, x) \in Nat /\ Held(t, x) \in Nat
    <2>1. Counts(I, x)
        BY <1>3
    <2>2. HeldIn(<<t>> \o r, x) = Held(t, x) + HeldIn(r, x) /\ HeldIn(r, x) \in Nat
        BY <1>2, <2>1, HeldOnTop
    <2>. QED  BY <1>2, <2>1, <2>2 DEF Counts
<1>5. ASSUME NEW x, NEW b, NEW k
      PROVE  /\ LendsOn(t, x) => (Lent(<<t>> \o r, x, b, k) <=>
                                     (t.kind = "frame" => k = t.cls) /\ Lent(r, x, b, t.back))
             /\ ~ LendsOn(t, x) => (Lent(<<t>> \o r, x, b, k) <=> Lent(r, x, b, k))
    BY <1>2, LentOnTop
<1>. QED  BY <1>1, <1>4, <1>5

\* A stack that holds and lends the same.
LEMMA Reheld ==
    ASSUME NEW h, NEW c, NEW N, Sound(h, c, N), NEW d, StackOK(d, BornIn(h), N),
           \A x \in Objects : HeldIn(d, x) = HeldIn(c, x),
           \A x, b, k : Lent(c, x, b, k) => Lent(d, x, b, k)
    PROVE  Sound(h, d, N)
BY DEF Sound, Balanced

\* unset of a variable.
LEMMA UnsetKeeps ==
    ASSUME NEW h, NEW c, NEW N, Sound(h, c, N), c # <<>>, Head(c).kind = "frame", NEW v \in Vars,
           Head(c).vars[v].ref # Nil
    PROVE  Sound(h, <<Unref(Head(c).vars[v].ref)>> \o (<<WithVar(Head(c), v, Null)>> \o Tail(c)), N)
<1> DEFINE B == BornIn(h)
           f == Head(c)
           r == Tail(c)
           e == WithVar(f, v, Null)
           u == Unref(f.vars[v].ref)
           m == <<e>> \o r
<1>1. StackOK(c, B, N)
    BY DEF Sound
<1>2. f \in Item(B, N) /\ StackOK(r, B, N) /\ c = <<f>> \o r
    BY <1>1, Popped
<1>3. Null \in Value(B) /\ \A x \in Objects : To(Null, x) = 0
    BY NullIn
<1> HIDE DEF f, r, e, B, u
<1>4. /\ StackOK(m, B, N) /\ f.vars[v] \in Value(B)
      /\ \A x : HeldIn(m, x) + To(f.vars[v], x) = HeldIn(<<f>> \o r, x) + To(Null, x)
      /\ \A x : HeldIn(m, x) \in Nat /\ HeldIn(<<f>> \o r, x) \in Nat
      /\ \A x, b, k : Lent(m, x, b, k) <=> Lent(<<f>> \o r, x, b, k)
    BY <1>2, <1>3, FrameChanged DEF f, e
<1>5. f.vars[v].ref \in B
    BY <1>4 DEF f, Value
<1>6. u \in Item(B, N) /\ u.kind = "unref"
    BY <1>5, ItemsMade DEF u, Unref
<1>7. Stackable(u, m) /\ \A x : ~ LendsOn(u, x)
    BY <1>6 DEF Stackable, LendsOn
<1> HIDE DEF m
<1>8. /\ StackOK(<<u>> \o m, B, N)
      /\ \A x : HeldIn(<<u>> \o m, x) = Held(u, x) + HeldIn(m, x) /\ Held(u, x) \in Nat
      /\ \A x, b, k : Lent(<<u>> \o m, x, b, k) <=> Lent(m, x, b, k)
    BY <1>4, <1>6, <1>7, ItemOnTop
<1>9. ASSUME NEW x \in Objects PROVE HeldIn(<<u>> \o m, x) = HeldIn(c, x)
    <2>1. Held(u, x) = To(f.vars[v], x)
        BY ItemsHold DEF u, To
    <2>2. /\ HeldIn(m, x) + To(f.vars[v], x) = HeldIn(c, x) + 0
          /\ HeldIn(m, x) \in Nat /\ HeldIn(c, x) \in Nat
        BY <1>2, <1>3, <1>4
    <2>3. HeldIn(<<u>> \o m, x) = Held(u, x) + HeldIn(m, x) /\ Held(u, x) \in Nat
        BY <1>8
    <2>. QED  BY <2>1, <2>2, <2>3
<1>10. \A x, b, k : Lent(c, x, b, k) => Lent(<<u>> \o m, x, b, k)
    BY <1>2, <1>4, <1>8
<1>11. Sound(h, <<u>> \o m, N)
    BY <1>8, <1>9, <1>10, Reheld DEF B
<1>. QED  BY <1>11 DEF u, m, f, r, e

\* An operand stored in a variable of the frame below.
LEMMA StoreKeeps ==
    ASSUME NEW h, NEW c, NEW N, Sound(h, c, N), c # <<>>, Head(c).kind = "store"
    PROVE  Sound(h, Unrefs(<<Head(Tail(c)).vars[Head(c).var]>>)
                        \o (<<WithVar(Head(Tail(c)), Head(c).var, Head(c).val)>> \o Tail(Tail(c))), N)
<1> DEFINE B == BornIn(h)
           t == Head(c)
           n == Tail(c)
           f == Head(n)
           r == Tail(n)
           v == t.var
           w == t.val
           e == WithVar(f, v, w)
           old == f.vars[v]
           m == <<e>> \o r
           d == Unrefs(<<old>>) \o m
<1>1. StackOK(c, B, N)
    BY DEF Sound
<1>2. /\ t \in Item(B, N) /\ StackOK(n, B, N) /\ Stackable(t, n)
      /\ \A x : HeldIn(c, x) = Held(t, x) + HeldIn(n, x) /\ HeldIn(n, x) \in Nat
      /\ \A x, b, k : ~ LendsOn(t, x) => (Lent(c, x, b, k) <=> Lent(n, x, b, k))
    <2> HIDE DEF B, t, n, f, r, v, w, e, old, m, d
    <2>1. t \in Item(B, N) /\ StackOK(n, B, N) /\ Stackable(t, n)
        BY <1>1, Popped DEF t, n
    <2>2. ASSUME NEW x PROVE HeldIn(c, x) = Held(t, x) + HeldIn(n, x) /\ HeldIn(n, x) \in Nat
        BY <1>1, HeldBelow DEF t, n
    <2>3. ASSUME NEW x, NEW b, NEW k, ~ LendsOn(t, x) PROVE Lent(c, x, b, k) <=> Lent(n, x, b, k)
        BY <1>1, <2>3, LentBelow DEF t, n
    <2>. QED  BY <2>1, <2>2, <2>3
<1>3. n # <<>> /\ n[1].kind = "frame" /\ n \in Seq(Item(B, N))
    BY <1>2 DEF Stackable, StackOK
<1>4. f.kind = "frame"
    BY <1>3
<1>5. f \in Item(B, N) /\ StackOK(r, B, N) /\ n = <<f>> \o r
    <2> HIDE DEF B, n, e, old, m, d
    <2>. QED  BY <1>2, <1>3, <1>4, Popped
<1>6. v \in Vars /\ w \in Value(B)
    BY <1>2, ItemFields
<1>7. \A x : ~ LendsOn(t, x) /\ Held(t, x) = To(w, x)
    BY DEF LendsOn, Held, To
<1> HIDE DEF t, n, f, r, v, w, e, B, old, d
<1>9. /\ StackOK(m, B, N) /\ old \in Value(B)
      /\ \A x : HeldIn(m, x) + To(old, x) = HeldIn(<<f>> \o r, x) + To(w, x)
      /\ \A x : HeldIn(m, x) \in Nat /\ HeldIn(<<f>> \o r, x) \in Nat
      /\ \A x, b, k : Lent(m, x, b, k) <=> Lent(<<f>> \o r, x, b, k)
    BY <1>4, <1>5, <1>6, FrameChanged DEF e, old, m
<1> HIDE DEF m
<1>10. <<old>> \in Seq(Value(B)) /\ Nil \notin B
    BY <1>9, BornFacts DEF B
<1>11. /\ StackOK(d, B, N)
       /\ \A o : o # Nil => HeldIn(d, o) = RefsIn(<<old>>, o) + HeldIn(m, o)
       /\ \A o, b, k : Lent(d, o, b, k) <=> Lent(m, o, b, k)
    BY <1>9, <1>10, UnrefsOnTop DEF d
<1>12. ASSUME NEW x \in Objects PROVE HeldIn(d, x) = HeldIn(c, x)
    <2>1. x # Nil
        BY ObjectsAssumption
    <2>2. HeldIn(d, x) = To(old, x) + HeldIn(m, x)
        BY <1>11, <2>1, RefsInOne
    <2>3. /\ HeldIn(m, x) + To(old, x) = HeldIn(n, x) + To(w, x)
          /\ HeldIn(m, x) \in Nat /\ HeldIn(n, x) \in Nat
        BY <1>5, <1>9
    <2>4. HeldIn(c, x) = To(w, x) + HeldIn(n, x)
        BY <1>2, <1>7
    <2>5. To(old, x) \in Nat /\ To(w, x) \in Nat
        BY DEF To
    <2>. QED  BY <2>2, <2>3, <2>4, <2>5
<1>13. \A x, b, k : Lent(c, x, b, k) => Lent(d, x, b, k)
    BY <1>2, <1>5, <1>7, <1>9, <1>11
<1>14. Sound(h, d, N)
    BY <1>11, <1>12, <1>13, Reheld DEF B
<1>. QED  BY <1>14 DEF d, m, e, old, v, w, r, f, n, t

\* The end of a method.
LEMMA ReturnKeeps ==
    ASSUME NEW h, NEW c, NEW N, Sound(h, c, N), c # <<>>, Head(c).kind = "frame"
    PROVE  Sound(h, Unrefs(<<Reference(Head(c).self, "parent"), Reference(Head(c).self, "this")>>
                             \o Locals(Head(c).vars))
                      \o (<<Restore(Head(c).self, Head(c).back)>> \o Tail(c)), N)
<1> DEFINE B == BornIn(h)
           f == Head(c)
           r == Tail(c)
           o == f.self
           s == Restore(o, f.back)
           p == Reference(o, "parent")
           q == Reference(o, "this")
           L == Locals(f.vars)
           m == <<s>> \o r
           drop == <<p, q>> \o L
           d == Unrefs(drop) \o m
<1>1. StackOK(c, B, N)
    BY DEF Sound
<1> HIDE DEF r, o, s, p, q, L, m, drop, d
<1>2. f \in Item(B, N) /\ StackOK(r, B, N)
    BY <1>1, Popped DEF r
<1>3. o \in B /\ f.back \in N /\ f.vars \in [Vars -> Value(B)]
    BY <1>2, ItemFields DEF o
<1>4. f.kind = "frame" /\ \A x : LendsOn(f, x) <=> x = o
    BY DEF LendsOn, o
<1>5. \A x, b, k : Lent(c, x, b, k) =>
                      IF x = o THEN Lent(r, x, b, f.back) ELSE Lent(r, x, b, k)
    <2> SUFFICES ASSUME NEW x, NEW b, NEW k, Lent(c, x, b, k)
                 PROVE  IF x = o THEN Lent(r, x, b, f.back) ELSE Lent(r, x, b, k)
        OBVIOUS
    <2> HIDE DEF B
    <2>1. x = o => Lent(r, x, b, f.back)
        BY <1>1, <1>4, LentBelow DEF r
    <2>2. x # o => Lent(r, x, b, k)
        BY <1>1, <1>4, LentBelow DEF r
    <2>. QED  BY <2>1, <2>2
<1>6. \A x : /\ HeldIn(c, x) = Held(f, x) + HeldIn(r, x)
             /\ HeldIn(r, x) \in Nat
    <2> HIDE DEF B
    <2>. QED  BY <1>1, HeldBelow DEF r
<1>7. ASSUME NEW x PROVE Held(f, x) = (IF o = x THEN 2 ELSE 0) + VarsTo(f.vars, x)
    BY <1>4 DEF Held, VarsTo, o
<1>8. s \in Item(B, N) /\ s.kind = "restore" /\ s.obj = o /\ s.back = f.back
    BY <1>3, ItemsMade DEF s, Restore
<1> HIDE DEF f, B
<1>9. Stackable(s, r) /\ \A x : (LendsOn(s, x) <=> x = o) /\ Held(s, x) = 0
    BY <1>8 DEF Stackable, LendsOn, Held
<1>10. /\ StackOK(m, B, N)
       /\ \A x : HeldIn(m, x) = HeldIn(r, x)
       /\ \A x, b, k : Lent(m, x, b, k) <=> IF x = o THEN Lent(r, x, b, f.back) ELSE Lent(r, x, b, k)
    <2>1. /\ StackOK(<<s>> \o r, B, N)
          /\ \A x : /\ HeldIn(<<s>> \o r, x) = Held(s, x) + HeldIn(r, x)
                    /\ HeldIn(r, x) \in Nat /\ Held(s, x) \in Nat
          /\ \A x, b, k : LendsOn(s, x) =>
                (Lent(<<s>> \o r, x, b, k) <=> (s.kind = "frame" => k = s.cls) /\ Lent(r, x, b, s.back))
          /\ \A x, b, k : ~ LendsOn(s, x) => (Lent(<<s>> \o r, x, b, k) <=> Lent(r, x, b, k))
        BY <1>2, <1>8, <1>9, ItemOnTop
    <2>2. ASSUME NEW x PROVE HeldIn(m, x) = HeldIn(r, x)
        BY <1>9, <2>1 DEF m
    <2>3. ASSUME NEW x, NEW b, NEW k
          PROVE  Lent(m, x, b, k) <=> IF x = o THEN Lent(r, x, b, f.back) ELSE Lent(r, x, b, k)
        BY <1>8, <1>9, <2>1 DEF m
    <2>. QED  BY <2>1, <2>2, <2>3 DEF m
<1>11. L \in Seq(Value(B)) /\ \A x : RefsIn(L, x) = VarsTo(f.vars, x)
    BY <1>3, LocalsAreVars DEF L
<1>12. p \in Value(B) /\ q \in Value(B) /\ \A x : To(p, x) = (IF o = x THEN 1 ELSE 0) /\ To(q, x) = To(p, x)
    BY <1>3, NullIn DEF p, q, Marks
<1>13. drop \in Seq(Value(B)) /\ \A x : RefsIn(drop, x) = (IF o = x THEN 2 ELSE 0) + VarsTo(f.vars, x)
    <2> DEFINE k == <<q>> \o L
    <2>1. k \in Seq(Value(B)) /\ drop = <<p>> \o k
        <3> DEFINE V == Value(B)
        <3>1. L \in Seq(V) /\ p \in V /\ q \in V
            BY <1>11, <1>12
        <3> HIDE DEF V
        <3>2. <<p, q>> \o L = <<p>> \o (<<q>> \o L) /\ <<q>> \o L \in Seq(V)
            BY <3>1, TwoOnTop
        <3>. QED  BY <3>2 DEF drop, V
    <2> HIDE DEF k
    <2>2. <<p>> \o k \in Seq(Value(B))
        BY <1>12, <2>1
    <2>3. ASSUME NEW x PROVE RefsIn(drop, x) = (IF o = x THEN 2 ELSE 0) + VarsTo(f.vars, x)
        <3>1. RefsIn(drop, x) = To(p, x) + RefsIn(k, x)
            BY <1>12, <2>1, RefsOnTop
        <3>2. RefsIn(k, x) = To(q, x) + RefsIn(L, x)
            BY <1>11, <1>12, RefsOnTop DEF k
        <3>3. VarsTo(f.vars, x) \in Nat
            BY VarsFinite
        <3>. QED  BY <1>11, <1>12, <3>1, <3>2, <3>3
    <2>. QED  BY <2>1, <2>2, <2>3
<1>14. Nil \notin B
    BY BornFacts DEF B
<1>15. /\ StackOK(d, B, N)
       /\ \A y : y # Nil => HeldIn(d, y) = RefsIn(drop, y) + HeldIn(m, y)
       /\ \A y, b, k : Lent(d, y, b, k) <=> Lent(m, y, b, k)
    BY <1>10, <1>13, <1>14, UnrefsOnTop DEF d
<1>16. ASSUME NEW x \in Objects PROVE HeldIn(d, x) = HeldIn(c, x)
    <2>1. x # Nil
        BY ObjectsAssumption
    <2>2. HeldIn(d, x) = RefsIn(drop, x) + HeldIn(m, x)
        BY <1>15, <2>1
    <2>. QED  BY <1>6, <1>7, <1>10, <1>13, <2>2
<1>17. \A x, b, k : Lent(c, x, b, k) => Lent(d, x, b, k)
    BY <1>5, <1>10, <1>15
<1>18. Sound(h, d, N)
    BY <1>15, <1>16, <1>17, Reheld DEF B
<1>. QED  BY <1>18 DEF d, m, s, r, f, o, drop, p, q, L

-----------------------------------------------------------------------------
(* Steps that change one object.                                            *)

(* What may become of the instances while their attributes stay.            *)
Follows(h, g, N) ==
    /\ g \in [Objects -> Instance(BornIn(h), N)]
    /\ \A p \in Objects :
          /\ g[p].attrs = h[p].attrs /\ g[p].born = h[p].born
          /\ g[p].state = "unborn" <=> h[p].state = "unborn"
          /\ g[p].state = "live" => h[p].state = "live"
          /\ p \in BornIn(h) => g[p].cls \in N

\* A heap that follows from another is well formed, of the same objects.
LEMMA FollowsOK ==
    ASSUME NEW h, NEW N, HeapOK(h, BornIn(h), N), NEW g, Follows(h, g, N)
    PROVE  HeapOK(g, BornIn(h), N) /\ BornIn(g) = BornIn(h)
<1>1. BornIn(g) = BornIn(h)
    <2>1. \A p \in Objects : p \in BornIn(g) <=> p \in BornIn(h)
        BY DEF BornIn, Follows
    <2>. QED  BY <2>1 DEF BornIn
<1>2. HeapOK(g, BornIn(h), N)
    BY DEF HeapOK, Follows
<1>. QED  BY <1>1, <1>2

\* The top item done: what it held is given up, and the class it gives back.
LEMMA TopDone ==
    ASSUME NEW h, NEW c, NEW N, Sound(h, c, N), c # <<>>, Head(c).kind # "frame",
           NEW g, Follows(h, g, N),
           \A p \in Objects : g[p].state = "live" =>
               /\ g[p].iRef = h[p].iRef - Held(Head(c), p)
               /\ g[p].cls = IF LendsOn(Head(c), p) THEN Head(c).back ELSE h[p].cls
    PROVE  Sound(g, Tail(c), N)
<1> DEFINE B == BornIn(h)
           t == Head(c)
           r == Tail(c)
<1>1. StackOK(c, B, N) /\ HeapOK(h, B, N)
    BY DEF Sound
<1>2. StackOK(r, B, N)
    BY <1>1, Popped
<1>3. HeapOK(g, B, N) /\ BornIn(g) = B
    BY <1>1, FollowsOK
<1>4. ASSUME NEW x \in Objects, g[x].state = "live" PROVE Balanced(g, r, x)
    <2>0. h[x].state = "live" /\ h[x].born = g[x].born /\ \A p \in Objects : g[p].attrs = h[p].attrs
        BY <1>4 DEF Follows
    <2>1. /\ HeldIn(c, x) \in Nat /\ Cardinality(CellsTo(h, x)) \in Nat
          /\ h[x].iRef = HeldIn(c, x) + Cardinality(CellsTo(h, x))
          /\ Lent(c, x, h[x].born, h[x].cls)
        BY <2>0, SoundFacts
    <2>2. CellsTo(g, x) = CellsTo(h, x)
        BY <2>0, SameCells
    <2>3. HeldIn(c, x) = Held(t, x) + HeldIn(r, x) /\ HeldIn(r, x) \in Nat /\ Held(t, x) \in Nat
        <3> HIDE DEF B
        <3>. QED  BY <1>1, HeldBelow
    <2>4. g[x].iRef = h[x].iRef - Held(t, x) /\ g[x].cls = IF LendsOn(t, x) THEN t.back ELSE h[x].cls
        BY <1>4
    <2>5. Lent(r, x, h[x].born, g[x].cls)
        <3> HIDE DEF B
        <3>. QED  BY <1>1, <2>1, <2>4, LentBelow
    <2> HIDE DEF t, r
    <2>6. g[x].iRef = HeldIn(r, x) + Cardinality(CellsTo(g, x))
        BY <2>1, <2>2, <2>3, <2>4
    <2>. QED  BY <2>0, <2>5, <2>6 DEF Balanced
<1>. QED  BY <1>2, <1>3, <1>4 DEF Sound

\* An instance with another count, state and class.
Altered(i, n, s, k) == [i EXCEPT !.iRef = n, !.state = s, !.cls = k]

\* An object altered in its count, its state or its class.
LEMMA AlteredFollows ==
    ASSUME NEW h, NEW N, HeapOK(h, BornIn(h), N), NEW o \in BornIn(h), NEW n \in Int,
           NEW s \in {"live", "destroyed", "freed"}, s = "live" => h[o].state = "live", NEW k \in N
    PROVE  /\ Follows(h, Put(h, o, Altered(h[o], n, s, k)), N)
           /\ \A p \in Objects : /\ p # o => Put(h, o, Altered(h[o], n, s, k))[p] = h[p]
                                 /\ p = o => Put(h, o, Altered(h[o], n, s, k))[p] = Altered(h[o], n, s, k)
           /\ Altered(h[o], n, s, k).iRef = n /\ Altered(h[o], n, s, k).state = s
           /\ Altered(h[o], n, s, k).cls = k
<1> DEFINE B == BornIn(h)
           i == Altered(h[o], n, s, k)
           g == Put(h, o, i)
<1>1. o \in Objects /\ h[o].state # "unborn"
    BY DEF BornIn
<1>2. h[o] \in Instance(B, N) /\ h \in [Objects -> Instance(B, N)]
      /\ \A p \in Objects : p \in B => h[p].cls \in N
    BY <1>1 DEF HeapOK
<1> HIDE DEF B
<1>3. /\ i \in Instance(B, N) /\ i.iRef = n /\ i.state = s /\ i.cls = k
      /\ i.attrs = h[o].attrs /\ i.born = h[o].born
    BY <1>2 DEF Altered, Instance
<1> HIDE DEF i
<1>4. g \in [Objects -> Instance(B, N)] /\ g[o] = i /\ \A p \in Objects : p # o => g[p] = h[p]
    BY <1>1, <1>2, <1>3 DEF Put
<1> HIDE DEF g
<1>5. \A p \in Objects :
          /\ g[p].attrs = h[p].attrs /\ g[p].born = h[p].born
          /\ g[p].state = "unborn" <=> h[p].state = "unborn"
          /\ g[p].state = "live" => h[p].state = "live"
          /\ p \in B => g[p].cls \in N
    <2> SUFFICES ASSUME NEW p \in Objects
                 PROVE  /\ g[p].attrs = h[p].attrs /\ g[p].born = h[p].born
                        /\ g[p].state = "unborn" <=> h[p].state = "unborn"
                        /\ g[p].state = "live" => h[p].state = "live"
                        /\ p \in B => g[p].cls \in N
        OBVIOUS
    <2>1. CASE p = o
        BY <1>1, <1>3, <1>4, <2>1
    <2>2. CASE p # o
        BY <1>2, <1>4, <2>2
    <2>. QED  BY <2>1, <2>2
<1>6. Follows(h, g, N)
    BY <1>4, <1>5 DEF Follows, B
<1>. QED  BY <1>3, <1>4, <1>6 DEF g, i

\* A reference dropped, to an object that stays.
LEMMA UnrefKeeps ==
    ASSUME NEW h, NEW c, NEW N, Sound(h, c, N), c # <<>>, Head(c).kind = "unref"
    PROVE  Sound([h EXCEPT ![Head(c).obj].iRef = @ - 1], Tail(c), N)
<1> DEFINE B == BornIn(h)
           t == Head(c)
           o == t.obj
           n == h[o].iRef - 1
           s == h[o].state
           k == h[o].cls
           i == Altered(h[o], n, s, k)
           g == Put(h, o, i)
<1>1. StackOK(c, B, N) /\ HeapOK(h, B, N)
    BY DEF Sound
<1>2. o \in B /\ o \in Objects
    <2>1. t \in Item(B, N)
        BY <1>1, Popped
    <2>. QED  BY <2>1, ItemFields DEF BornIn
<1>3. h[o] \in Instance(B, N) /\ h \in [Objects -> Instance(B, N)] /\ n \in Int /\ k \in N
      /\ s \in {"live", "destroyed", "freed"}
    <2>1. h[o] \in Instance(B, N) /\ h \in [Objects -> Instance(B, N)] /\ h[o].iRef \in Int /\ k \in N
        BY <1>1, <1>2, InstanceFields
    <2>2. s \in {"unborn", "live", "destroyed", "freed"} /\ s # "unborn"
        BY <1>1, <1>2, InstanceFields DEF BornIn
    <2>. QED  BY <2>1, <2>2
<1>4. [h EXCEPT ![o].iRef = @ - 1] = g
    <2>1. [h[o] EXCEPT !.iRef = @ - 1] = i
        BY <1>3 DEF Altered, Instance
    <2>. QED  BY <1>2, <1>3, <2>1 DEF Put
<1> HIDE DEF n, s, k
<1>5. /\ Follows(h, g, N) /\ i.iRef = n /\ i.state = s /\ i.cls = k
      /\ \A p \in Objects : (p # o => g[p] = h[p]) /\ (p = o => g[p] = i)
    BY <1>1, <1>2, <1>3, AlteredFollows DEF s
<1> HIDE DEF i, g
<1>6. \A p \in Objects : g[p].state = "live" =>
               /\ g[p].iRef = h[p].iRef - Held(t, p)
               /\ g[p].cls = IF LendsOn(t, p) THEN t.back ELSE h[p].cls
    <2> SUFFICES ASSUME NEW p \in Objects, g[p].state = "live"
                 PROVE  g[p].iRef = h[p].iRef - Held(t, p) /\ g[p].cls = IF LendsOn(t, p) THEN t.back ELSE h[p].cls
        OBVIOUS
    <2>1. Held(t, p) = (IF o = p THEN 1 ELSE 0) /\ ~ LendsOn(t, p)
        BY DEF Held, LendsOn
    <2>2. CASE p = o
        BY <1>5, <2>1, <2>2 DEF n, k
    <2>3. CASE p # o
        <3>1. h[p].iRef \in Int
            BY <1>1, InstanceFields
        <3>. QED  BY <1>5, <2>1, <2>3, <3>1
    <2>. QED  BY <2>2, <2>3
<1>7. Sound(g, Tail(c), N)
    BY <1>5, <1>6, TopDone
<1>. QED  BY <1>4, <1>7

\* An object given back to the pool.
LEMMA DisposeKeeps ==
    ASSUME NEW h, NEW c, NEW N, Sound(h, c, N), c # <<>>, Head(c).kind = "dispose"
    PROVE  Sound([h EXCEPT ![Head(c).obj].state = "freed"], Tail(c), N)
<1> DEFINE B == BornIn(h)
           t == Head(c)
           o == t.obj
           n == h[o].iRef
           k == h[o].cls
           i == Altered(h[o], n, "freed", k)
           g == Put(h, o, i)
<1>1. StackOK(c, B, N) /\ HeapOK(h, B, N)
    BY DEF Sound
<1>2. o \in B /\ o \in Objects
    <2>1. t \in Item(B, N)
        BY <1>1, Popped
    <2>. QED  BY <2>1, ItemFields DEF BornIn
<1>3. h[o] \in Instance(B, N) /\ h \in [Objects -> Instance(B, N)] /\ n \in Int /\ k \in N
    BY <1>1, <1>2, InstanceFields
<1>4. [h EXCEPT ![o].state = "freed"] = g
    <2>1. [h[o] EXCEPT !.state = "freed"] = i
        BY <1>3 DEF Altered, Instance
    <2>. QED  BY <1>2, <1>3, <2>1 DEF Put
<1> HIDE DEF n, k
<1>5. /\ Follows(h, g, N) /\ i.state = "freed"
      /\ \A p \in Objects : (p # o => g[p] = h[p]) /\ (p = o => g[p] = i)
    BY <1>1, <1>2, <1>3, AlteredFollows
<1> HIDE DEF i, g
<1>6. \A p \in Objects : g[p].state = "live" =>
               /\ g[p].iRef = h[p].iRef - Held(t, p)
               /\ g[p].cls = IF LendsOn(t, p) THEN t.back ELSE h[p].cls
    <2> SUFFICES ASSUME NEW p \in Objects, g[p].state = "live"
                 PROVE  g[p].iRef = h[p].iRef - Held(t, p) /\ g[p].cls = IF LendsOn(t, p) THEN t.back ELSE h[p].cls
        OBVIOUS
    <2>1. Held(t, p) = 0 /\ ~ LendsOn(t, p)
        BY DEF Held, LendsOn
    <2>2. g[p] = h[p]
        BY <1>5
    <2>3. h[p].iRef \in Int
        BY <1>1, InstanceFields
    <2>. QED  BY <2>1, <2>2, <2>3
<1>7. Sound(g, Tail(c), N)
    BY <1>5, <1>6, TopDone
<1>. QED  BY <1>4, <1>7

\* The class given back.
LEMMA RestoreKeeps ==
    ASSUME NEW h, NEW c, NEW N, Sound(h, c, N), c # <<>>, Head(c).kind = "restore"
    PROVE  Sound(IF h[Head(c).obj].state = "freed" THEN h
                 ELSE [h EXCEPT ![Head(c).obj].cls = Head(c).back], Tail(c), N)
<1> DEFINE B == BornIn(h)
           t == Head(c)
           o == t.obj
           n == h[o].iRef
           s == h[o].state
           k == IF s = "freed" THEN h[o].cls ELSE t.back
           i == Altered(h[o], n, s, k)
           g == Put(h, o, i)
<1>1. StackOK(c, B, N) /\ HeapOK(h, B, N)
    BY DEF Sound
<1>2. o \in B /\ o \in Objects /\ t.back \in N
    <2>1. t \in Item(B, N)
        BY <1>1, Popped
    <2>. QED  BY <2>1, ItemFields DEF BornIn
<1>3. h[o] \in Instance(B, N) /\ h \in [Objects -> Instance(B, N)] /\ n \in Int /\ k \in N
      /\ s \in {"live", "destroyed", "freed"}
    <2>1. h[o] \in Instance(B, N) /\ h \in [Objects -> Instance(B, N)] /\ n \in Int /\ h[o].cls \in N
        BY <1>1, <1>2, InstanceFields
    <2>2. s \in {"unborn", "live", "destroyed", "freed"} /\ s # "unborn"
        BY <1>1, <1>2, InstanceFields DEF BornIn
    <2>. QED  BY <1>2, <2>1, <2>2
<1>4. (IF h[o].state = "freed" THEN h ELSE [h EXCEPT ![o].cls = t.back]) = g
    <2>1. CASE s = "freed"
        <3>1. h[o] = i
            BY <1>3, <2>1 DEF Altered, Instance
        <3>. QED  BY <1>2, <1>3, <2>1, <3>1 DEF Put
    <2>2. CASE s # "freed"
        <3>1. [h[o] EXCEPT !.cls = t.back] = i
            BY <1>3, <2>2 DEF Altered, Instance
        <3>. QED  BY <1>2, <1>3, <2>2, <3>1 DEF Put
    <2>. QED  BY <2>1, <2>2
<1> HIDE DEF n, s, k
<1>5. /\ Follows(h, g, N) /\ i.iRef = n /\ i.state = s /\ i.cls = k
      /\ \A p \in Objects : (p # o => g[p] = h[p]) /\ (p = o => g[p] = i)
    BY <1>1, <1>2, <1>3, AlteredFollows DEF s
<1> HIDE DEF i, g
<1>6. \A p \in Objects : g[p].state = "live" =>
               /\ g[p].iRef = h[p].iRef - Held(t, p)
               /\ g[p].cls = IF LendsOn(t, p) THEN t.back ELSE h[p].cls
    <2> SUFFICES ASSUME NEW p \in Objects, g[p].state = "live"
                 PROVE  g[p].iRef = h[p].iRef - Held(t, p) /\ g[p].cls = IF LendsOn(t, p) THEN t.back ELSE h[p].cls
        OBVIOUS
    <2>1. Held(t, p) = 0 /\ (LendsOn(t, p) <=> o = p)
        BY DEF Held, LendsOn
    <2>4. h[p].iRef \in Int
        BY <1>1, InstanceFields
    <2>2. CASE p = o
        BY <1>5, <2>1, <2>2, <2>4 DEF n, s, k
    <2>3. CASE p # o
        BY <1>5, <2>1, <2>3, <2>4
    <2>. QED  BY <2>2, <2>3
<1>7. Sound(g, Tail(c), N)
    BY <1>5, <1>6, TopDone
<1>. QED  BY <1>4, <1>7

-----------------------------------------------------------------------------
(* Methods that start.                                                      *)

\* A frame on the stack: two references more, and the class lent.
LEMMA FramePushed ==
    ASSUME NEW h, NEW c, NEW N, Sound(h, c, N), NEW o \in BornIn(h),
           NEW method \in MethodInfo(N)
    PROVE  Sound(LentTo(h, o, method), Frame(h, o, method, <<>>) \o c, N)
<1> DEFINE B == BornIn(h)
           n == h[o].iRef + 2
           s == h[o].state
           k == method.cls
           i == Altered(h[o], n, s, k)
           g == Put(h, o, i)
           d == Frame(h, o, method, <<>>) \o c
<1>1. StackOK(c, B, N) /\ HeapOK(h, B, N)
    BY DEF Sound
<1>2. o \in Objects /\ k \in N
    BY DEF BornIn, MethodInfo
<1>3. h[o] \in Instance(B, N) /\ h \in [Objects -> Instance(B, N)] /\ n \in Int /\ h[o].cls \in N
      /\ s \in {"live", "destroyed", "freed"}
    <2>1. h[o] \in Instance(B, N) /\ h \in [Objects -> Instance(B, N)] /\ h[o].iRef \in Int /\ h[o].cls \in N
        BY <1>1, <1>2, InstanceFields
    <2>2. s \in {"unborn", "live", "destroyed", "freed"} /\ s # "unborn"
        BY <1>1, <1>2, InstanceFields DEF BornIn
    <2>. QED  BY <2>1, <2>2
<1>4. LentTo(h, o, method) = g
    <2>1. [h[o] EXCEPT !.iRef = @ + 2, !.cls = method.cls] = i
        BY <1>3 DEF Altered, Instance
    <2>. QED  BY <1>2, <1>3, <2>1 DEF Put, LentTo
<1> HIDE DEF n, s
<1>5. /\ Follows(h, g, N) /\ i.iRef = n /\ i.state = s /\ i.cls = k
      /\ \A p \in Objects : (p # o => g[p] = h[p]) /\ (p = o => g[p] = i)
    BY <1>1, <1>2, <1>3, AlteredFollows DEF s
<1> HIDE DEF i, g, k, d
<1>6. HeapOK(g, B, N) /\ BornIn(g) = B
    BY <1>1, <1>5, FollowsOK
<1>7. <<>> \in Seq(Value(B)) /\ Len(<<>>) <= 1
    OBVIOUS
<1>8. /\ StackOK(d, B, N)
      /\ \A x \in Objects : HeldIn(d, x) = FrameHolds(o, <<>>, x) + HeldIn(c, x)
      /\ \A x, b, m : Lent(d, x, b, m) <=> IF x = o THEN m = method.cls /\ Lent(c, x, b, h[o].cls)
                                           ELSE Lent(c, x, b, m)
    <2>1. FramedBy(d, c, B, N, o, <<>>, method.cls, h[o].cls)
        BY <1>1, <1>3, <1>7, FrameOnTop DEF d
    <2>. QED  BY <2>1 DEF FramedBy
<1>9. ASSUME NEW x \in Objects, g[x].state = "live" PROVE Balanced(g, d, x)
    <2>0. h[x].state = "live" /\ h[x].born = g[x].born /\ \A p \in Objects : g[p].attrs = h[p].attrs
        BY <1>5, <1>9 DEF Follows
    <2>1. /\ HeldIn(c, x) \in Nat /\ Cardinality(CellsTo(h, x)) \in Nat
          /\ h[x].iRef = HeldIn(c, x) + Cardinality(CellsTo(h, x))
          /\ Lent(c, x, h[x].born, h[x].cls)
        BY <2>0, SoundFacts
    <2>2. CellsTo(g, x) = CellsTo(h, x)
        BY <2>0, SameCells
    <2>3. FrameHolds(o, <<>>, x) = IF o = x THEN 2 ELSE 0
        BY RefsInNone DEF FrameHolds
    <2>4. g[x].iRef = h[x].iRef + (IF o = x THEN 2 ELSE 0) /\ g[x].cls = IF x = o THEN k ELSE h[x].cls
        BY <1>5, <2>1 DEF n
    <2>5. g[x].iRef = HeldIn(d, x) + Cardinality(CellsTo(g, x))
        BY <1>8, <2>1, <2>2, <2>3, <2>4
    <2>6. Lent(d, x, h[x].born, g[x].cls)
        BY <1>8, <2>1, <2>4 DEF k
    <2>. QED  BY <2>0, <2>5, <2>6 DEF Balanced
<1>10. Sound(g, d, N)
    BY <1>6, <1>8, <1>9 DEF Sound
<1>. QED  BY <1>4, <1>10 DEF d

\* A message sent: the operand's reference goes, the frame's come.
LEMMA SendKeeps ==
    ASSUME NEW h, NEW c, NEW N, Sound(h, c, N), c # <<>>, Head(c).kind = "send",
           NEW method \in MethodInfo(N)
    PROVE  Sound([LentTo(h, Head(c).obj, method) EXCEPT ![Head(c).obj].iRef = @ - 1],
                 Frame(h, Head(c).obj, method, Head(c).args) \o Tail(c), N)
<1> DEFINE B == BornIn(h)
           t == Head(c)
           r == Tail(c)
           o == t.obj
           args == t.args
           n == h[o].iRef + 1
           s == h[o].state
           k == method.cls
           i == Altered(h[o], n, s, k)
           g == Put(h, o, i)
           d == Frame(h, o, method, args) \o r
<1>1. StackOK(c, B, N) /\ HeapOK(h, B, N)
    BY DEF Sound
<1>0. t \in Item(B, N) /\ StackOK(r, B, N) /\ Stackable(t, r)
    BY <1>1, Popped
<1>2. o \in B /\ o \in Objects /\ k \in N /\ args \in Seq(Value(B)) /\ Len(args) <= 1
    BY <1>0, ItemFields DEF BornIn, MethodInfo, Stackable
<1>3. h[o] \in Instance(B, N) /\ h \in [Objects -> Instance(B, N)] /\ h[o].iRef \in Int /\ n \in Int
      /\ h[o].cls \in N /\ s \in {"live", "destroyed", "freed"}
    <2>1. h[o] \in Instance(B, N) /\ h \in [Objects -> Instance(B, N)] /\ h[o].iRef \in Int /\ h[o].cls \in N
        BY <1>1, <1>2, InstanceFields
    <2>2. s \in {"unborn", "live", "destroyed", "freed"} /\ s # "unborn"
        BY <1>1, <1>2, InstanceFields DEF BornIn
    <2>. QED  BY <2>1, <2>2
<1>t. \A x : Held(t, x) = (IF o = x THEN 1 ELSE 0) + RefsIn(args, x) /\ ~ LendsOn(t, x)
    BY DEF Held, LendsOn
<1>b. \A x : HeldIn(c, x) = Held(t, x) + HeldIn(r, x) /\ HeldIn(r, x) \in Nat
    <2> HIDE DEF B, n, s, k, i, g, d, args
    <2> SUFFICES ASSUME NEW x PROVE HeldIn(c, x) = Held(t, x) + HeldIn(r, x) /\ HeldIn(r, x) \in Nat
        OBVIOUS
    <2>. QED  BY <1>1, HeldBelow
<1>l. \A x, b, m : Lent(c, x, b, m) <=> Lent(r, x, b, m)
    <2> HIDE DEF B, n, s, k, i, g, d, args
    <2> SUFFICES ASSUME NEW x, NEW b, NEW m PROVE Lent(c, x, b, m) <=> Lent(r, x, b, m)
        OBVIOUS
    <2>. QED  BY <1>1, <1>t, LentBelow
<1> HIDE DEF t, o, args, r
<1>4. [LentTo(h, o, method) EXCEPT ![o].iRef = @ - 1] = g
    <2>0. (h[o].iRef + 2) - 1 = n
        BY <1>3
    <2>1. [[h[o] EXCEPT !.iRef = @ + 2, !.cls = method.cls] EXCEPT !.iRef = @ - 1] = i
        <3> DEFINE m == h[o].iRef + 2
                   y == [h[o] EXCEPT !.iRef = m, !.cls = k]
        <3>1. y.iRef = m
            <4> HIDE DEF m, k
            <4>. QED  BY <1>3 DEF Instance
        <3>2. [y EXCEPT !.iRef = n] = i
            <4> HIDE DEF n, m, k, B
            <4>1. h[o] \in Instance(B, N)
                BY <1>3
            <4>. QED  BY <4>1 DEF i, s, Altered, Instance
        <3> HIDE DEF i
        <3>5. [y EXCEPT !.iRef = @ - 1] = i
            <4> HIDE DEF y
            <4>. QED  BY <2>0, <3>1, <3>2
        <3>. QED  BY <3>5
    <2> HIDE DEF i
    <2>2. LentTo(h, o, method) = [h EXCEPT ![o] = [h[o] EXCEPT !.iRef = @ + 2, !.cls = method.cls]]
        BY DEF LentTo
    <2>. QED  BY <1>2, <1>3, <2>1, <2>2 DEF Put
<1> HIDE DEF n, s
<1>5. /\ Follows(h, g, N) /\ i.iRef = n /\ i.state = s /\ i.cls = k
      /\ \A p \in Objects : (p # o => g[p] = h[p]) /\ (p = o => g[p] = i)
    BY <1>1, <1>2, <1>3, AlteredFollows DEF s
<1> HIDE DEF i, g, k, d
<1>6. HeapOK(g, B, N) /\ BornIn(g) = B
    BY <1>1, <1>5, FollowsOK
<1>8. /\ StackOK(d, B, N)
      /\ \A x \in Objects : HeldIn(d, x) = FrameHolds(o, args, x) + HeldIn(r, x)
      /\ \A x, b, m : Lent(d, x, b, m) <=> IF x = o THEN m = method.cls /\ Lent(r, x, b, h[o].cls)
                                           ELSE Lent(r, x, b, m)
    <2>1. FramedBy(d, r, B, N, o, args, method.cls, h[o].cls)
        BY <1>0, <1>2, <1>3, FrameOnTop DEF d
    <2>. QED  BY <2>1 DEF FramedBy
<1>9. ASSUME NEW x \in Objects, g[x].state = "live" PROVE Balanced(g, d, x)
    <2>0. h[x].state = "live" /\ h[x].born = g[x].born /\ \A p \in Objects : g[p].attrs = h[p].attrs
        BY <1>5, <1>9 DEF Follows
    <2>1. /\ HeldIn(c, x) \in Nat /\ Cardinality(CellsTo(h, x)) \in Nat
          /\ h[x].iRef = HeldIn(c, x) + Cardinality(CellsTo(h, x))
          /\ Lent(c, x, h[x].born, h[x].cls)
        BY <2>0, SoundFacts
    <2>2. CellsTo(g, x) = CellsTo(h, x)
        BY <2>0, SameCells
    <2>3. FrameHolds(o, args, x) = (IF o = x THEN 2 ELSE 0) + RefsIn(args, x) /\ RefsIn(args, x) \in Nat
        BY <1>2, RefsFinite DEF FrameHolds
    <2>4. g[x].iRef = h[x].iRef + (IF o = x THEN 1 ELSE 0) /\ g[x].cls = IF x = o THEN k ELSE h[x].cls
        BY <1>3, <1>5, <2>1 DEF n
    <2>5. HeldIn(d, x) = HeldIn(c, x) + (IF o = x THEN 1 ELSE 0)
        BY <1>8, <1>b, <1>t, <2>3
    <2>6. g[x].iRef = HeldIn(d, x) + Cardinality(CellsTo(g, x))
        BY <2>1, <2>2, <2>4, <2>5
    <2>7. Lent(d, x, h[x].born, g[x].cls)
        BY <1>8, <1>l, <2>1, <2>4 DEF k
    <2>. QED  BY <2>0, <2>6, <2>7 DEF Balanced
<1>10. Sound(g, d, N)
    BY <1>6, <1>8, <1>9 DEF Sound
<1>. QED  BY <1>4, <1>10 DEF d, r, o, args, t

\* A constructor, destructor or __clone called when the class has it.
LEMMA MagicKeeps ==
    ASSUME NEW h, NEW c, TableOK(classes), Sound(h, c, DOMAIN classes), NEW o \in BornIn(h), NEW name
    PROVE  Sound(Magic(h, o, name, c).heap, Magic(h, o, name, c).control, DOMAIN classes)
<1> DEFINE N == DOMAIN classes
           m == Get(classes[h[o].cls].hMethod, name)
<1>1. CASE m = Nil
    BY <1>1 DEF Magic
<1>2. CASE m # Nil
    <2>1. o \in Objects /\ HeapOK(h, BornIn(h), N)
        BY DEF BornIn, Sound
    <2>2. h[o].cls \in N
        BY <2>1, InstanceFields
    <2>3. classes[h[o].cls].hMethod \in Seq(MethodInfo(N))
        BY <2>2, ClassFields
    <2>4. m \in MethodInfo(N)
        BY <1>2, <2>3, GetIn
    <2>5. Sound(LentTo(h, o, m), Frame(h, o, m, <<>>) \o c, N)
        BY <2>4, FramePushed
    <2>6. Magic(h, o, name, c).heap = LentTo(h, o, m) /\ Magic(h, o, name, c).control = Frame(h, o, m, <<>>) \o c
        BY <1>2 DEF Magic
    <2>. QED  BY <2>5, <2>6
<1>. QED  BY <1>1, <1>2

\* An item that holds nothing and lends nothing.
LEMMA NeutralOnTop ==
    ASSUME NEW h, NEW c, NEW N, Sound(h, c, N), NEW t \in Item(BornIn(h), N),
           t.kind \in {"free", "dispose"}
    PROVE  Sound(h, <<t>> \o c, N)
<1> DEFINE B == BornIn(h)
           d == <<t>> \o c
<1>1. StackOK(c, B, N) /\ Stackable(t, c)
    BY DEF Sound, Stackable
<1>2. \A x : Held(t, x) = 0 /\ ~ LendsOn(t, x)
    BY DEF Held, LendsOn
<1> HIDE DEF d
<1>3. /\ StackOK(d, B, N)
      /\ \A x : /\ HeldIn(d, x) = Held(t, x) + HeldIn(c, x)
                /\ HeldIn(c, x) \in Nat
      /\ \A x, b, k : Lent(d, x, b, k) <=> Lent(c, x, b, k)
    BY <1>1, <1>2, ItemOnTop DEF d
<1>4. \A x \in Objects : HeldIn(d, x) = HeldIn(c, x)
    BY <1>2, <1>3
<1>5. Sound(h, d, N)
    BY <1>3, <1>4, Reheld
<1>. QED  BY <1>5 DEF d

\* The last reference dropped.
LEMMA DieKeeps ==
    ASSUME NEW h, NEW c, NEW N, Sound(h, c, N), c # <<>>, Head(c).kind = "unref", NEW n \in Int
    PROVE  LET o == Head(c).obj
               g == Put(h, o, Altered(h[o], n, "destroyed", h[o].cls))
           IN  /\ Sound(g, <<Free(o)>> \o Tail(c), N)
               /\ o \in BornIn(g) /\ o \in Objects /\ h[o] \in Instance(BornIn(h), N)
               /\ h \in [Objects -> Instance(BornIn(h), N)]
<1> DEFINE B == BornIn(h)
           t == Head(c)
           o == t.obj
           k == h[o].cls
           i == Altered(h[o], n, "destroyed", k)
           g == Put(h, o, i)
<1>1. StackOK(c, B, N) /\ HeapOK(h, B, N)
    BY DEF Sound
<1>2. o \in B /\ o \in Objects
    <2>1. t \in Item(B, N)
        BY <1>1, Popped
    <2>. QED  BY <2>1, ItemFields DEF BornIn
<1>3. h[o] \in Instance(B, N) /\ h \in [Objects -> Instance(B, N)] /\ k \in N
    BY <1>1, <1>2, InstanceFields
<1> HIDE DEF k
<1>5. /\ Follows(h, g, N) /\ i.state = "destroyed"
      /\ \A p \in Objects : (p # o => g[p] = h[p]) /\ (p = o => g[p] = i)
    BY <1>1, <1>2, <1>3, AlteredFollows
<1> HIDE DEF i, g
<1>6. \A p \in Objects : g[p].state = "live" =>
               /\ g[p].iRef = h[p].iRef - Held(t, p)
               /\ g[p].cls = IF LendsOn(t, p) THEN t.back ELSE h[p].cls
    <2> SUFFICES ASSUME NEW p \in Objects, g[p].state = "live"
                 PROVE  g[p].iRef = h[p].iRef - Held(t, p) /\ g[p].cls = IF LendsOn(t, p) THEN t.back ELSE h[p].cls
        OBVIOUS
    <2>1. p # o /\ g[p] = h[p]
        BY <1>5
    <2>2. Held(t, p) = 0 /\ ~ LendsOn(t, p)
        BY <2>1 DEF Held, LendsOn
    <2>3. h[p].iRef \in Int
        BY <1>1, InstanceFields
    <2>. QED  BY <2>1, <2>2, <2>3
<1>7. Sound(g, Tail(c), N)
    BY <1>5, <1>6, TopDone
<1>8. BornIn(g) = B
    BY <1>1, <1>5, FollowsOK
<1>9. Free(o) \in Item(BornIn(g), N) /\ Free(o).kind = "free"
    BY <1>2, <1>8, ItemsMade DEF Free
<1>10. Sound(g, <<Free(o)>> \o Tail(c), N)
    BY <1>7, <1>9, NeutralOnTop
<1>. QED  BY <1>2, <1>3, <1>8, <1>10 DEF g, i, k

-----------------------------------------------------------------------------
(* Attributes that change.                                                  *)

WithAttrs(i, a) == [i EXCEPT !.attrs = a]

Recast(h, g, o, a, N) ==
    /\ HeapOK(g, BornIn(h), N) /\ BornIn(g) = BornIn(h)
    /\ \A p \in Objects : /\ g[p].cls = h[p].cls /\ g[p].born = h[p].born
                          /\ g[p].state = h[p].state /\ g[p].iRef = h[p].iRef
    /\ \A x : /\ Cardinality(CellsTo(g, x)) + RefsIn(Vals(h[o].attrs), x)
                    = Cardinality(CellsTo(h, x)) + RefsIn(Vals(a), x)
              /\ Cardinality(CellsTo(g, x)) \in Nat /\ Cardinality(CellsTo(h, x)) \in Nat

\* An object with other attributes.
LEMMA AttrsChanged ==
    ASSUME NEW h, NEW N, HeapOK(h, BornIn(h), N), NEW o \in BornIn(h),
           NEW a \in Seq(Attribute(BornIn(h), N))
    PROVE  Recast(h, Put(h, o, WithAttrs(h[o], a)), o, a, N)
<1> DEFINE B == BornIn(h)
           i == WithAttrs(h[o], a)
           g == Put(h, o, i)
<1>1. o \in Objects /\ h[o].state # "unborn"
    BY DEF BornIn
<1>2. h[o] \in Instance(B, N) /\ h \in [Objects -> Instance(B, N)]
      /\ \A p \in Objects : p \in B => {h[p].cls, h[p].born} \subseteq N
    BY <1>1 DEF HeapOK
<1>b. \A p \in Objects : p \in B <=> h[p].state # "unborn"
    BY DEF BornIn
<1>h. \A p \in Objects : p \notin B => h[p].attrs = <<>>
    BY DEF HeapOK
<1>o. o \in B /\ a \in Seq(Attribute(B, N))
    OBVIOUS
<1> HIDE DEF B
<1>3. /\ i \in Instance(B, N) /\ i.attrs = a
      /\ i.cls = h[o].cls /\ i.born = h[o].born /\ i.state = h[o].state /\ i.iRef = h[o].iRef
    BY <1>2, <1>o DEF WithAttrs, Instance
<1> HIDE DEF i
<1>4. g \in [Objects -> Instance(B, N)] /\ g[o] = i /\ \A p \in Objects : p # o => g[p] = h[p]
    BY <1>1, <1>2, <1>3 DEF Put
<1> HIDE DEF g
<1>5. \A p \in Objects : /\ g[p].cls = h[p].cls /\ g[p].born = h[p].born
                         /\ g[p].state = h[p].state /\ g[p].iRef = h[p].iRef
    BY <1>3, <1>4
<1>6. BornIn(g) = B
    <2>1. \A p \in Objects : p \in BornIn(g) <=> p \in B
        BY <1>5, <1>b DEF BornIn
    <2>. QED  BY <2>1 DEF BornIn, B
<1>7. HeapOK(g, B, N)
    <2>1. \A p \in Objects : IF p \in B THEN {g[p].cls, g[p].born} \subseteq N ELSE g[p].attrs = <<>>
        BY <1>2, <1>4, <1>5, <1>h, <1>o
    <2>. QED  BY <1>4, <2>1 DEF HeapOK
<1>8. \A p \in Objects : p # o => g[p].attrs = h[p].attrs
    BY <1>4
<1>9. ASSUME NEW x
      PROVE  /\ Cardinality(CellsTo(g, x)) + RefsIn(Vals(h[o].attrs), x)
                    = Cardinality(CellsTo(h, x)) + RefsIn(Vals(g[o].attrs), x)
             /\ Cardinality(CellsTo(g, x)) \in Nat /\ Cardinality(CellsTo(h, x)) \in Nat
    BY <1>1, <1>2, <1>4, <1>8, CellsChanged
<1>10. g[o].attrs = a
    BY <1>3, <1>4
<1>11. Recast(h, g, o, a, N)
    BY <1>5, <1>6, <1>7, <1>9, <1>10 DEF Recast, B
<1>. QED  BY <1>11 DEF g, i

\* The attributes of an object that is released.
LEMMA FreeKeeps ==
    ASSUME NEW h, NEW c, NEW N, Sound(h, c, N), c # <<>>, Head(c).kind = "free"
    PROVE  Sound([h EXCEPT ![Head(c).obj].attrs = <<>>],
                 Unrefs(Vals(h[Head(c).obj].attrs)) \o (<<Dispose(Head(c).obj)>> \o Tail(c)), N)
<1> DEFINE B == BornIn(h)
           t == Head(c)
           r == Tail(c)
           o == t.obj
           vals == Vals(h[o].attrs)
           e == Dispose(o)
           m == <<e>> \o r
           d == Unrefs(vals) \o m
           g == Put(h, o, WithAttrs(h[o], <<>>))
<1>1. StackOK(c, B, N) /\ HeapOK(h, B, N)
    BY DEF Sound
<1>2. t \in Item(B, N) /\ StackOK(r, B, N)
    BY <1>1, Popped
<1>3. o \in B /\ o \in Objects
    BY <1>2, ItemFields DEF BornIn
<1>4. vals \in Seq(Value(B)) /\ Nil \notin B
    BY <1>1, <1>3, InstanceFields, BornFacts
<1>5. [h EXCEPT ![o].attrs = <<>>] = g
    BY DEF Put, WithAttrs
<1>t. \A x : Held(t, x) = 0 /\ ~ LendsOn(t, x)
    BY DEF Held, LendsOn
<1> HIDE DEF vals, m, d, g, e
<1>b. \A x : HeldIn(c, x) = Held(t, x) + HeldIn(r, x) /\ HeldIn(r, x) \in Nat
    <2> HIDE DEF B
    <2> SUFFICES ASSUME NEW x PROVE HeldIn(c, x) = Held(t, x) + HeldIn(r, x) /\ HeldIn(r, x) \in Nat
        OBVIOUS
    <2>. QED  BY <1>1, HeldBelow
<1>l. \A x, b, k : Lent(c, x, b, k) <=> Lent(r, x, b, k)
    <2> HIDE DEF B
    <2> SUFFICES ASSUME NEW x, NEW b, NEW k PROVE Lent(c, x, b, k) <=> Lent(r, x, b, k)
        OBVIOUS
    <2>. QED  BY <1>1, <1>t, LentBelow
<1>6. e \in Item(B, N) /\ e.kind = "dispose"
    BY <1>3, ItemsMade DEF e, Dispose
<1> HIDE DEF t, o, r
<1>7. Stackable(e, r) /\ \A x : Held(e, x) = 0 /\ ~ LendsOn(e, x)
    BY <1>6 DEF Stackable, Held, LendsOn
<1>8. /\ StackOK(m, B, N)
      /\ \A x : /\ HeldIn(m, x) = Held(e, x) + HeldIn(r, x)
                /\ HeldIn(r, x) \in Nat
      /\ \A x, b, k : Lent(m, x, b, k) <=> Lent(r, x, b, k)
    BY <1>2, <1>6, <1>7, ItemOnTop DEF m
<1>9. /\ StackOK(d, B, N)
      /\ \A y : y # Nil => HeldIn(d, y) = RefsIn(vals, y) + HeldIn(m, y)
      /\ \A y, b, k : Lent(d, y, b, k) <=> Lent(m, y, b, k)
    BY <1>4, <1>8, UnrefsOnTop DEF d
<1>10. <<>> \in Seq(Attribute(B, N)) /\ Vals(<<>>) = <<>>
    BY DEF Vals
<1>11. Recast(h, g, o, <<>>, N)
    BY <1>1, <1>3, <1>10, AttrsChanged DEF g
<1>12. /\ HeapOK(g, B, N) /\ BornIn(g) = B
       /\ \A p \in Objects : /\ g[p].cls = h[p].cls /\ g[p].born = h[p].born
                             /\ g[p].state = h[p].state /\ g[p].iRef = h[p].iRef
       /\ \A x : /\ Cardinality(CellsTo(g, x)) + RefsIn(vals, x)
                       = Cardinality(CellsTo(h, x)) + RefsIn(Vals(<<>>), x)
                 /\ Cardinality(CellsTo(g, x)) \in Nat /\ Cardinality(CellsTo(h, x)) \in Nat
    BY <1>11 DEF Recast, vals
<1> HIDE DEF B
<1>13. ASSUME NEW x \in Objects, g[x].state = "live" PROVE Balanced(g, d, x)
    <2>0. h[x].state = "live" /\ x # Nil
        BY <1>12, <1>13, ObjectsAssumption
    <2>1. /\ HeldIn(c, x) \in Nat /\ Cardinality(CellsTo(h, x)) \in Nat
          /\ h[x].iRef = HeldIn(c, x) + Cardinality(CellsTo(h, x))
          /\ Lent(c, x, h[x].born, h[x].cls)
        BY <2>0, SoundFacts
    <2>2. RefsIn(Vals(<<>>), x) = 0
        BY <1>10, RefsInNone
    <2>3. RefsIn(vals, x) \in Nat
        BY <1>4, RefsFinite
    <2>4. HeldIn(d, x) = RefsIn(vals, x) + HeldIn(c, x)
        <3>1. HeldIn(d, x) = RefsIn(vals, x) + HeldIn(m, x)
            BY <1>9, <2>0
        <3>2. HeldIn(m, x) = HeldIn(r, x) /\ HeldIn(c, x) = HeldIn(r, x)
            BY <1>7, <1>8, <1>b, <1>t
        <3>. QED  BY <3>1, <3>2
    <2>5. Lent(d, x, g[x].born, g[x].cls)
        BY <1>8, <1>9, <1>l, <1>12, <2>1
    <2>6. g[x].iRef = HeldIn(d, x) + Cardinality(CellsTo(g, x))
        BY <1>12, <2>1, <2>2, <2>3, <2>4
    <2>. QED  BY <2>5, <2>6 DEF Balanced
<1>14. Sound(g, d, N)
    BY <1>9, <1>12, <1>13 DEF Sound
<1>. QED  BY <1>5, <1>14 DEF d, m, e, vals, o, t, r

\* An attribute that is set: the value counted, the old one dropped.
WithVal(attr, w) == [attr EXCEPT !.val = w]

\* An attribute set: the new value is counted, the reference of the old one is
\* left to be dropped.
LEMMA SetKeeps ==
    ASSUME NEW h, NEW c, NEW N, Sound(h, c, N), NEW o \in BornIn(h), NEW cell \in DOMAIN h[o].attrs,
           NEW w \in Value(BornIn(h))
    PROVE  Sound(AddRefs(Put(h, o, WithAttrs(h[o],
                                Put(h[o].attrs, cell, WithVal(h[o].attrs[cell], w)))), <<w>>),
                 Unrefs(<<h[o].attrs[cell].val>>) \o c, N)
<1> DEFINE B == BornIn(h)
           attrs == h[o].attrs
           old == attrs[cell].val
           n == WithVal(attrs[cell], w)
           a == Put(attrs, cell, n)
           g == Put(h, o, WithAttrs(h[o], a))
           ws == <<w>>
           k == AddRefs(g, ws)
           d == Unrefs(<<old>>) \o c
<1>1. StackOK(c, B, N) /\ HeapOK(h, B, N) /\ o \in Objects
    BY DEF Sound, BornIn
<1>2. attrs \in Seq(Attribute(B, N)) /\ cell \in DOMAIN attrs
    BY <1>1, InstanceFields
<1>3. attrs[cell] \in Attribute(B, N)
    <2> DEFINE A == Attribute(B, N)
    <2> HIDE DEF A, attrs
    <2>. QED  BY <1>2 DEF A
<1>4. old \in Value(B) /\ n \in Attribute(B, N) /\ n.val = w
    <2> HIDE DEF attrs
    <2>. QED  BY <1>3 DEF Attribute, WithVal
<1> HIDE DEF attrs, old, n
<1>5. a \in Seq(Attribute(B, N)) /\ DOMAIN a = DOMAIN attrs
      /\ \A j \in DOMAIN attrs : a[j] = IF j = cell THEN n ELSE attrs[j]
    <2> DEFINE A == Attribute(B, N)
    <2> HIDE DEF A, B
    <2>. QED  BY <1>2, <1>4 DEF A, Put
<1> HIDE DEF a
<1>6. Vals(attrs) \in Seq(Value(B)) /\ cell \in DOMAIN Vals(attrs) /\ Vals(attrs)[cell] = old
    BY <1>1, <1>2, InstanceFields DEF Vals, attrs, old
<1>7. Vals(a) = Put(Vals(attrs), cell, w)
    BY <1>4, <1>5 DEF Vals, Put
<1>8. ASSUME NEW x PROVE RefsIn(Vals(attrs), x) + To(w, x) = RefsIn(Vals(a), x) + To(old, x)
    <2> DEFINE s == Vals(attrs)
               u == Vals(a)
               V == Value(B)
    <2>1. u = Put(s, cell, w)
        BY <1>7
    <2>2. s \in Seq(V) /\ cell \in DOMAIN s /\ s[cell] = old
        BY <1>6
    <2> HIDE DEF s, u, V
    <2>3. RefsIn(s, x) + To(w, x) = RefsIn(u, x) + To(s[cell], x)
        BY <2>1, <2>2, RefsPut
    <2>. QED  BY <2>2, <2>3 DEF s, u
<1>9. Recast(h, g, o, a, N)
    BY <1>1, <1>5, AttrsChanged
<1> HIDE DEF g
<1>10. /\ HeapOK(g, B, N) /\ BornIn(g) = B
       /\ \A p \in Objects : /\ g[p].cls = h[p].cls /\ g[p].born = h[p].born
                             /\ g[p].state = h[p].state /\ g[p].iRef = h[p].iRef
       /\ \A x : /\ Cardinality(CellsTo(g, x)) + RefsIn(Vals(attrs), x)
                       = Cardinality(CellsTo(h, x)) + RefsIn(Vals(a), x)
                 /\ Cardinality(CellsTo(g, x)) \in Nat /\ Cardinality(CellsTo(h, x)) \in Nat
    BY <1>9 DEF Recast, attrs
<1>11. ws \in Seq(Value(B)) /\ <<old>> \in Seq(Value(B)) /\ Nil \notin B /\ w \in Value(B)
    BY <1>4, BornFacts
<1> HIDE DEF B, ws
<1>12. /\ HeapOK(k, B, N) /\ BornIn(k) = BornIn(g)
       /\ \A p \in Objects : /\ k[p].cls = g[p].cls /\ k[p].born = g[p].born
                             /\ k[p].attrs = g[p].attrs /\ k[p].state = g[p].state
                             /\ k[p].iRef = g[p].iRef + RefsIn(ws, p)
    BY <1>10, <1>11, AddedRefs
<1> HIDE DEF k, d
<1>13. /\ StackOK(d, B, N)
       /\ \A y : y # Nil => HeldIn(d, y) = RefsIn(<<old>>, y) + HeldIn(c, y)
       /\ \A y, b, z : Lent(d, y, b, z) <=> Lent(c, y, b, z)
    BY <1>1, <1>11, UnrefsOnTop DEF d
<1>14. ASSUME NEW x \in Objects, k[x].state = "live" PROVE Balanced(k, d, x)
    <2>0. h[x].state = "live" /\ x # Nil /\ \A p \in Objects : k[p].attrs = g[p].attrs
        BY <1>10, <1>12, <1>14, ObjectsAssumption
    <2>1. /\ HeldIn(c, x) \in Nat /\ Cardinality(CellsTo(h, x)) \in Nat
          /\ h[x].iRef = HeldIn(c, x) + Cardinality(CellsTo(h, x))
          /\ Lent(c, x, h[x].born, h[x].cls)
        BY <2>0, SoundFacts
    <2>2. CellsTo(k, x) = CellsTo(g, x)
        BY <2>0, SameCells
    <2>3. RefsIn(ws, x) = To(w, x) /\ RefsIn(<<old>>, x) = To(old, x)
        BY RefsInOne DEF ws
    <2>4. HeldIn(d, x) = To(old, x) + HeldIn(c, x)
        BY <1>13, <2>0, <2>3
    <2>5. k[x].iRef = h[x].iRef + To(w, x)
        BY <1>10, <1>12, <2>3
    <2>6. RefsIn(Vals(attrs), x) \in Nat
        BY <1>6, RefsFinite
    <2>7. Vals(a) \in Seq(Value(B)) /\ RefsIn(Vals(a), x) \in Nat
        <3>1. Vals(a) \in Seq(Value(B))
            <4> DEFINE V == Value(B)
            <4> HIDE DEF V
            <4>. QED  BY <1>6, <1>7, <1>11 DEF Put, V
        <3>. QED  BY <3>1, RefsFinite
    <2>8. To(w, x) \in Nat /\ To(old, x) \in Nat
        BY DEF To
    <2>a. /\ RefsIn(Vals(attrs), x) + To(w, x) = RefsIn(Vals(a), x) + To(old, x)
          /\ Cardinality(CellsTo(g, x)) + RefsIn(Vals(attrs), x)
                 = Cardinality(CellsTo(h, x)) + RefsIn(Vals(a), x)
          /\ Cardinality(CellsTo(g, x)) \in Nat
        BY <1>8, <1>10
    <2>b. Cardinality(CellsTo(g, x)) + To(old, x) = Cardinality(CellsTo(h, x)) + To(w, x)
        <3> DEFINE gx == Cardinality(CellsTo(g, x))
                   hx == Cardinality(CellsTo(h, x))
                   wx == To(w, x)
                   ox == To(old, x)
                   ra == RefsIn(Vals(attrs), x)
                   rb == RefsIn(Vals(a), x)
        <3>1. gx \in Nat /\ hx \in Nat /\ wx \in Nat /\ ox \in Nat /\ ra \in Nat /\ rb \in Nat
            BY <2>1, <2>6, <2>7, <2>8, <2>a
        <3>2. ra + wx = rb + ox /\ gx + ra = hx + rb
            BY <2>a
        <3> HIDE DEF gx, hx, wx, ox, ra, rb
        <3>3. gx + ox = hx + wx
            BY <3>1, <3>2
        <3>. QED  BY <3>3 DEF gx, hx, wx, ox
    <2>9. k[x].iRef = HeldIn(d, x) + Cardinality(CellsTo(k, x))
        BY <2>1, <2>2, <2>4, <2>5, <2>8, <2>a, <2>b
    <2>10. Lent(d, x, k[x].born, k[x].cls)
        BY <1>10, <1>12, <1>13, <2>1
    <2>. QED  BY <2>9, <2>10 DEF Balanced
<1>15. Sound(k, d, N)
    BY <1>10, <1>12, <1>13, <1>14 DEF Sound
<1>. QED  BY <1>15 DEF k, ws, d, g, a, n, old, attrs

-----------------------------------------------------------------------------
(* Objects that are created.                                                *)

\* Values that do not refer to an object.
LEMMA NoRefs ==
    ASSUME NEW vals, NEW x, \A i \in DOMAIN vals : vals[i].ref # x
    PROVE  RefsIn(vals, x) = 0
<1>1. {i \in DOMAIN vals : vals[i].ref = x} = {}
    OBVIOUS
<1>. QED  BY <1>1, FS_EmptySet DEF RefsIn

\* Values that refer to nothing add nothing.
LEMMA AddNothing ==
    ASSUME NEW B, NEW N, NEW h, HeapOK(h, B, N), NEW vals, \A x \in Objects : RefsIn(vals, x) = 0
    PROVE  AddRefs(h, vals) = h
<1>1. h \in [Objects -> Instance(B, N)]
    BY DEF HeapOK
<1>2. ASSUME NEW o \in Objects PROVE [h[o] EXCEPT !.iRef = @ + RefsIn(vals, o)] = h[o]
    <2>1. h[o].iRef \in Int /\ h[o].iRef + RefsIn(vals, o) = h[o].iRef
        BY <1>1 DEF Instance
    <2>. QED  BY <1>1, <2>1 DEF Instance
<1>. QED  BY <1>1, <1>2 DEF AddRefs

\* References added at once or one after the other.
LEMMA AddInTwo ==
    ASSUME NEW B, NEW N, NEW h, HeapOK(h, B, N), NEW V, NEW v \in V, NEW vals \in Seq(V)
    PROVE  AddRefs(h, <<v>> \o vals) = AddRefs(AddRefs(h, vals), <<v>>)
<1>1. h \in [Objects -> Instance(B, N)]
    BY DEF HeapOK
<1> DEFINE ws == <<v>> \o vals
           us == <<v>>
           g == AddRefs(h, vals)
<1>2. ASSUME NEW o \in Objects PROVE [g[o] EXCEPT !.iRef = @ + RefsIn(us, o)] = [h[o] EXCEPT !.iRef = @ + RefsIn(ws, o)]
    <2> DEFINE i == h[o]
               a == RefsIn(vals, o)
               b == RefsIn(us, o)
               e == RefsIn(ws, o)
    <2>1. RefsIn(ws, o) = To(v, o) + RefsIn(vals, o) /\ RefsIn(us, o) = To(v, o)
          /\ RefsIn(vals, o) \in Nat /\ To(v, o) \in Nat
        <3>1. RefsIn(<<v>> \o vals, o) = To(v, o) + RefsIn(vals, o)
            BY RefsOnTop
        <3>2. RefsIn(<<v>>, o) = To(v, o)
            BY RefsInOne
        <3>3. RefsIn(vals, o) \in Nat
            BY RefsFinite
        <3>4. To(v, o) \in Nat
            BY DEF To
        <3>. QED  BY <3>1, <3>2, <3>3, <3>4
    <2>2. i \in Instance(B, N) /\ i.iRef \in Int
        BY <1>1 DEF Instance
    <2>3. (i.iRef + a) + b = i.iRef + e
        BY <2>1, <2>2
    <2>4. g[o] = [i EXCEPT !.iRef = i.iRef + a]
        BY DEF AddRefs
    <2> DEFINE y == [i EXCEPT !.iRef = i.iRef + a]
    <2>5. y.iRef = i.iRef + a
        <3> HIDE DEF a, i
        <3>. QED  BY <2>2 DEF Instance
    <2>6. [y EXCEPT !.iRef = i.iRef + e] = [i EXCEPT !.iRef = i.iRef + e]
        <3> HIDE DEF a, e, i
        <3>. QED  BY <2>2 DEF Instance
    <2>7. [y EXCEPT !.iRef = @ + b] = [i EXCEPT !.iRef = @ + e]
        <3> HIDE DEF a, b, e, i, y
        <3>. QED  BY <2>3, <2>5, <2>6
    <2>. QED  BY <2>4, <2>7
<1>. QED  BY <1>2 DEF AddRefs

\* The new object joins the heap, with what refers to it on the stack d.
LEMMA Created ==
    ASSUME NEW h, NEW c, NEW N, Sound(h, c, N), NEW o \in Objects, h[o].state = "unborn",
           NEW i \in Instance(BornIn(h) \cup {o}, N), i.cls \in N, i.born = i.cls, i.state = "live",
           NEW d, StackOK(d, BornIn(h) \cup {o}, N),
           \A x \in Objects : HeldIn(d, x) = HeldIn(c, x) + (IF o = x THEN i.iRef ELSE 0),
           \A x, b, k : Lent(c, x, b, k) => Lent(d, x, b, k)
    PROVE  Sound(AddRefs(Put(h, o, i), Vals(i.attrs)), d, N)
<1> DEFINE B == BornIn(h)
           A == B \cup {o}
           g == Put(h, o, i)
           vals == Vals(i.attrs)
           k == AddRefs(g, vals)
<1>1. /\ StackOK(c, B, N) /\ HeapOK(h, B, N) /\ h \in [Objects -> Instance(B, N)]
      /\ o # Nil /\ o \notin B /\ h[o].attrs = <<>> /\ i.iRef \in Int
    BY ObjectsAssumption DEF Sound, BornIn, HeapOK, Instance
<1>2. h \in [Objects -> Instance(A, N)]
    <2>1. Instance(B, N) \subseteq Instance(A, N)
        BY MoreObjects
    <2>. QED  BY <1>1, <2>1
<1>3. c \in Seq(Item(B, N))
    BY <1>1 DEF StackOK
<1>i. i \in Instance(A, N) /\ i.attrs \in Seq(Attribute(A, N)) /\ vals \in Seq(Value(A))
    <2>1. i.attrs \in Seq(Attribute(A, N))
        BY DEF Instance
    <2> DEFINE T == Attribute(A, N)
               V == Value(A)
               s == i.attrs
    <2>2. \A t \in T : t.val \in V
        BY DEF Attribute
    <2> HIDE DEF T, V, s
    <2>3. s \in Seq(T)
        BY <2>1 DEF s, T
    <2>4. Vals(s) \in Seq(V)
        BY <2>2, <2>3 DEF Vals
    <2>. QED  BY <2>1, <2>4 DEF V, s
<1>d. StackOK(d, A, N)
    OBVIOUS
<1>b. \A p \in Objects : (p \in B <=> h[p].state # "unborn") /\ (p \in A <=> p \in B \/ p = o)
    BY DEF BornIn
<1>h. \A p \in Objects : IF p \in B THEN {h[p].cls, h[p].born} \subseteq N ELSE h[p].attrs = <<>>
    BY <1>1 DEF HeapOK
<1> HIDE DEF A, vals
<1>4. g \in [Objects -> Instance(A, N)] /\ g[o] = i /\ \A p \in Objects : p # o => g[p] = h[p]
    BY <1>2, <1>i DEF Put
<1> HIDE DEF B, g
<1>5. BornIn(g) = A
    <2>1. \A p \in Objects : p \in BornIn(g) <=> p \in A
        BY <1>4, <1>b DEF BornIn
    <2>2. A \subseteq Objects /\ BornIn(g) \subseteq Objects
        BY DEF A, B, BornIn
    <2>. QED  BY <2>1, <2>2
<1>6. HeapOK(g, A, N)
    <2>1. \A p \in Objects : IF p \in A THEN {g[p].cls, g[p].born} \subseteq N ELSE g[p].attrs = <<>>
        BY <1>4, <1>b, <1>h
    <2>. QED  BY <1>4, <2>1 DEF HeapOK
<1>7. /\ HeapOK(k, A, N) /\ BornIn(k) = BornIn(g)
      /\ \A p \in Objects : /\ k[p].cls = g[p].cls /\ k[p].born = g[p].born
                            /\ k[p].attrs = g[p].attrs /\ k[p].state = g[p].state
                            /\ k[p].iRef = g[p].iRef + RefsIn(vals, p)
    BY <1>6, <1>i, AddedRefs
<1> HIDE DEF k
<1>8. ASSUME NEW x
      PROVE  /\ Cardinality(CellsTo(g, x)) = Cardinality(CellsTo(h, x)) + RefsIn(vals, x)
             /\ Cardinality(CellsTo(h, x)) \in Nat
    <2>1. \A p \in Objects : p # o => g[p].attrs = h[p].attrs
        BY <1>4
    <2>2. /\ Cardinality(CellsTo(g, x)) + RefsIn(Vals(h[o].attrs), x)
                    = Cardinality(CellsTo(h, x)) + RefsIn(Vals(g[o].attrs), x)
          /\ Cardinality(CellsTo(g, x)) \in Nat /\ Cardinality(CellsTo(h, x)) \in Nat
        BY <1>1, <1>4, <2>1, CellsChanged
    <2>3. RefsIn(Vals(h[o].attrs), x) = 0
        <3>1. Vals(h[o].attrs) = <<>>
            BY <1>1 DEF Vals
        <3>. QED  BY <3>1, RefsInNone
    <2>4. Vals(g[o].attrs) = vals
        BY <1>4 DEF vals
    <2>. QED  BY <2>2, <2>3, <2>4
<1>9. ASSUME NEW x \in Objects, k[x].state = "live" PROVE Balanced(k, d, x)
    <2>1. CellsTo(k, x) = CellsTo(g, x)
        BY <1>7, SameCells
    <2>2. RefsIn(vals, x) \in Nat
        BY <1>i, RefsFinite
    <2>3. HeldIn(c, x) \in Nat
        BY SoundFacts
    <2>4. CASE x = o
        <3>1. HeldIn(c, o) = 0
            BY <1>1, <1>3, NotHeld
        <3>2. Cardinality(CellsTo(h, o)) = 0
            BY <1>1, NoCells
        <3>3. Lent(c, o, i.born, i.cls)
            BY <1>1, <1>3, NotHeld
        <3>4. k[o].cls = i.cls /\ k[o].born = i.born /\ k[o].iRef = i.iRef + RefsIn(vals, o)
            BY <1>4, <1>7
        <3>5. Lent(d, o, k[o].born, k[o].cls)
            BY <3>3, <3>4
        <3>6. HeldIn(d, o) = i.iRef
            BY <1>1, <3>1
        <3>7. k[o].iRef = HeldIn(d, o) + Cardinality(CellsTo(k, o))
            BY <1>1, <1>8, <2>1, <2>2, <2>4, <3>2, <3>4, <3>6
        <3>. QED  BY <2>4, <3>5, <3>7 DEF Balanced
    <2>5. CASE x # o
        <3>1. /\ k[x].cls = h[x].cls /\ k[x].born = h[x].born /\ k[x].iRef = h[x].iRef + RefsIn(vals, x)
              /\ h[x].state = "live"
            BY <1>4, <1>7, <1>9, <2>5
        <3>2. h[x].iRef = HeldIn(c, x) + Cardinality(CellsTo(h, x)) /\ Lent(c, x, h[x].born, h[x].cls)
            BY <3>1, SoundFacts
        <3>3. HeldIn(d, x) = HeldIn(c, x)
            BY <2>3, <2>5
        <3>4. Lent(d, x, k[x].born, k[x].cls)
            BY <3>1, <3>2
        <3>5. k[x].iRef = HeldIn(d, x) + Cardinality(CellsTo(k, x))
            BY <1>8, <2>1, <2>2, <2>3, <3>1, <3>2, <3>3
        <3>. QED  BY <3>4, <3>5 DEF Balanced
    <2>. QED  BY <2>4, <2>5
<1>10. Sound(k, d, N)
    BY <1>5, <1>7, <1>9, <1>d DEF Sound
<1>. QED  BY <1>10 DEF k, g, vals

\* A new instance is of its class, counts one, and refers to nothing.
LEMMA FreshInstance ==
    ASSUME TableOK(classes), NEW c \in DOMAIN classes, NEW B
    PROVE  /\ NewInstance(c) \in Instance(B, DOMAIN classes)
           /\ NewInstance(c).cls = c /\ NewInstance(c).born = c /\ NewInstance(c).iRef = 1
           /\ NewInstance(c).state = "live"
           /\ NewInstance(c).attrs \in Seq(Attribute(B, DOMAIN classes))
           /\ \A x \in Objects : RefsIn(Vals(NewInstance(c).attrs), x) = 0
<1> DEFINE N == DOMAIN classes
           S == AttrInfo(N)
           T == Attribute(B, N)
           list == Reverse(classes[c].hAttr)
           Made(e) == [cls |-> e.cls, name |-> e.name, access |-> e.access,
                       const |-> e.const, val |-> Datum(e.init)]
           attrs == InstanceAttrs(c)
<1>1. classes[c].hAttr \in Seq(S)
    BY ClassFields
<1>2. list \in Seq(S)
    <2> HIDE DEF S
    <2>. QED  BY <1>1, ReverseIn
<1>3. ASSUME NEW e \in S PROVE Made(e) \in T /\ Made(e).val.ref = Nil
    <2>1. e.init \in STRING /\ e.cls \in N /\ e.name \in STRING /\ e.access \in Accesses /\ e.const \in BOOLEAN
        BY DEF AttrInfo
    <2>2. Datum(e.init) \in Value(B) /\ Datum(e.init).ref = Nil
        BY <2>1 DEF Datum, Null, Value, Marks
    <2>. QED  BY <2>1, <2>2 DEF Attribute
<1>4. attrs = [j \in DOMAIN list |-> Made(list[j])]
    BY DEF InstanceAttrs
<1> HIDE DEF S, T, list, Made, attrs
<1>5. \A j \in DOMAIN list : list[j] \in S
    BY <1>2
<1>6. attrs \in Seq(T) /\ DOMAIN attrs = DOMAIN list /\ \A j \in DOMAIN list : attrs[j].val.ref = Nil
    BY <1>2, <1>3, <1>4, <1>5
<1>7. ASSUME NEW x \in Objects PROVE RefsIn(Vals(attrs), x) = 0
    <2>1. x # Nil
        BY ObjectsAssumption
    <2>2. \A j \in DOMAIN Vals(attrs) : Vals(attrs)[j].ref # x
        BY <1>6, <2>1 DEF Vals
    <2>. QED  BY <2>2, NoRefs
<1>8. NewInstance(c) = [cls |-> c, born |-> c, iRef |-> 1, attrs |-> attrs, state |-> "live"]
    BY DEF NewInstance, attrs
<1>9. NewInstance(c) \in Instance(B, N)
    BY <1>6, <1>8 DEF Instance, T
<1>. QED  BY <1>6, <1>7, <1>8, <1>9 DEF T

\* An object of a class, and what the stack has to do with it.
LEMMA NewKeeps ==
    ASSUME TableOK(classes), NEW h, NEW c, Sound(h, c, DOMAIN classes), NEW k \in DOMAIN classes,
           NEW o \in Objects, h[o].state = "unborn",
           NEW t \in Item(BornIn(h) \cup {o}, DOMAIN classes), Stackable(t, c),
           t.kind \in {"store", "send"},
           \A x \in Objects : Held(t, x) = IF o = x THEN 1 ELSE 0
    PROVE  Sound(Put(h, o, NewInstance(k)), <<t>> \o c, DOMAIN classes)
<1> DEFINE N == DOMAIN classes
           B == BornIn(h)
           A == B \cup {o}
           i == NewInstance(k)
           d == <<t>> \o c
           g == Put(h, o, i)
<1>1. /\ i \in Instance(A, N) /\ i.cls = k /\ i.born = k /\ i.iRef = 1 /\ i.state = "live"
      /\ \A x \in Objects : RefsIn(Vals(i.attrs), x) = 0
    <2> HIDE DEF A
    <2>. QED  BY FreshInstance
<1>2. StackOK(c, B, N) /\ HeapOK(h, B, N) /\ StackOK(c, A, N)
    <2>1. StackOK(c, B, N) /\ HeapOK(h, B, N)
        BY DEF Sound
    <2>. QED  BY <2>1, MoreObjects
<1>3. \A x : ~ LendsOn(t, x)
    BY DEF LendsOn
<1>k. k \in N /\ t \in Item(A, N)
    OBVIOUS
<1> HIDE DEF d, i, N, A
<1>4. /\ StackOK(d, A, N)
      /\ \A x : /\ HeldIn(d, x) = Held(t, x) + HeldIn(c, x)
                /\ HeldIn(c, x) \in Nat
      /\ \A x, b, m : Lent(d, x, b, m) <=> Lent(c, x, b, m)
    BY <1>2, <1>3, <1>k, ItemOnTop DEF d
<1>5. \A x \in Objects : HeldIn(d, x) = HeldIn(c, x) + (IF o = x THEN i.iRef ELSE 0)
    BY <1>1, <1>4
<1>6. Sound(AddRefs(g, Vals(i.attrs)), d, N)
    BY <1>1, <1>4, <1>5, <1>k, Created DEF N, A
<1>7. AddRefs(g, Vals(i.attrs)) = g
    <2>1. h \in [Objects -> Instance(A, N)]
        BY <1>2, MoreObjects DEF HeapOK, A
    <2>2. /\ g \in [Objects -> Instance(A, N)] /\ g[o] = i /\ \A p \in Objects : p # o => g[p] = h[p]
        BY <1>1, <2>1 DEF Put
    <2> HIDE DEF g
    <2>3. \A p \in Objects : IF p \in A THEN {g[p].cls, g[p].born} \subseteq N ELSE g[p].attrs = <<>>
        BY <1>1, <1>2, <1>k, <2>2 DEF HeapOK, A
    <2>4. HeapOK(g, A, N)
        BY <2>2, <2>3 DEF HeapOK
    <2>. QED  BY <1>1, <2>4, AddNothing
<1>. QED  BY <1>6, <1>7 DEF d, i, N

\* A copy: what its attributes refer to is counted, the source until __clone is done.
CopyOf(h, src) == [NewInstance(h[src].cls) EXCEPT !.attrs = CopyAttrs(h[src].attrs, @)]

\* A clone is an instance of the class the source has then.
LEMMA CopyMade ==
    ASSUME TableOK(classes), NEW h, HeapOK(h, BornIn(h), DOMAIN classes), NEW src \in BornIn(h), NEW A,
           BornIn(h) \subseteq A
    PROVE  /\ CopyOf(h, src) \in Instance(A, DOMAIN classes)
           /\ CopyOf(h, src).cls \in DOMAIN classes /\ CopyOf(h, src).born = CopyOf(h, src).cls
           /\ CopyOf(h, src).iRef = 1 /\ CopyOf(h, src).state = "live"
           /\ CopyOf(h, src).attrs \in Seq(Attribute(A, DOMAIN classes))
<1> DEFINE N == DOMAIN classes
           k == h[src].cls
           from == h[src].attrs
           i == NewInstance(k)
           a == CopyAttrs(from, i.attrs)
           T == Attribute(A, N)
<1>1. src \in Objects
    BY DEF BornIn
<1>2. k \in N /\ from \in Seq(Attribute(BornIn(h), N))
    BY <1>1, InstanceFields
<1>3. from \in Seq(T)
    <2>1. Attribute(BornIn(h), N) \subseteq T
        BY DEF Attribute, Value
    <2>. QED  BY <1>2, <2>1
<1>4. i \in Instance(A, N) /\ i.cls = k /\ i.born = k /\ i.iRef = 1 /\ i.state = "live" /\ i.attrs \in Seq(T)
    BY <1>2, FreshInstance
<1>5. \A t, u \in T : [t EXCEPT !.val = u.val] \in T
    BY DEF Attribute
<1> HIDE DEF T, N, i, from, k
<1>6. a \in Seq(T)
    <2> DEFINE dest == i.attrs
    <2>1. dest \in Seq(T)
        BY <1>4
    <2> HIDE DEF dest
    <2>2. CopyAttrs(from, dest) = [j \in DOMAIN dest |-> IF j \in DOMAIN from /\ ~ from[j].const
                                    THEN [dest[j] EXCEPT !.val = from[j].val] ELSE dest[j]]
        BY DEF CopyAttrs
    <2>3. \A j \in DOMAIN dest : CopyAttrs(from, dest)[j] \in T
        BY <1>3, <1>5, <2>1, <2>2
    <2>4. CopyAttrs(from, dest) \in Seq(T)
        BY <2>1, <2>2, <2>3
    <2>. QED  BY <2>4 DEF dest
<1> HIDE DEF a
<1>7. CopyOf(h, src) = [i EXCEPT !.attrs = a]
    BY DEF CopyOf, i, a, k, from
<1>8. [i EXCEPT !.attrs = a] \in Instance(A, N)
    BY <1>4, <1>6 DEF Instance, T
<1>9. /\ [i EXCEPT !.attrs = a].cls = k /\ [i EXCEPT !.attrs = a].born = k /\ [i EXCEPT !.attrs = a].iRef = 1
      /\ [i EXCEPT !.attrs = a].state = "live" /\ [i EXCEPT !.attrs = a].attrs = a
    BY <1>4 DEF Instance
<1>. QED  BY <1>2, <1>6, <1>7, <1>8, <1>9 DEF N, T

\* A clone made: what it copied is counted, and so is the operand until it is
\* dropped.
LEMMA CloneKeeps ==
    ASSUME TableOK(classes), NEW h, NEW c, Sound(h, c, DOMAIN classes), c # <<>>, c[1].kind = "frame",
           NEW v \in Vars, NEW val \in Value(BornIn(h)), val.ref # Nil,
           NEW o \in Objects, h[o].state = "unborn"
    PROVE  LET copy == CopyOf(h, val.ref)
               g == AddRefs(Put(h, o, copy), <<val>> \o Vals(copy.attrs))
           IN  /\ Sound(g, <<Unref(val.ref), StoreItem(v, Reference(o, "variable"))>> \o c, DOMAIN classes)
               /\ o \in BornIn(g)
<1> DEFINE N == DOMAIN classes
           B == BornIn(h)
           A == B \cup {o}
           src == val.ref
           i == CopyOf(h, src)
           vals == Vals(i.attrs)
           s == Put(h, o, i)
           k == AddRefs(s, vals)
           t == StoreItem(v, Reference(o, "variable"))
           u == Unref(src)
           d == <<t>> \o c
           us == <<val>>
<1>1. StackOK(c, B, N) /\ HeapOK(h, B, N) /\ StackOK(c, A, N) /\ src \in B
    <2>1. StackOK(c, B, N) /\ HeapOK(h, B, N)
        BY DEF Sound
    <2>. QED  BY <2>1, MoreObjects DEF Value
<1>2. /\ i \in Instance(A, N) /\ i.cls \in N /\ i.born = i.cls /\ i.iRef = 1 /\ i.state = "live"
      /\ i.attrs \in Seq(Attribute(A, N))
    <2> HIDE DEF i, src
    <2>1. B \subseteq A
        OBVIOUS
    <2> HIDE DEF A
    <2>. QED  BY <1>1, <2>1, CopyMade DEF i
<1>3. t \in Item(A, N) /\ t.kind = "store"
    <2> HIDE DEF A
    <2>1. o \in A /\ "variable" \in Marks
        BY DEF A, Marks
    <2>. QED  BY <2>1, NullIn, ItemsMade DEF StoreItem
<1>4. /\ Stackable(t, c)
      /\ \A x : ~ LendsOn(t, x) /\ Held(t, x) = IF o = x THEN 1 ELSE 0
    <2>1. \A x : Held(t, x) = To(Reference(o, "variable"), x)
        BY ItemsHold
    <2>. QED  BY <1>3, <2>1, NullIn DEF Stackable, LendsOn
<1> HIDE DEF d, i, t, A, N
<1>5. /\ StackOK(d, A, N)
      /\ \A x : /\ HeldIn(d, x) = Held(t, x) + HeldIn(c, x)
                /\ HeldIn(c, x) \in Nat
      /\ \A x, b, m : Lent(d, x, b, m) <=> Lent(c, x, b, m)
    BY <1>1, <1>3, <1>4, ItemOnTop DEF d
<1>6. \A x \in Objects : HeldIn(d, x) = HeldIn(c, x) + (IF o = x THEN i.iRef ELSE 0)
    BY <1>2, <1>4, <1>5
<1>7. Sound(k, d, N)
    BY <1>2, <1>5, <1>6, Created DEF N, A
<1>8. HeapOK(s, A, N) /\ vals \in Seq(Value(A)) /\ val \in Value(A) /\ BornIn(s) = A
    <2>1. h \in [Objects -> Instance(A, N)] /\ val \in Value(A)
        BY <1>1, MoreObjects DEF HeapOK, A
    <2>2. /\ s \in [Objects -> Instance(A, N)] /\ s[o] = i /\ \A p \in Objects : p # o => s[p] = h[p]
        BY <1>2, <2>1 DEF Put
    <2> HIDE DEF s
    <2>3. \A p \in Objects : IF p \in A THEN {s[p].cls, s[p].born} \subseteq N ELSE s[p].attrs = <<>>
        BY <1>1, <1>2, <2>2 DEF HeapOK, A
    <2>4. HeapOK(s, A, N)
        BY <2>2, <2>3 DEF HeapOK
    <2>5. vals \in Seq(Value(A))
        <3>1. Vals(s[o].attrs) \in Seq(Value(A))
            BY <2>4, InstanceFields
        <3>. QED  BY <2>2, <3>1
    <2>6. \A p \in Objects : p \in BornIn(s) <=> p \in A
        BY <1>2, <2>2 DEF BornIn, A
    <2>7. A \subseteq Objects /\ BornIn(s) \subseteq Objects
        BY DEF A, BornIn
    <2>. QED  BY <2>1, <2>4, <2>5, <2>6, <2>7
<1> HIDE DEF vals, s
<1>9. AddRefs(s, us \o vals) = AddRefs(k, us)
    BY <1>8, AddInTwo
<1>10. BornIn(k) = A
    BY <1>8, AddedRefs
<1> HIDE DEF k
<1>11. us \in Seq(Value(A)) /\ u \in Item(A, N) /\ u.kind = "unref"
    <2>1. src \in A
        BY <1>1 DEF A
    <2>. QED  BY <1>8, <2>1, ItemsMade DEF Unref
<1>12. Stackable(u, d) /\ \A x \in Objects : Held(u, x) = RefsIn(us, x)
    <2>1. \A x : Held(u, x) = To(val, x)
        BY ItemsHold DEF To
    <2>2. \A x : RefsIn(us, x) = To(val, x)
        BY RefsInOne
    <2>. QED  BY <1>11, <2>1, <2>2 DEF Stackable
<1> HIDE DEF us, u, src
<1>13. Sound(AddRefs(k, us), <<u>> \o d, N)
    BY <1>7, <1>10, <1>11, <1>12, Counted
<1>14. BornIn(AddRefs(k, us)) = A
    <2>1. HeapOK(k, A, N)
        BY <1>7, <1>10 DEF Sound
    <2>. QED  BY <1>10, <1>11, <2>1, AddedRefs
<1>15. <<u, t>> \o c = <<u>> \o d
    <2> DEFINE I == Item(A, N)
    <2>1. u \in I /\ t \in I /\ c \in Seq(I)
        BY <1>1, <1>3, <1>11 DEF StackOK
    <2> HIDE DEF I
    <2>. QED  BY <2>1, TwoOnTop, SMTT(60) DEF d
<1>16. o \in A
    BY DEF A
<1>17. Sound(AddRefs(s, us \o vals), <<u, t>> \o c, N) /\ o \in BornIn(AddRefs(s, us \o vals))
    BY <1>9, <1>13, <1>14, <1>15, <1>16
<1>. QED  BY <1>17 DEF s, us, vals, i, u, t, src, N

-----------------------------------------------------------------------------
(* The invariant, kept by every step.                                       *)

ObjectsInv ==
    /\ TypeOK
    /\ outcome = "linking" => control = <<>> /\ \A o \in Objects : heap[o] = Unborn
    /\ Sound(heap, control, DOMAIN classes)

\* The objects made are those of the heap.
LEMMA BornIsBornIn == Born = BornIn(heap)
BY DEF Born, BornIn

\* It holds when the script has been compiled.
LEMMA InitHolds == Init => ObjectsInv
<1> SUFFICES ASSUME Init PROVE ObjectsInv
    OBVIOUS
<1> DEFINE N == DOMAIN classes
<1>1. decls \in Seq(Declarations) /\ classes = Installed(decls) /\ todo = InitTodo(decls)
    BY ObjectsAssumption DEF Init
<1>2. TableOK(classes) /\ todo \in Seq(N \X LinkSteps)
    BY <1>1, InstalledOK, InitTodoIn
<1>3. heap = [o \in Objects |-> Unborn] /\ control = <<>> /\ outcome = "linking"
    BY DEF Init
<1>4. Born = {} /\ BornIn(heap) = {}
    BY <1>3 DEF Born, BornIn, Unborn
<1>5. HeapOK(heap, {}, N)
    <2>1. Unborn \in Instance({}, N) /\ Unborn.attrs = <<>>
        BY DEF Unborn, Instance
    <2>. QED  BY <1>3, <2>1 DEF HeapOK
<1>6. StackOK(control, {}, N)
    BY <1>3, NothingOnStack
<1>7. \A o \in Objects : heap[o].state # "live"
    BY <1>3 DEF Unborn
<1>8. TypeOK
    BY <1>2, <1>3, <1>4, <1>5, <1>6 DEF TypeOK
<1>9. Sound(heap, control, N)
    BY <1>4, <1>5, <1>6, <1>7 DEF Sound
<1>. QED  BY <1>3, <1>8, <1>9 DEF ObjectsInv

\* A step that ends the run, or stutters.
LEMMA Stopped ==
    ASSUME ObjectsInv, UNCHANGED <<decls, classes, todo, heap, control>>,
           outcome' \in {outcome, "ended", "error", "undefined"}
    PROVE  ObjectsInv'
<1>1. /\ TypeOK' /\ Sound(heap, control, DOMAIN classes)'
    <2>1. Born' = Born
        BY DEF Born
    <2>2. TypeOK'
        BY <2>1 DEF ObjectsInv, TypeOK
    <2>. QED  BY <2>2 DEF ObjectsInv
<1>2. outcome' = "linking" => outcome = "linking"
    OBVIOUS
<1>. QED  BY <1>1, <1>2 DEF ObjectsInv

\* A step that reports an error, or after which nothing is known.
LEMMA Failed ==
    ASSUME ObjectsInv, Fails \/ Undefined
    PROVE  ObjectsInv'
BY Stopped DEF Fails, Undefined

\* A step of the script or of the C code below it.
LEMMA Continued ==
    ASSUME ObjectsInv, outcome = "running", NEW h, NEW c, Continue(h, c),
           Sound(h, c, DOMAIN classes)
    PROVE  ObjectsInv'
<1>1. heap' = h /\ control' = c /\ UNCHANGED <<decls, classes, todo, outcome>>
    BY DEF Continue
<1>2. Sound(heap, control, DOMAIN classes)'
    BY <1>1
<1>3. Born' = BornIn(heap')
    BY DEF Born, BornIn
<1>4. HeapOK(heap', BornIn(heap'), DOMAIN classes') /\ StackOK(control', BornIn(heap'), DOMAIN classes')
    BY <1>1 DEF Sound
<1>5. TypeOK'
    BY <1>1, <1>3, <1>4 DEF ObjectsInv, TypeOK
<1>. QED  BY <1>1, <1>2, <1>5 DEF ObjectsInv

\* One INIT instruction.
LEMMA LinkKeeps ==
    ASSUME ObjectsInv, LinkNext
    PROVE  ObjectsInv'
<1> DEFINE N == DOMAIN classes
           S == N \X LinkSteps
           sub == Head(todo)[1]
           link == Head(todo)[2]
<1>1. outcome = "linking" /\ todo # <<>> /\ TableOK(classes) /\ todo \in Seq(S)
    BY DEF LinkNext, ObjectsInv, TypeOK
<1>2. Head(todo) \in S /\ Tail(todo) \in Seq(S)
    <2> HIDE DEF S
    <2>. QED  BY <1>1
<1>3. sub \in N /\ link \in LinkSteps
    BY <1>2
<1>4. CASE LinkRefused(classes, sub, link)
    BY <1>4, Failed DEF LinkNext
<1>5. CASE ~ LinkRefused(classes, sub, link)
    <2>1. /\ classes' = Link(classes, sub, link) /\ todo' = Tail(todo)
          /\ UNCHANGED <<decls, heap, control, outcome>>
        BY <1>5 DEF LinkNext
    <2> HIDE DEF sub, link
    <2>2. TableOK(classes') /\ DOMAIN classes' = N
        BY <1>1, <1>3, <1>5, <2>1, LinkKeepsTable
    <2>3. Born' = Born
        BY <2>1 DEF Born
    <2>4. TypeOK'
        BY <1>2, <2>1, <2>2, <2>3 DEF ObjectsInv, TypeOK
    <2>5. Sound(heap, control, DOMAIN classes)'
        BY <2>1, <2>2 DEF ObjectsInv
    <2>. QED  BY <2>1, <2>4, <2>5 DEF ObjectsInv
<1>. QED  BY <1>4, <1>5

\* The instance of Program, lent to main().
LEMMA StartKeeps ==
    ASSUME ObjectsInv, Start
    PROVE  ObjectsInv'
<1> DEFINE N == DOMAIN classes
           B == BornIn(heap)
           main == Get(classes["Program"].hMethod, "main")
           n == NewInstance("Program")
           i == [n EXCEPT !.iRef = 0]
           h == Put(heap, 1, i)
           A == B \cup {1}
<1>1. /\ outcome = "linking" /\ TableOK(classes) /\ Sound(heap, control, N)
      /\ control = <<>> /\ \A o \in Objects : heap[o] = Unborn
    BY DEF Start, ObjectsInv, TypeOK
<1>2. CASE "Program" \notin N
    BY <1>2, Failed DEF Start
<1>3. CASE "Program" \in N
    <2>1. /\ main # Nil
          /\ heap' = LentTo(h, 1, main) /\ control' = Frame(h, 1, main, <<>>)
          /\ outcome' = "running" /\ UNCHANGED <<decls, classes, todo>>
        BY <1>3 DEF Start, Put
    <2>2. main \in MethodInfo(N)
        <3>1. classes["Program"].hMethod \in Seq(MethodInfo(N))
            BY <1>1, <1>3, ClassFields
        <3>. QED  BY <2>1, <3>1, GetIn
    <2>3. /\ n \in Instance(A, N) /\ n.cls = "Program" /\ n.born = "Program" /\ n.iRef = 1 /\ n.state = "live"
          /\ \A x \in Objects : RefsIn(Vals(n.attrs), x) = 0
        <3> HIDE DEF A
        <3>. QED  BY <1>1, <1>3, FreshInstance
    <2> HIDE DEF n
    <2>4. /\ i \in Instance(A, N) /\ i.cls = "Program" /\ i.born = "Program" /\ i.iRef = 0 /\ i.state = "live"
          /\ i.attrs = n.attrs
        <3> HIDE DEF A
        <3>. QED  BY <2>3 DEF Instance
    <2> HIDE DEF i
    <2>5. 1 \in Objects /\ heap[1].state = "unborn"
        BY <1>1, ObjectsAssumption DEF Unborn
    <2>6. StackOK(control, A, N)
        BY <1>1, NothingOnStack
    <2>7. \A x \in Objects : HeldIn(control, x) = HeldIn(control, x) + (IF 1 = x THEN i.iRef ELSE 0)
        BY <1>1, <2>4, SoundFacts
    <2>8. Sound(AddRefs(h, Vals(i.attrs)), control, N)
        BY <1>1, <1>3, <2>4, <2>5, <2>6, <2>7, Created
    <2>9. HeapOK(h, A, N) /\ BornIn(h) = A
        <3>1. heap \in [Objects -> Instance(A, N)]
            BY <1>1, MoreObjects DEF Sound, HeapOK
        <3>2. h \in [Objects -> Instance(A, N)] /\ h[1] = i /\ \A p \in Objects : p # 1 => h[p] = Unborn
            BY <1>1, <2>4, <2>5, <3>1 DEF Put
        <3> HIDE DEF h
        <3>3. B = {}
            BY <1>1 DEF BornIn, Unborn
        <3>4. \A p \in Objects : IF p \in A THEN {h[p].cls, h[p].born} \subseteq N ELSE h[p].attrs = <<>>
            BY <1>3, <2>4, <3>2, <3>3 DEF Unborn
        <3>5. \A p \in Objects : p \in BornIn(h) <=> p \in A
            BY <2>4, <3>2, <3>3 DEF BornIn, Unborn
        <3>6. A \subseteq Objects /\ BornIn(h) \subseteq Objects
            BY <2>5 DEF BornIn
        <3>. QED  BY <3>2, <3>4, <3>5, <3>6 DEF HeapOK
    <2>10. AddRefs(h, Vals(i.attrs)) = h
        BY <2>3, <2>4, <2>9, AddNothing
    <2> HIDE DEF h
    <2>11. Sound(h, control, N) /\ 1 \in BornIn(h)
        BY <2>8, <2>9, <2>10
    <2>12. Sound(LentTo(h, 1, main), Frame(h, 1, main, <<>>) \o control, N)
        BY <2>2, <2>11, FramePushed
    <2>13. Frame(h, 1, main, <<>>) \o control = Frame(h, 1, main, <<>>)
        <3> DEFINE f == FrameItem(h, 1, main, <<>>)
        <3>1. Frame(h, 1, main, <<>>) = <<f>>
            BY DEF Frame, FrameItem
        <3> HIDE DEF f
        <3>2. <<f>> \in Seq({f})
            OBVIOUS
        <3>. QED  BY <1>1, <3>1, <3>2
    <2>14. Sound(heap, control, DOMAIN classes)'
        BY <2>1, <2>12, <2>13
    <2>15. Born' = BornIn(heap')
        BY DEF Born, BornIn
    <2>16. HeapOK(heap', BornIn(heap'), DOMAIN classes') /\ StackOK(control', BornIn(heap'), DOMAIN classes')
        BY <2>14 DEF Sound
    <2>17. TypeOK'
        BY <2>1, <2>15, <2>16 DEF ObjectsInv, TypeOK
    <2>. QED  BY <2>1, <2>14, <2>17 DEF ObjectsInv
<1>. QED  BY <1>2, <1>3

-----------------------------------------------------------------------------
(* Statements.                                                              *)

\* What is known when a statement comes next: the top item is a frame.
LEMMA ScriptFacts ==
    ASSUME ObjectsInv, InScript
    PROVE  /\ outcome = "running" /\ control # <<>> /\ Top.kind = "frame" /\ control[1].kind = "frame"
           /\ TableOK(classes) /\ Sound(heap, control, DOMAIN classes)
           /\ HeapOK(heap, BornIn(heap), DOMAIN classes)
           /\ StackOK(control, BornIn(heap), DOMAIN classes)
           /\ Top \in Item(BornIn(heap), DOMAIN classes)
           /\ Top.self \in BornIn(heap) /\ Top.vars \in [Vars -> Value(BornIn(heap))]
<1> DEFINE B == BornIn(heap)
           N == DOMAIN classes
<1>1. /\ outcome = "running" /\ control # <<>> /\ Top.kind = "frame"
      /\ TableOK(classes) /\ Sound(heap, control, N)
    BY DEF InScript, ObjectsInv, TypeOK
<1>2. HeapOK(heap, B, N) /\ StackOK(control, B, N)
    BY <1>1 DEF Sound
<1>3. Top \in Item(B, N)
    BY <1>1, <1>2, Popped DEF Top
<1>4. Top.self \in B /\ Top.vars \in [Vars -> Value(B)]
    BY <1>1, <1>3, ItemFields
<1>5. control[1] = Top
    BY <1>1, <1>2 DEF Top, StackOK
<1>. QED  BY <1>1, <1>2, <1>3, <1>4, <1>5

\* An operand refers to an object that was made, or to nothing.
LEMMA OperandIn ==
    ASSUME ObjectsInv, InScript, NEW s \in Vars \cup {"this", "parent"}
    PROVE  /\ Operand(s) \in Value(BornIn(heap)) /\ Operand(s).mark \in Marks
           /\ ObjectOperand(s) => Operand(s).ref \in BornIn(heap) /\ Operand(s).ref # Nil
<1> DEFINE B == BornIn(heap)
<1>1. Top.self \in B /\ Top.vars \in [Vars -> Value(B)]
    BY ScriptFacts
<1>2. Operand(s) \in Value(B)
    <2>1. CASE s = "this"
        <3>1. Reference(Top.self, "this") \in Value(B)
            BY <1>1, NullIn DEF Marks
        <3>. QED  BY <2>1, <3>1 DEF Operand
    <2>2. CASE s = "parent"
        <3>1. Reference(Top.self, "parent") \in Value(B)
            BY <1>1, NullIn DEF Marks
        <3>. QED  BY <2>2, <3>1 DEF Operand
    <2>3. CASE s \notin {"this", "parent"}
        BY <1>1, <2>3 DEF Operand
    <2>. QED  BY <2>1, <2>2, <2>3
<1>. QED  BY <1>2 DEF Value, ObjectOperand

\* The object a creation takes is one not made yet.
LEMMA FreshIsUnborn ==
    ASSUME NEW o \in Objects, Fresh(o)
    PROVE  heap[o].state = "unborn"
BY DEF Fresh

\* `new': the constructor, then what becomes of the object.
LEMMA NewItemKeeps ==
    ASSUME ObjectsInv, InScript, NEW k \in DOMAIN classes, NEW o \in Objects, Fresh(o),
           NEW t \in Item(BornIn(heap) \cup {o}, DOMAIN classes), t.kind \in {"store", "send"},
           t.kind = "send" => Len(t.args) <= 1, \A x \in Objects : Held(t, x) = IF o = x THEN 1 ELSE 0,
           NEW next, next = Magic(Put(heap, o, NewInstance(k)), o, "__construct", <<t>> \o control),
           Continue(next.heap, next.control)
    PROVE  ObjectsInv'
<1> DEFINE N == DOMAIN classes
           h == Put(heap, o, NewInstance(k))
           c == <<t>> \o control
<1>1. /\ outcome = "running" /\ TableOK(classes) /\ Sound(heap, control, N)
      /\ control # <<>> /\ control[1].kind = "frame" /\ heap \in [Objects -> Instance(BornIn(heap), N)]
    BY ScriptFacts DEF HeapOK
<1>2. Stackable(t, control)
    BY <1>1 DEF Stackable
<1>3. Sound(h, c, N)
    BY <1>1, <1>2, FreshIsUnborn, NewKeeps
<1>4. o \in BornIn(h)
    BY <1>1 DEF BornIn, Put, NewInstance
<1> HIDE DEF h, c
<1>5. Sound(Magic(h, o, "__construct", c).heap, Magic(h, o, "__construct", c).control, N)
    BY <1>1, <1>3, <1>4, MagicKeeps
<1>6. Sound(next.heap, next.control, N)
    BY <1>5 DEF h, c
<1>. QED  BY <1>1, <1>6, Continued

\* $v = new c();
LEMMA CreateKeeps ==
    ASSUME ObjectsInv, New
    PROVE  ObjectsInv'
<1>1. PICK v \in Vars, k \in DOMAIN classes : Create(v, k)
    BY DEF New
<1>2. InScript
    BY DEF New
<1>3. CASE Fails
    BY <1>3, Failed
<1>4. CASE ~ Fails
    <2>1. PICK o \in Objects :
            /\ Fresh(o)
            /\ LET h == [heap EXCEPT ![o] = NewInstance(k)]
                   next == Magic(h, o, "__construct",
                               <<StoreItem(v, Reference(o, "variable"))>> \o control)
               IN  Continue(next.heap, next.control)
        BY <1>1, <1>4 DEF Create
    <2> DEFINE t == StoreItem(v, Reference(o, "variable"))
               A == BornIn(heap) \cup {o}
               next == Magic(Put(heap, o, NewInstance(k)), o, "__construct", <<t>> \o control)
    <2>2. t.kind = "store"
        BY DEF StoreItem
    <2>3. t \in Item(A, DOMAIN classes)
        <3>1. o \in A /\ "variable" \in Marks
            BY DEF Marks
        <3> HIDE DEF A
        <3>. QED  BY <3>1, NullIn, ItemsMade
    <2>4. \A x \in Objects : Held(t, x) = IF o = x THEN 1 ELSE 0
        <3>1. \A x : Held(t, x) = To(Reference(o, "variable"), x)
            BY ItemsHold
        <3>. QED  BY <3>1, NullIn
    <2>5. Continue(next.heap, next.control)
        BY <2>1 DEF Put
    <2> HIDE DEF t, next
    <2>6. next = Magic(Put(heap, o, NewInstance(k)), o, "__construct", <<t>> \o control)
        BY DEF next
    <2>. QED  BY <1>2, <2>1, <2>2, <2>3, <2>4, <2>5, <2>6, NewItemKeeps
<1>. QED  BY <1>3, <1>4

\* (new c())->name();
LEMMA NewSendKeeps ==
    ASSUME ObjectsInv, NewSend
    PROVE  ObjectsInv'
<1>1. PICK k \in DOMAIN classes, o \in Objects : \E name \in Names(classes[k].hMethod) :
          /\ Fresh(o)
          /\ LET h == [heap EXCEPT ![o] = NewInstance(k)]
                 next == Magic(h, o, "__construct",
                             <<SendItem(o, "variable", name, <<>>)>> \o control)
             IN  Continue(next.heap, next.control)
    BY DEF NewSend
<1>2. PICK name \in Names(classes[k].hMethod) :
          /\ Fresh(o)
          /\ LET h == [heap EXCEPT ![o] = NewInstance(k)]
                 next == Magic(h, o, "__construct",
                             <<SendItem(o, "variable", name, <<>>)>> \o control)
             IN  Continue(next.heap, next.control)
    BY <1>1
<1>3. InScript
    BY DEF NewSend
<1> DEFINE t == SendItem(o, "variable", name, <<>>)
           A == BornIn(heap) \cup {o}
           next == Magic(Put(heap, o, NewInstance(k)), o, "__construct", <<t>> \o control)
<1>4. t.kind = "send" /\ t.args = <<>> /\ Len(t.args) <= 1
    BY DEF SendItem
<1>5. name \in STRING
    <2>1. classes[k].hMethod \in Seq(MethodInfo(DOMAIN classes))
        BY <1>3, ScriptFacts, ClassFields
    <2> DEFINE list == classes[k].hMethod
    <2>2. PICK j \in DOMAIN list : name = list[j].name
        BY DEF Names
    <2> DEFINE M == MethodInfo(DOMAIN classes)
    <2> HIDE DEF list, M
    <2>3. list[j] \in M
        BY <2>1, <2>2 DEF list, M
    <2>. QED  BY <2>2, <2>3 DEF M, MethodInfo
<1>6. t \in Item(A, DOMAIN classes)
    <2>1. o \in A /\ "variable" \in Marks /\ <<>> \in Seq(Value(A))
        BY DEF Marks
    <2> HIDE DEF A
    <2>. QED  BY <1>5, <2>1, ItemsMade
<1>7. \A x \in Objects : Held(t, x) = IF o = x THEN 1 ELSE 0
    <2>1. \A x : Held(t, x) = (IF o = x THEN 1 ELSE 0) + RefsIn(<<>>, x)
        BY ItemsHold
    <2>2. \A x : RefsIn(<<>>, x) = 0
        BY RefsInNone
    <2>. QED  BY <2>1, <2>2
<1>8. Continue(next.heap, next.control)
    BY <1>2 DEF Put
<1> HIDE DEF t, next
<1>9. next = Magic(Put(heap, o, NewInstance(k)), o, "__construct", <<t>> \o control)
    BY DEF next
<1>. QED  BY <1>2, <1>3, <1>4, <1>6, <1>7, <1>8, <1>9, NewItemKeeps

\* Work put on the stack, read from either end.
LEMMA Assoc ==
    ASSUME NEW S, NEW a \in Seq(S), NEW b \in Seq(S), NEW c \in Seq(S)
    PROVE  (a \o b) \o c = a \o (b \o c)
OBVIOUS

\* Work put on the stack behind the references to drop.
LEMMA UnrefsBelow ==
    ASSUME NEW B, NEW N, NEW vals \in Seq(Value(B)), NEW t \in Item(B, N),
           NEW r \in Seq(Item(B, N))
    PROVE  Unrefs(vals) \o <<t>> \o r = Unrefs(vals) \o (<<t>> \o r)
<1> DEFINE S == Item(B, N)
           u == Unrefs(vals)
<1>1. 1 # Nil
    BY ObjectsAssumption
<1>2. u \in Seq(Drops(B))
    BY <1>1, UnrefsHold
<1>3. Drops(B) \subseteq S
    BY DEF Drops, Item
<1> HIDE DEF S, u
<1>4. u \in Seq(S)
    BY <1>2, <1>3
<1>5. <<t>> \in Seq(S) /\ r \in Seq(S)
    BY DEF S
<1>6. (u \o <<t>>) \o r = u \o (<<t>> \o r)
    BY <1>4, <1>5, Assoc
<1>. QED  BY <1>6 DEF u

\* A statement that counts what the item it pushes holds.
LEMMA PushKeeps ==
    ASSUME ObjectsInv, InScript, NEW t \in Item(BornIn(heap), DOMAIN classes),
           t.kind \in {"store", "send"}, t.kind = "send" => Len(t.args) <= 1,
           NEW vals \in Seq(Value(BornIn(heap))),
           \A x \in Objects : Held(t, x) = RefsIn(vals, x),
           Continue(AddRefs(heap, vals), <<t>> \o control)
    PROVE  ObjectsInv'
<1>1. /\ outcome = "running" /\ Sound(heap, control, DOMAIN classes)
      /\ control # <<>> /\ control[1].kind = "frame"
    BY ScriptFacts
<1>2. Stackable(t, control)
    BY <1>1 DEF Stackable
<1>3. Sound(AddRefs(heap, vals), <<t>> \o control, DOMAIN classes)
    BY <1>1, <1>2, Counted
<1>. QED  BY <1>1, <1>3, Continued

\* A value counted and pushed to be stored.
LEMMA StoreItemKeeps ==
    ASSUME ObjectsInv, InScript, NEW v \in Vars, NEW val \in Value(BornIn(heap)),
           Continue(AddRef(heap, val), <<StoreItem(v, val)>> \o control)
    PROVE  ObjectsInv'
<1> DEFINE t == StoreItem(v, val)
           vals == <<val>>
<1>1. t \in Item(BornIn(heap), DOMAIN classes)
    BY ItemsMade
<1>2. t.kind = "store"
    BY DEF StoreItem
<1>3. vals \in Seq(Value(BornIn(heap)))
    OBVIOUS
<1>4. \A x \in Objects : Held(t, x) = RefsIn(vals, x)
    BY ItemsHold, RefsInOne
<1>5. Continue(AddRefs(heap, vals), <<t>> \o control)
    BY DEF AddRef
<1> HIDE DEF t, vals
<1>. QED  BY <1>1, <1>2, <1>3, <1>4, <1>5, PushKeeps

\* $v = $s;
LEMMA AssignKeeps ==
    ASSUME ObjectsInv, Assign
    PROVE  ObjectsInv'
<1>1. PICK v \in Vars, s \in Vars \cup {"this"} :
          Continue(AddRef(heap, Operand(s)), <<StoreItem(v, Operand(s))>> \o control)
    BY DEF Assign
<1>2. InScript
    BY DEF Assign
<1>3. Operand(s) \in Value(BornIn(heap))
    BY <1>2, OperandIn
<1>. QED  BY <1>1, <1>2, <1>3, StoreItemKeeps

\* $s->name($a);
LEMMA CallKeeps ==
    ASSUME ObjectsInv, Call
    PROVE  ObjectsInv'
<1> DEFINE B == BornIn(heap)
           N == DOMAIN classes
           V == Value(B)
<1>1. InScript
    BY DEF Call
<1>2. PICK s \in Vars \cup {"this", "parent"} :
          /\ ObjectOperand(s)
          /\ \E name \in UNION {Names(classes[c].hMethod) : c \in DOMAIN classes},
               args \in {<<>>} \cup {<<Operand(a)>> : a \in Vars} :
                LET o == Operand(s).ref
                    h == AddRefs(heap, <<Operand(s)>> \o args)
                IN  Continue(h, <<SendItem(o, Operand(s).mark, name, args)>> \o control)
    BY DEF Call
<1>3. PICK name \in UNION {Names(classes[c].hMethod) : c \in DOMAIN classes},
           args \in {<<>>} \cup {<<Operand(a)>> : a \in Vars} :
          Continue(AddRefs(heap, <<Operand(s)>> \o args),
                   <<SendItem(Operand(s).ref, Operand(s).mark, name, args)>> \o control)
    BY <1>2
<1> DEFINE val == Operand(s)
           t == SendItem(val.ref, val.mark, name, args)
           vals == <<val>> \o args
<1>4. val \in V /\ val.mark \in Marks /\ val.ref \in B
    BY <1>1, <1>2, OperandIn
<1>5. name \in STRING
    <2>1. PICK k \in N : name \in Names(classes[k].hMethod)
        BY <1>3
    <2> DEFINE list == classes[k].hMethod
               M == MethodInfo(N)
    <2>2. list \in Seq(M)
        BY <1>1, ScriptFacts, ClassFields
    <2>3. PICK j \in DOMAIN list : name = list[j].name
        BY <2>1 DEF Names
    <2> HIDE DEF list, M
    <2>4. list[j] \in M
        BY <2>2, <2>3
    <2>. QED  BY <2>3, <2>4 DEF M, MethodInfo
<1>6. args \in Seq(V) /\ Len(args) <= 1
    <2>1. CASE args = <<>>
        BY <2>1
    <2>2. CASE args # <<>>
        <3>1. PICK a \in Vars : args = <<Operand(a)>>
            BY <1>3, <2>2
        <3>2. Operand(a) \in V
            BY <1>1, OperandIn
        <3> HIDE DEF V
        <3>. QED  BY <3>1, <3>2
    <2>. QED  BY <2>1, <2>2
<1>7. t \in Item(B, N)
    BY <1>4, <1>5, <1>6, ItemsMade
<1>8. t.kind = "send" /\ t.args = args
    BY DEF SendItem
<1>9. vals \in Seq(V)
    <2> HIDE DEF val, V
    <2>. QED  BY <1>4, <1>6
<1>10. \A x \in Objects : Held(t, x) = RefsIn(vals, x)
    <2> SUFFICES ASSUME NEW x \in Objects PROVE Held(t, x) = RefsIn(vals, x)
        OBVIOUS
    <2>1. Held(t, x) = To(val, x) + RefsIn(args, x)
        BY ItemsHold DEF To
    <2> HIDE DEF val, V
    <2>2. RefsIn(vals, x) = To(val, x) + RefsIn(args, x)
        BY <1>4, <1>6, RefsOnTop
    <2>. QED  BY <2>1, <2>2
<1>11. Continue(AddRefs(heap, vals), <<t>> \o control)
    BY <1>3
<1> HIDE DEF t, vals, val
<1>. QED  BY <1>1, <1>6, <1>7, <1>8, <1>9, <1>10, <1>11, PushKeeps

\* The cell of an attribute is one the object has.
LEMMA CellIn ==
    ASSUME NEW o \in Objects, HeapOK(heap, BornIn(heap), DOMAIN classes),
           NEW mark, NEW name, Cell(o, mark, name) # 0
    PROVE  /\ Cell(o, mark, name) \in DOMAIN heap[o].attrs
           /\ heap[o].attrs[Cell(o, mark, name)] \in Attribute(BornIn(heap), DOMAIN classes)
           /\ heap[o].attrs[Cell(o, mark, name)].val \in Value(BornIn(heap))
<1> DEFINE attr == MemberAttribute(classes, heap[o].cls, mark, name)
           at == {i \in DOMAIN heap[o].attrs :
                     /\ heap[o].attrs[i].cls = attr.cls
                     /\ Starts(name, heap[o].attrs[i].name)}
           list == heap[o].attrs
           A == Attribute(BornIn(heap), DOMAIN classes)
           cell == Cell(o, mark, name)
<1>1. list \in Seq(A)
    BY InstanceFields
<1>2. at # {} /\ cell = Min(at)
    BY DEF Cell
<1>3. at \subseteq DOMAIN list
    OBVIOUS
<1> HIDE DEF at, list, A, cell
<1>4. at \subseteq Nat
    BY <1>1, <1>3
<1>5. cell \in DOMAIN list
    BY <1>2, <1>3, <1>4, MinIn
<1>6. list[cell] \in A
    BY <1>1, <1>5
<1>7. list[cell].val \in Value(BornIn(heap))
    BY <1>6 DEF A, Attribute
<1>. QED  BY <1>5, <1>6, <1>7 DEF list, A, cell

\* $v = $s->name;
LEMMA GetAttributeKeeps ==
    ASSUME ObjectsInv, GetAttribute
    PROVE  ObjectsInv'
<1>1. InScript
    BY DEF GetAttribute
<1>2. PICK s \in Vars \cup {"this", "parent"}, name \in AttributeNames, v \in Vars :
          /\ ObjectOperand(s)
          /\ LET o == Operand(s).ref
                 cell == Cell(o, Operand(s).mark, name)
                 val == heap[o].attrs[cell].val
             IN  IF ~ Reachable(o, cell) \/ val.data \notin {"null", "object"}
                 THEN Fails
                 ELSE Continue(AddRef(heap, val), <<StoreItem(v, val)>> \o control)
    BY DEF GetAttribute
<1> DEFINE o == Operand(s).ref
           cell == Cell(o, Operand(s).mark, name)
           val == heap[o].attrs[cell].val
<1>3. CASE Fails
    BY <1>3, Failed
<1>4. CASE ~ Fails
    <2>1. Reachable(o, cell) /\ Continue(AddRef(heap, val), <<StoreItem(v, val)>> \o control)
        BY <1>2, <1>4
    <2>2. o \in BornIn(heap) /\ o \in Objects /\ HeapOK(heap, BornIn(heap), DOMAIN classes)
        BY <1>1, <1>2, OperandIn, ScriptFacts, BornFacts
    <2>3. cell # 0
        BY <2>1 DEF Reachable
    <2> HIDE DEF o
    <2>4. val \in Value(BornIn(heap))
        BY <2>2, <2>3, CellIn
    <2> HIDE DEF val
    <2>. QED  BY <1>1, <2>1, <2>4, StoreItemKeeps
<1>. QED  BY <1>3, <1>4

\* $v = clone $s;
LEMMA CloneStep ==
    ASSUME ObjectsInv, Clone
    PROVE  ObjectsInv'
<1> DEFINE N == DOMAIN classes
           B == BornIn(heap)
<1>1. InScript
    BY DEF Clone
<1>2. PICK v \in Vars, s \in Vars \cup {"this"}, o \in Objects :
          /\ ObjectOperand(s) /\ Fresh(o)
          /\ LET src == Operand(s).ref
                 copy == [NewInstance(heap[src].cls) EXCEPT
                             !.attrs = CopyAttrs(heap[src].attrs, @)]
                 h == AddRefs([heap EXCEPT ![o] = copy],
                              <<Operand(s)>> \o Vals(copy.attrs))
                 next == Magic(h, o, "__clone",
                            <<Unref(src), StoreItem(v, Reference(o, "variable"))>>
                               \o control)
             IN  Continue(next.heap, next.control)
    BY DEF Clone
<1> DEFINE val == Operand(s)
           copy == CopyOf(heap, val.ref)
           h == AddRefs(Put(heap, o, copy), <<val>> \o Vals(copy.attrs))
           c == <<Unref(val.ref), StoreItem(v, Reference(o, "variable"))>> \o control
           next == Magic(h, o, "__clone", c)
<1>3. Continue(next.heap, next.control)
    BY <1>2 DEF CopyOf, Put
<1>4. val \in Value(B) /\ val.ref # Nil
    BY <1>1, <1>2, OperandIn
<1>5. /\ outcome = "running" /\ TableOK(classes) /\ Sound(heap, control, N)
      /\ control # <<>> /\ control[1].kind = "frame"
    BY <1>1, ScriptFacts
<1>6. heap[o].state = "unborn"
    BY <1>2, FreshIsUnborn
<1> HIDE DEF val
<1>7. Sound(h, c, N) /\ o \in BornIn(h)
    BY <1>4, <1>5, <1>6, CloneKeeps
<1> HIDE DEF h, c
<1>8. Sound(next.heap, next.control, N)
    BY <1>5, <1>7, MagicKeeps
<1> HIDE DEF next
<1>. QED  BY <1>3, <1>5, <1>8, Continued

\* unset($v);
LEMMA UnsetStep ==
    ASSUME ObjectsInv, Unset
    PROVE  ObjectsInv'
<1> DEFINE N == DOMAIN classes
           B == BornIn(heap)
<1>1. InScript
    BY DEF Unset
<1>2. PICK v \in Vars : /\ ObjectOperand(v)
                        /\ Continue(heap, <<Unref(Top.vars[v].ref),
                                  [Top EXCEPT !.vars[v] = Null]>> \o Tail(control))
    BY DEF Unset
<1> DEFINE f == Head(control)
           p == Unref(f.vars[v].ref)
           q == WithVar(f, v, Null)
           d == <<p>> \o (<<q>> \o Tail(control))
<1>3. /\ outcome = "running" /\ TableOK(classes) /\ Sound(heap, control, N)
      /\ control # <<>> /\ f.kind = "frame" /\ StackOK(control, B, N)
    BY <1>1, ScriptFacts DEF Top
<1>4. f.vars[v].ref # Nil
    <2>1. v \notin {"this", "parent"}
        BY ObjectsAssumption
    <2>. QED  BY <1>2, <2>1 DEF ObjectOperand, Operand, Top
<1>5. Sound(heap, d, N)
    BY <1>3, <1>4, UnsetKeeps
<1>6. <<p, q>> \o Tail(control) = d
    <2> DEFINE S == Item(B, N) \cup {p, q}
               r == Tail(control)
    <2>1. r \in Seq(Item(B, N))
        BY <1>3 DEF StackOK
    <2> HIDE DEF p, q, r
    <2>2. r \in Seq(S) /\ p \in S /\ q \in S
        BY <2>1
    <2> HIDE DEF S
    <2>3. <<p, q>> \o r = <<p>> \o (<<q>> \o r)
        BY <2>2, TwoOnTop
    <2>. QED  BY <2>3 DEF r
<1>7. Continue(heap, <<p, q>> \o Tail(control))
    BY <1>2 DEF Top, WithVar
<1> HIDE DEF p, q, d
<1>. QED  BY <1>3, <1>5, <1>6, <1>7, Continued

\* $s->name = $a;
LEMMA SetAttributeKeeps ==
    ASSUME ObjectsInv, SetAttribute
    PROVE  ObjectsInv'
<1> DEFINE N == DOMAIN classes
           B == BornIn(heap)
<1>1. InScript
    BY DEF SetAttribute
<1>2. PICK s \in Vars \cup {"this", "parent"}, name \in AttributeNames,
           a \in Vars \cup {"this"} :
          /\ ObjectOperand(s) /\ ObjectOperand(a)
          /\ LET o == Operand(s).ref
                 cell == Cell(o, Operand(s).mark, name)
                 old == heap[o].attrs[cell].val
             IN  IF \/ ~ Reachable(o, cell)
                    \/ heap[o].attrs[cell].const
                    \/ old.data \notin {"null", "object"}
                 THEN Fails
                 ELSE Continue(AddRef([heap EXCEPT
                                  ![o].attrs[cell].val = Operand(a)], Operand(a)),
                               Unrefs(<<old>>) \o control)
    BY DEF SetAttribute
<1> DEFINE o == Operand(s).ref
           cell == Cell(o, Operand(s).mark, name)
           w == Operand(a)
           new == Put(heap, o, WithAttrs(heap[o],
                        Put(heap[o].attrs, cell, WithVal(heap[o].attrs[cell], w))))
           h == AddRefs(new, <<w>>)
           c == Unrefs(<<heap[o].attrs[cell].val>>) \o control
<1>3. CASE Fails
    BY <1>3, Failed
<1>4. CASE ~ Fails
    <2>1. /\ Reachable(o, cell)
          /\ Continue(AddRef([heap EXCEPT ![o].attrs[cell].val = w], w), c)
        BY <1>2, <1>4
    <2>2. /\ outcome = "running" /\ Sound(heap, control, N) /\ HeapOK(heap, B, N)
          /\ o \in B /\ o \in Objects /\ w \in Value(B)
        BY <1>1, <1>2, OperandIn, ScriptFacts, BornFacts
    <2>3. cell # 0
        BY <2>1 DEF Reachable
    <2> HIDE DEF o
    <2>4. cell \in DOMAIN heap[o].attrs
        BY <2>2, <2>3, CellIn
    <2> HIDE DEF cell, w
    <2>5. Sound(h, c, N)
        BY <2>2, <2>4, SetKeeps
    <2>6. [heap EXCEPT ![o].attrs[cell].val = w] = new
        BY DEF Put, WithAttrs, WithVal
    <2> HIDE DEF new
    <2>7. Continue(h, c)
        BY <2>1, <2>6 DEF AddRef
    <2> HIDE DEF h, c
    <2>. QED  BY <2>2, <2>5, <2>7, Continued
<1>. QED  BY <1>3, <1>4

\* return: every reference of the frame is left to be dropped.
LEMMA ReturnStep ==
    ASSUME ObjectsInv, Return
    PROVE  ObjectsInv'
<1> DEFINE N == DOMAIN classes
           B == BornIn(heap)
           f == Head(control)
           two == <<Reference(f.self, "parent"), Reference(f.self, "this")>>
           locals == Locals(f.vars)
           vals == two \o locals
           t == Restore(f.self, f.back)
           r == Tail(control)
           c == Unrefs(vals) \o (<<t>> \o r)
<1>1. InScript
    BY DEF Return
<1>2. Continue(heap, Unrefs(<<Operand("parent"), Operand("this")>> \o Locals(Top.vars))
                        \o <<Restore(Top.self, Top.back)>> \o Tail(control))
    BY DEF Return
<1>3. Operand("parent") = Reference(f.self, "parent") /\ Operand("this") = Reference(f.self, "this")
    BY DEF Operand, Top
<1>4. Continue(heap, Unrefs(vals) \o <<t>> \o r)
    BY <1>2, <1>3 DEF Top
<1>5. /\ outcome = "running" /\ Sound(heap, control, N) /\ StackOK(control, B, N)
      /\ control # <<>> /\ f.kind = "frame" /\ f \in Item(B, N)
    BY <1>1, ScriptFacts DEF Top
<1>6. Sound(heap, c, N)
    BY <1>5, ReturnKeeps
<1>7. Unrefs(vals) \o <<t>> \o r = c
    <2>1. f.self \in B /\ f.back \in N /\ f.vars \in [Vars -> Value(B)]
        BY <1>5, ItemFields
    <2>2. two \in Seq(Value(B))
        <3> DEFINE p == Reference(f.self, "parent")
                   q == Reference(f.self, "this")
                   V == Value(B)
        <3>1. p \in V /\ q \in V
            BY <2>1, NullIn DEF Marks
        <3> HIDE DEF p, q, V
        <3>2. <<p, q>> \in Seq(V)
            BY <3>1
        <3>. QED  BY <3>2 DEF p, q, V
    <2>3. locals \in Seq(Value(B))
        BY <2>1, LocalsAreVars
    <2>4. t \in Item(B, N)
        BY <2>1, ItemsMade
    <2>5. r \in Seq(Item(B, N))
        BY <1>5 DEF StackOK
    <2> HIDE DEF two, locals, t, r
    <2>6. vals \in Seq(Value(B))
        BY <2>2, <2>3
    <2> HIDE DEF vals
    <2>. QED  BY <2>4, <2>5, <2>6, UnrefsBelow
<1> HIDE DEF vals, t, r, c
<1>. QED  BY <1>4, <1>5, <1>6, <1>7, Continued

\* A comparison that does not come to an end.
LEMMA CompareKeeps ==
    ASSUME ObjectsInv, Compare
    PROVE  ObjectsInv'
<1>1. Fails \/ Undefined
    BY DEF Compare
<1>. QED  BY <1>1, Failed

-----------------------------------------------------------------------------
(* The work below the statements.                                           *)

\* What is known when an item of the work is on top.
LEMMA WorkFacts ==
    ASSUME ObjectsInv, NEW kind, Working(kind)
    PROVE  /\ outcome = "running" /\ control # <<>> /\ Head(control).kind = kind
           /\ TableOK(classes) /\ Sound(heap, control, DOMAIN classes)
           /\ HeapOK(heap, BornIn(heap), DOMAIN classes)
           /\ StackOK(control, BornIn(heap), DOMAIN classes)
           /\ Head(control) \in Item(BornIn(heap), DOMAIN classes)
           /\ Tail(control) \in Seq(Item(BornIn(heap), DOMAIN classes))
<1> DEFINE B == BornIn(heap)
           N == DOMAIN classes
<1>1. /\ outcome = "running" /\ control # <<>> /\ Head(control).kind = kind
      /\ TableOK(classes) /\ Sound(heap, control, N)
    BY DEF Working, ObjectsInv, TypeOK, Top
<1>2. HeapOK(heap, B, N) /\ StackOK(control, B, N)
    BY <1>1 DEF Sound
<1>3. Head(control) \in Item(B, N)
    BY <1>1, <1>2, Popped
<1>4. Tail(control) \in Seq(Item(B, N))
    BY <1>1, <1>2 DEF StackOK
<1>. QED  BY <1>1, <1>2, <1>3, <1>4

\* OP_STORE.
LEMMA StoreStep ==
    ASSUME ObjectsInv, Store
    PROVE  ObjectsInv'
<1> DEFINE N == DOMAIN classes
           B == BornIn(heap)
           f == control[2]
           old == f.vars[Top.var]
           t == [f EXCEPT !.vars[Top.var] = Top.val]
           r == SubSeq(control, 3, Len(control))
<1>1. CASE Fails
    BY <1>1, Failed
<1>2. CASE ~ Fails
    <2>1. Continue(heap, Unrefs(<<old>>) \o <<t>> \o r)
        BY <1>2 DEF Store
    <2>2. Working("store")
        BY DEF Store
    <2>3. /\ outcome = "running" /\ control # <<>> /\ Head(control).kind = "store"
          /\ Sound(heap, control, N) /\ StackOK(control, B, N)
          /\ Head(control) \in Item(B, N)
        BY <2>2, WorkFacts
    <2>4. /\ control \in Seq(Item(B, N)) /\ Len(control) >= 2
          /\ Head(Tail(control)) = f /\ Tail(Tail(control)) = r /\ f.kind = "frame"
          /\ f \in Item(B, N) /\ r \in Seq(Item(B, N))
        <3> DEFINE S == Item(B, N)
        <3>1. /\ control \in Seq(S) /\ control[1] = Head(control)
              /\ 1 < Len(control) /\ f.kind = "frame"
            <4>1. 1 \in DOMAIN control /\ control[1] = Head(control)
                BY <2>3 DEF StackOK
            <4>. QED  BY <2>3, <4>1 DEF StackOK
        <3> HIDE DEF S
        <3>2. f \in S /\ r \in Seq(S)
            BY <3>1
        <3>3. Tail(control) \in Seq(S) /\ Len(Tail(control)) = Len(control) - 1
              /\ Tail(control)[1] = f
            BY <3>1
        <3>4. Head(Tail(control)) = f
            BY <3>1, <3>3
        <3>5. Tail(Tail(control)) = r
            <4> DEFINE u == Tail(control)
                       n == Len(control)
            <4>1. u \in Seq(S) /\ Len(u) = n - 1 /\ n \in Nat /\ n >= 2
                BY <3>1, <3>3
            <4>2. \A i \in 1 .. n - 1 : u[i] = control[i + 1]
                BY <3>1
            <4>3. Len(r) = n - 2 /\ \A i \in 1 .. n - 2 : r[i] = control[i + 2]
                BY <3>1, <4>1
            <4> HIDE DEF u, r, n
            <4>4. Tail(u) \in Seq(S) /\ Len(Tail(u)) = n - 2 /\ \A i \in 1 .. n - 2 : Tail(u)[i] = u[i + 1]
                BY <4>1
            <4>5. \A i \in 1 .. n - 2 : Tail(u)[i] = r[i]
                BY <4>1, <4>2, <4>3, <4>4
            <4>6. Tail(u) = r
                BY <3>2, <4>3, <4>4, <4>5, SeqEqual
            <4>. QED  BY <4>6 DEF u
        <3>. QED  BY <3>1, <3>2, <3>4, <3>5 DEF S
    <2>5. Top.var \in Vars /\ Top.val \in Value(B) /\ f.vars \in [Vars -> Value(B)]
        BY <2>3, <2>4, ItemFields DEF Top
    <2> HIDE DEF f
    <2>6. t = WithVar(f, Top.var, Top.val)
        BY DEF WithVar
    <2>7. Sound(heap, Unrefs(<<f.vars[Head(control).var]>>)
                          \o (<<WithVar(f, Head(control).var, Head(control).val)>> \o r), N)
        <3>1. Sound(heap, Unrefs(<<Head(Tail(control)).vars[Head(control).var]>>)
                \o (<<WithVar(Head(Tail(control)), Head(control).var, Head(control).val)>>
                       \o Tail(Tail(control))), N)
            BY <2>3, StoreKeeps
        <3>. QED  BY <2>4, <3>1
    <2>8. Sound(heap, Unrefs(<<old>>) \o (<<t>> \o r), N)
        BY <2>6, <2>7 DEF Top
    <2>9. t \in Item(B, N)
        BY <2>4, <2>5 DEF Item
    <2>10. <<old>> \in Seq(Value(B))
        <3>1. old \in Value(B)
            BY <2>5
        <3> HIDE DEF old
        <3>. QED  BY <3>1
    <2> HIDE DEF old, t, r
    <2>11. Unrefs(<<old>>) \o <<t>> \o r = Unrefs(<<old>>) \o (<<t>> \o r)
        <3> DEFINE vals == <<old>>
        <3>1. vals \in Seq(Value(B))
            BY <2>10
        <3> HIDE DEF vals
        <3>2. Unrefs(vals) \o <<t>> \o r = Unrefs(vals) \o (<<t>> \o r)
            BY <2>4, <2>9, <3>1, UnrefsBelow
        <3>. QED  BY <3>2 DEF vals
    <2>. QED  BY <2>1, <2>3, <2>8, <2>11, Continued
<1>. QED  BY <1>1, <1>2

\* OP_MEMBER and OP_CALL.
LEMMA SendStep ==
    ASSUME ObjectsInv, Send
    PROVE  ObjectsInv'
<1> DEFINE N == DOMAIN classes
           B == BornIn(heap)
           t == Head(control)
           o == t.obj
           found == MemberMethod(classes, heap[o].cls, t.mark, t.name)
           method == Overload(classes, found, ArgTypes(t.args))
           h == [LentTo(heap, o, method) EXCEPT ![o].iRef = @ - 1]
           c == Frame(heap, o, method, t.args) \o Tail(control)
<1>1. CASE Fails
    BY <1>1, Failed
<1>2. CASE ~ Fails
    <2>1. found # Nil /\ method # Nil /\ Continue(h, c)
        BY <1>2 DEF Send, Top
    <2>2. Working("send")
        BY DEF Send
    <2>3. /\ outcome = "running" /\ control # <<>> /\ t.kind = "send"
          /\ Sound(heap, control, N) /\ HeapOK(heap, B, N) /\ t \in Item(B, N)
          /\ TableOK(classes)
        BY <2>2, WorkFacts
    <2>4. o \in B /\ t.args \in Seq(Value(B))
        BY <2>3, ItemFields
    <2>5. o \in Objects
        BY <2>4, BornFacts
    <2>6. heap[o].cls \in N
        BY <2>3, <2>4, <2>5, InstanceFields
    <2>7. found \in MethodInfo(N)
        BY <2>1, <2>3, <2>6, MemberMethodIn
    <2>8. found.cls \in N
        BY <2>7 DEF MethodInfo
    <2>9. Len(ArgTypes(t.args)) \in Nat
        <3> DEFINE args == t.args
        <3>1. args \in Seq(Value(B))
            BY <2>4
        <3> HIDE DEF args
        <3>2. Len(ArgTypes(args)) \in Nat
            BY <3>1 DEF ArgTypes
        <3>. QED  BY <3>2 DEF args
    <2> HIDE DEF found
    <2>10. method \in MethodInfo(N)
        BY <2>1, <2>3, <2>8, <2>9, OverloadIn
    <2> HIDE DEF method
    <2>11. Sound(h, c, N)
        BY <2>3, <2>10, SendKeeps
    <2> HIDE DEF h, c
    <2>. QED  BY <2>1, <2>3, <2>11, Continued
<1>. QED  BY <1>1, <1>2

\* PH7_ClassInstanceUnref: one reference less, or the end of the object.
LEMMA DropReferenceKeeps ==
    ASSUME ObjectsInv, DropReference
    PROVE  ObjectsInv'
<1> DEFINE N == DOMAIN classes
           B == BornIn(heap)
           o == Head(control).obj
           h == [heap EXCEPT ![o].iRef = @ - 1]
           n == IF Get(classes[heap[o].cls].hMethod, "__destruct") = Nil THEN h[o].iRef ELSE 2
           dead == [h EXCEPT ![o].state = "destroyed", ![o].iRef = n]
           g == Put(heap, o, Altered(heap[o], n, "destroyed", heap[o].cls))
           c == <<Free(o)>> \o Tail(control)
           next == Magic(g, o, "__destruct", c)
<1>1. Working("unref")
    BY DEF DropReference
<1>2. /\ outcome = "running" /\ control # <<>> /\ Head(control).kind = "unref"
      /\ Sound(heap, control, N) /\ HeapOK(heap, B, N) /\ TableOK(classes)
      /\ Head(control) \in Item(B, N)
    BY <1>1, WorkFacts
<1>3. o \in B /\ o \in Objects /\ heap \in [Objects -> Instance(B, N)] /\ heap[o].iRef \in Int
    BY <1>2, ItemFields, BornFacts, InstanceFields
<1> HIDE DEF o
<1>4. h[o].iRef = heap[o].iRef - 1 /\ n \in Int
    BY <1>3 DEF Instance
<1>5. dead = g
    BY <1>3, <1>4 DEF Put, Altered, Instance
<1>6. dead = [h EXCEPT ![o].state = "destroyed",
                       ![o].iRef = IF Get(classes[heap[o].cls].hMethod, "__destruct") = Nil
                                   THEN @ ELSE 2]
    OBVIOUS
<1>7. \/ Undefined
      \/ LET m == Magic(dead, o, "__destruct", c) IN Continue(m.heap, m.control)
      \/ Continue(h, Tail(control))
    BY <1>6 DEF DropReference, Top, o
<1>8. CASE Undefined
    BY <1>8, Failed
<1>9. CASE LET m == Magic(dead, o, "__destruct", c) IN Continue(m.heap, m.control)
    <2>1. Continue(next.heap, next.control)
        BY <1>5, <1>9
    <2> HIDE DEF n
    <2>2. Sound(g, c, N) /\ o \in BornIn(g)
        BY <1>2, <1>4, DieKeeps DEF o
    <2> HIDE DEF g, c
    <2>3. Sound(next.heap, next.control, N)
        BY <1>2, <2>2, MagicKeeps
    <2> HIDE DEF next
    <2>. QED  BY <1>2, <2>1, <2>3, Continued
<1>10. CASE Continue(h, Tail(control))
    <2>1. Sound(h, Tail(control), N)
        BY <1>2, UnrefKeeps DEF o
    <2> HIDE DEF h
    <2>. QED  BY <1>2, <1>10, <2>1, Continued
<1>. QED  BY <1>7, <1>8, <1>9, <1>10

\* The references of the attributes are left to be dropped.
LEMMA FreeAttributesKeeps ==
    ASSUME ObjectsInv, FreeAttributes
    PROVE  ObjectsInv'
<1> DEFINE N == DOMAIN classes
           B == BornIn(heap)
           o == Head(control).obj
           vals == Vals(heap[o].attrs)
           t == Dispose(o)
           r == Tail(control)
           h == [heap EXCEPT ![o].attrs = <<>>]
<1>1. Working("free")
    BY DEF FreeAttributes
<1>2. /\ outcome = "running" /\ control # <<>> /\ Head(control).kind = "free"
      /\ Sound(heap, control, N) /\ HeapOK(heap, B, N)
      /\ Head(control) \in Item(B, N) /\ r \in Seq(Item(B, N))
    BY <1>1, WorkFacts
<1>3. Continue(h, Unrefs(vals) \o <<t>> \o r)
    BY DEF FreeAttributes, Top
<1>4. Sound(h, Unrefs(vals) \o (<<t>> \o r), N)
    BY <1>2, FreeKeeps
<1>5. o \in B /\ o \in Objects
    BY <1>2, ItemFields, BornFacts
<1>6. vals \in Seq(Value(B)) /\ t \in Item(B, N)
    BY <1>2, <1>5, InstanceFields, ItemsMade
<1> HIDE DEF vals, t, r, h
<1>7. Unrefs(vals) \o <<t>> \o r = Unrefs(vals) \o (<<t>> \o r)
    BY <1>2, <1>6, UnrefsBelow
<1>. QED  BY <1>2, <1>3, <1>4, <1>7, Continued

\* The memory given back.
LEMMA FreeInstanceKeeps ==
    ASSUME ObjectsInv, FreeInstance
    PROVE  ObjectsInv'
<1> DEFINE h == [heap EXCEPT ![Head(control).obj].state = "freed"]
<1>1. Working("dispose") /\ Continue(h, Tail(control))
    BY DEF FreeInstance, Top
<1>2. Sound(h, Tail(control), DOMAIN classes) /\ outcome = "running"
    BY <1>1, WorkFacts, DisposeKeeps
<1> HIDE DEF h
<1>. QED  BY <1>1, <1>2, Continued

\* OP_CALL gives the object its class back.
LEMMA RestoreClassKeeps ==
    ASSUME ObjectsInv, RestoreClass
    PROVE  ObjectsInv'
<1> DEFINE h == IF heap[Head(control).obj].state = "freed" THEN heap
                ELSE [heap EXCEPT ![Head(control).obj].cls = Head(control).back]
<1>1. Working("restore") /\ Continue(h, Tail(control))
    BY DEF RestoreClass, Top
<1>2. Sound(h, Tail(control), DOMAIN classes) /\ outcome = "running"
    BY <1>1, WorkFacts, RestoreKeeps
<1> HIDE DEF h
<1>. QED  BY <1>1, <1>2, Continued

\* The end of the script.
LEMMA FinishKeeps ==
    ASSUME ObjectsInv, Finish
    PROVE  ObjectsInv'
BY Stopped DEF Finish

-----------------------------------------------------------------------------
(* The theorems.                                                            *)

\* Every statement keeps the invariant.
LEMMA StatementKeeps ==
    ASSUME ObjectsInv, Statement
    PROVE  ObjectsInv'
BY CreateKeeps, NewSendKeeps, CallKeeps, CloneStep, AssignKeeps, UnsetStep,
   SetAttributeKeeps, GetAttributeKeeps, CompareKeeps, ReturnStep DEF Statement

\* Every step below the statements keeps the invariant.
LEMMA WorkKeeps ==
    ASSUME ObjectsInv, Work
    PROVE  ObjectsInv'
BY StoreStep, SendStep, DropReferenceKeeps, FreeAttributesKeeps, FreeInstanceKeeps,
   RestoreClassKeeps DEF Work

\* ... and so does every step.
LEMMA NextKeeps ==
    ASSUME ObjectsInv, [Next]_vars
    PROVE  ObjectsInv'
<1>1. CASE Next
    BY <1>1, LinkKeeps, StartKeeps, StatementKeeps, WorkKeeps, FinishKeeps DEF Next
<1>2. CASE UNCHANGED vars
    BY <1>2, Stopped DEF vars
<1>. QED  BY <1>1, <1>2

\* Tables, heap and control stack are well formed, the counts of the live
\* objects are balanced and their classes lent by the calls that run, in every
\* state of every program.
THEOREM InductiveInvariant == Spec => []ObjectsInv
<1>1. Init => ObjectsInv
    BY InitHolds
<1>2. ObjectsInv /\ [Next]_vars => ObjectsInv'
    BY NextKeeps
<1>. QED  BY <1>1, <1>2, PTL DEF Spec

\* Nothing refers to an object that was not made: tables, instances and the
\* control stack are always of the types the C code declares.
THEOREM TypeCorrect == Spec => []TypeOK
<1>1. ObjectsInv => TypeOK
    BY DEF ObjectsInv
<1>. QED  BY <1>1, InductiveInvariant, PTL

\* PH7_ClassInstanceUnref releases an instance with its last reference and
\* never before: however the statements, the destructors and the clones of a
\* script interleave, the count of a live instance is the number of variables,
\* attributes, operands and pending calls that refer to it.
THEOREM ReferencesCounted == Spec => []RefsCounted
<1>1. ObjectsInv => RefsCounted
    BY DEF ObjectsInv, Sound, Balanced, RefsCounted, References
<1>. QED  BY <1>1, InductiveInvariant, PTL

\* OP_CALL gives back the class it lends to the object of a call: a live
\* instance is of the class it was created from, or, while methods of it run,
\* of the class of the innermost of them.
THEOREM ClassGivenBack == Spec => []ClassRestored
<1>1. ASSUME ObjectsInv, NEW o \in Objects, heap[o].state = "live"
      PROVE  LET lends == {i \in DOMAIN control : LendsOn(control[i], o)}
             IN  IF lends = {} THEN heap[o].cls = heap[o].born
                 ELSE LET t == control[Min(lends)]
                      IN  t.kind = "frame" => heap[o].cls = t.cls
    <2> DEFINE lends == {i \in DOMAIN control : LendsOn(control[i], o)}
    <2>1. Rightful(control, o, 0, heap[o].born, heap[o].cls)
        BY <1>1 DEF ObjectsInv, Sound, Balanced, Lent
    <2>2. DOMAIN control = 1 .. Len(control) /\ Len(control) \in Nat
        BY <1>1 DEF ObjectsInv, TypeOK, StackOK
    <2>3. CASE lends = {}
        BY <2>1, <2>2, <2>3 DEF Rightful
    <2>4. CASE lends # {}
        <3>1. lends \subseteq Nat
            BY <2>2
        <3>2. Min(lends) \in lends /\ \A j \in lends : Min(lends) <= j
            <4> HIDE DEF lends
            <4>. QED  BY <2>4, <3>1, MinIn
        <3> DEFINE m == Min(lends)
        <3>3. 0 < m /\ m \in DOMAIN control /\ LendsOn(control[m], o)
            BY <2>2, <3>2
        <3>4. \A j \in DOMAIN control : 0 < j /\ j < m => ~ LendsOn(control[j], o)
            <4> HIDE DEF m
            <4>1. \A j \in lends : m <= j
                BY <3>2 DEF m
            <4>. QED  BY <2>2, <3>3, <4>1
        <3>5. control[m].kind = "frame" => heap[o].cls = control[m].cls
            <4> HIDE DEF m
            <4>. QED  BY <2>1, <3>3, <3>4 DEF Rightful
        <3>. QED  BY <2>4, <3>5
    <2>. QED  BY <2>3, <2>4
<1>2. ObjectsInv => ClassRestored
    BY <1>1 DEF ClassRestored
<1>. QED  BY <1>2, InductiveInvariant, PTL
=============================================================================
