------------------------- MODULE OutputControlProofs -------------------------
(***************************************************************************)
(* The four properties of OutputControl for any number of prints, buffers,  *)
(* nested filters, shutdown callbacks and executions.  The chunks are in    *)
(* the places of Contents: the consumer's at 0, the buffers' above it.  A   *)
(* step appends to a place, empties one, or moves the last one behind the   *)
(* first; the lemmas say what that does to Once, Ascending and Written.     *)
(* The invariant adds what the running filters hold and point to.           *)
(***************************************************************************)
EXTENDS OutputControl, TLAPS

Pieces(n) == [0 .. n -> Seq(Nat)]

-----------------------------------------------------------------------------
(* The lists of chunks: the consumer's and, above it, one for each buffer.  *)

\* What is in a place and is no mark is written.
LEMMA WrittenIn ==
    ASSUME NEW C, NEW k \in DOMAIN C, NEW i \in DOMAIN C[k], C[k][i] # Mark
    PROVE  C[k][i] \in Written(C)
<1>1. C[k][i] \in Range(C[k])
  BY DEF Range
<1>2. C[k][i] \in UNION {Range(C[j]) : j \in DOMAIN C}
  BY <1>1
<1> QED BY <1>2 DEF Written

\* What is written is in a place.
LEMMA WrittenAt ==
    ASSUME NEW C, NEW v \in Written(C)
    PROVE  \E k \in DOMAIN C : \E i \in DOMAIN C[k] : v = C[k][i] /\ v # Mark
<1>1. v # Mark /\ v \in UNION {Range(C[k]) : k \in DOMAIN C}
  BY DEF Written
<1>2. PICK k \in DOMAIN C : v \in Range(C[k])
  BY <1>1
<1>3. \E i \in DOMAIN C[k] : v = C[k][i]
  BY <1>2 DEF Range
<1> QED BY <1>1, <1>3

\* To show Once and Ascending of D, whose places are some of C's.
LEMMA Subplaces ==
    ASSUME NEW C, NEW D, Once(C), DOMAIN D \subseteq Nat,
           \A a \in DOMAIN D : D[a] = <<>> \/ (a \in DOMAIN C /\ D[a] = C[a])
    PROVE  Once(D) /\ (Ascending(C) => Ascending(D)) /\ Written(D) \subseteq Written(C)
<1>1. \A a \in DOMAIN D : \A i \in DOMAIN D[a] :
          a \in DOMAIN C /\ i \in DOMAIN C[a] /\ D[a][i] = C[a][i]
  OBVIOUS
<1>2. Once(D)
  <2> SUFFICES ASSUME NEW a \in DOMAIN D, NEW b \in DOMAIN D, NEW i \in DOMAIN D[a],
                      NEW j \in DOMAIN D[b], D[a][i] # Mark, D[a][i] = D[b][j]
               PROVE  a = b /\ i = j
    BY DEF Once
  <2>1. /\ a \in DOMAIN C /\ i \in DOMAIN C[a] /\ D[a][i] = C[a][i]
        /\ b \in DOMAIN C /\ j \in DOMAIN C[b] /\ D[b][j] = C[b][j]
    BY <1>1
  <2>2. C[a][i] # Mark /\ C[a][i] = C[b][j]
    BY <2>1
  <2> QED BY <2>1, <2>2 DEF Once
<1>3. ASSUME Ascending(C) PROVE Ascending(D)
  <2> SUFFICES ASSUME NEW a \in DOMAIN D, NEW b \in DOMAIN D, NEW i \in DOMAIN D[a],
                      NEW j \in DOMAIN D[b], a < b \/ (a = b /\ i < j),
                      D[a][i] # Mark, D[b][j] # Mark
               PROVE  D[a][i] < D[b][j]
    BY DEF Ascending
  <2>1. /\ a \in DOMAIN C /\ i \in DOMAIN C[a] /\ D[a][i] = C[a][i]
        /\ b \in DOMAIN C /\ j \in DOMAIN C[b] /\ D[b][j] = C[b][j]
    BY <1>1
  <2> QED BY <1>3, <2>1 DEF Ascending
<1>4. ASSUME NEW v \in Written(D) PROVE v \in Written(C)
  <2>1. PICK k \in DOMAIN D : \E i \in DOMAIN D[k] : v = D[k][i] /\ v # Mark
    BY WrittenAt
  <2>2. PICK i \in DOMAIN D[k] : v = D[k][i] /\ v # Mark
    BY <2>1
  <2>3. k \in DOMAIN C /\ i \in DOMAIN C[k] /\ v = C[k][i] /\ v # Mark
    BY <1>1, <2>2
  <2> QED BY <2>3, WrittenIn
<1> QED BY <1>2, <1>3, <1>4

\* The last place emptied (SyBlobRelease, SyBlobReset on the top buffer).
LEMMA ClearTop ==
    ASSUME NEW n \in Nat, NEW C \in Pieces(n), NEW D, D = [C EXCEPT ![n] = <<>>],
           Once(C)
    PROVE  /\ D \in Pieces(n) /\ Once(D)
           /\ Written(D) = Written(C) \ Range(C[n])
           /\ Ascending(C) => Ascending(D)
<1>1. D \in Pieces(n) /\ DOMAIN C = 0 .. n /\ DOMAIN D = 0 .. n
  BY DEF Pieces
<1>2. /\ D[n] = <<>> /\ DOMAIN D[n] = {}
      /\ \A k \in 0 .. n : k # n => D[k] = C[k]
  BY DEF Pieces
<1>3. Once(D) /\ (Ascending(C) => Ascending(D)) /\ Written(D) \subseteq Written(C)
  <2>1. /\ DOMAIN D \subseteq Nat
        /\ \A a \in DOMAIN D : D[a] = <<>> \/ (a \in DOMAIN C /\ D[a] = C[a])
    BY <1>1, <1>2
  <2> QED BY <2>1, Subplaces
<1>4. ASSUME NEW v \in Written(D) PROVE v \notin Range(C[n])
  <2>1. PICK k \in DOMAIN D : \E i \in DOMAIN D[k] : v = D[k][i] /\ v # Mark
    BY ONLY <1>4, WrittenAt
  <2>2. PICK i \in DOMAIN D[k] : v = D[k][i] /\ v # Mark
    BY <2>1
  <2>3. k # n /\ k \in DOMAIN C /\ i \in DOMAIN C[k] /\ v = C[k][i] /\ n \in DOMAIN C
    BY <1>1, <1>2, <2>2
  <2>4. \A j \in DOMAIN C[n] : C[n][j] # v
    BY <2>2, <2>3 DEF Once
  <2> QED BY <2>4 DEF Range
<1>5. ASSUME NEW v \in Written(C), v \notin Range(C[n]) PROVE v \in Written(D)
  <2>1. PICK k \in DOMAIN C : \E i \in DOMAIN C[k] : v = C[k][i] /\ v # Mark
    BY WrittenAt
  <2>2. PICK i \in DOMAIN C[k] : v = C[k][i] /\ v # Mark
    BY <2>1
  <2>3. k # n
    BY <1>5, <2>2 DEF Range
  <2>4. k \in DOMAIN D /\ i \in DOMAIN D[k] /\ v = D[k][i]
    BY <1>1, <1>2, <2>2, <2>3
  <2> QED BY <2>2, <2>4, WrittenIn
<1> QED BY <1>1, <1>3, <1>4, <1>5

\* An empty last place dropped (SySetPop).
LEMMA DropTop ==
    ASSUME NEW n \in Nat \ {0}, NEW C \in Pieces(n), C[n] = <<>>,
           NEW D, D = [k \in 0 .. n - 1 |-> C[k]], Once(C)
    PROVE  /\ D \in Pieces(n - 1) /\ Once(D)
           /\ Written(D) = Written(C)
           /\ Ascending(C) => Ascending(D)
<1>1. /\ n - 1 \in Nat /\ D \in Pieces(n - 1) /\ DOMAIN C = 0 .. n /\ DOMAIN D = 0 .. n - 1
      /\ \A k \in 0 .. n - 1 : k \in 0 .. n /\ D[k] = C[k]
      /\ \A k \in 0 .. n : k # n => k \in 0 .. n - 1
  BY DEF Pieces
<1>2. DOMAIN C[n] = {}
  OBVIOUS
<1>3. Once(D) /\ (Ascending(C) => Ascending(D)) /\ Written(D) \subseteq Written(C)
  <2>1. /\ DOMAIN D \subseteq Nat
        /\ \A a \in DOMAIN D : D[a] = <<>> \/ (a \in DOMAIN C /\ D[a] = C[a])
    BY <1>1
  <2> QED BY <2>1, Subplaces
<1>4. ASSUME NEW v \in Written(C) PROVE v \in Written(D)
  <2>1. PICK k \in DOMAIN C : \E i \in DOMAIN C[k] : v = C[k][i] /\ v # Mark
    BY WrittenAt
  <2>2. PICK i \in DOMAIN C[k] : v = C[k][i] /\ v # Mark
    BY <2>1
  <2>3. k \in DOMAIN D /\ i \in DOMAIN D[k] /\ v = D[k][i]
    BY <1>1, <1>2, <2>2
  <2> QED BY <2>2, <2>3, WrittenIn
<1> QED BY <1>1, <1>3, <1>4

\* An empty place added at the end (ob_start).
LEMMA PushTop ==
    ASSUME NEW n \in Nat, NEW C \in Pieces(n), Once(C),
           NEW D, D = [k \in 0 .. n + 1 |-> IF k = n + 1 THEN <<>> ELSE C[k]]
    PROVE  /\ D \in Pieces(n + 1) /\ Once(D)
           /\ Written(D) = Written(C)
           /\ Ascending(C) => Ascending(D)
<1>1. /\ n + 1 \in Nat /\ D \in Pieces(n + 1) /\ D[n + 1] = <<>>
      /\ DOMAIN C = 0 .. n /\ DOMAIN D = 0 .. n + 1
      /\ \A k \in 0 .. n : k \in 0 .. n + 1 /\ D[k] = C[k]
      /\ \A k \in 0 .. n + 1 : k # n + 1 => k \in 0 .. n
  <2>1. ASSUME NEW k \in 0 .. n + 1 PROVE D[k] \in Seq(Nat)
    BY DEF Pieces
  <2>2. D \in Pieces(n + 1)
    BY <2>1 DEF Pieces
  <2> QED BY <2>2 DEF Pieces
<1>3. Once(D) /\ (Ascending(C) => Ascending(D)) /\ Written(D) \subseteq Written(C)
  <2>1. /\ DOMAIN D \subseteq Nat
        /\ \A a \in DOMAIN D : D[a] = <<>> \/ (a \in DOMAIN C /\ D[a] = C[a])
    BY <1>1
  <2> QED BY <2>1, Subplaces
<1>4. ASSUME NEW v \in Written(C) PROVE v \in Written(D)
  <2>1. PICK k \in DOMAIN C : \E i \in DOMAIN C[k] : v = C[k][i] /\ v # Mark
    BY WrittenAt
  <2>2. PICK i \in DOMAIN C[k] : v = C[k][i] /\ v # Mark
    BY <2>1
  <2>3. k \in DOMAIN D /\ i \in DOMAIN D[k] /\ v = D[k][i]
    BY <1>1, <2>2
  <2> QED BY <2>2, <2>3, WrittenIn
<1> QED BY <1>1, <1>3, <1>4

\* At most a mark and a chunk v behind a sequence: what is new is v, at the end.
LEMMA AppendSeq ==
    ASSUME NEW s \in Seq(Nat), NEW t \in Seq(Nat), NEW v, NEW l \in 0 .. 2,
           Len(t) = Len(s) + l, \A i \in 1 .. Len(s) : t[i] = s[i],
           l > 0 => t[Len(s) + l] = v, l = 2 => t[Len(s) + 1] = Mark
    PROVE  /\ DOMAIN s \subseteq DOMAIN t /\ DOMAIN t = 1 .. Len(t)
           /\ \A i \in DOMAIN s : t[i] = s[i]
           /\ \A i \in DOMAIN t : i \notin DOMAIN s /\ t[i] # Mark => i = Len(t) /\ t[i] = v
           /\ l > 0 => Len(t) \in DOMAIN t /\ t[Len(t)] = v
<1>1. /\ Len(s) \in Nat /\ DOMAIN s = 1 .. Len(s)
      /\ Len(t) \in Nat /\ DOMAIN t = 1 .. Len(t)
  OBVIOUS
<1>2. ASSUME NEW i \in DOMAIN t, i \notin DOMAIN s
      PROVE  l > 0 /\ (i = Len(s) + l \/ (l = 2 /\ i = Len(s) + 1))
  BY <1>1, <1>2
<1>3. l > 0 => Len(t) \in DOMAIN t /\ t[Len(t)] = v
  BY <1>1
<1> QED BY <1>1, <1>2, <1>3

\* Piece k with d at its end.
Put(C, k, d) == [C EXCEPT ![k] = C[k] \o d]

\* What a store does to a piece, place by place.
LEMMA Appended ==
    ASSUME NEW n \in Nat, NEW C \in Pieces(n), NEW k \in 0 .. n, NEW d \in Seq(Nat)
    PROVE  LET D == Put(C, k, d) IN
           /\ D \in Pieces(n) /\ \A a \in 0 .. n : a # k => D[a] = C[a]
           /\ Len(D[k]) = Len(C[k]) + Len(d)
           /\ \A i \in 1 .. Len(C[k]) : D[k][i] = C[k][i]
           /\ \A i \in 1 .. Len(d) : D[k][Len(C[k]) + i] = d[i]
<1>1. C[k] \in Seq(Nat) /\ C \in [0 .. n -> Seq(Nat)]
  BY DEF Pieces
<1> DEFINE s == C[k]
           t == s \o d
           D == Put(C, k, d)
<1>2. s \in Seq(Nat) /\ D = [C EXCEPT ![k] = t]
  BY <1>1 DEF Put
<1> HIDE DEF s
<1>3. /\ t \in Seq(Nat) /\ Len(t) = Len(s) + Len(d)
      /\ \A i \in 1 .. Len(s) : t[i] = s[i]
      /\ \A i \in 1 .. Len(d) : t[Len(s) + i] = d[i]
  BY <1>2
<1> HIDE DEF t, D
<1>4. D \in Pieces(n) /\ D[k] = t /\ \A a \in 0 .. n : a # k => D[a] = C[a]
  BY <1>1, <1>2, <1>3 DEF Pieces
<1> QED BY <1>3, <1>4 DEF s, D

\* D is C with l more elements behind place k: nothing, v, or a mark and v.
Extended(C, D, n, k, l, v) ==
    /\ \A a \in 0 .. n : a # k => D[a] = C[a]
    /\ Len(D[k]) = Len(C[k]) + l
    /\ \A i \in 1 .. Len(C[k]) : D[k][i] = C[k][i]
    /\ l > 0 => D[k][Len(C[k]) + l] = v
    /\ l = 2 => D[k][Len(C[k]) + 1] = Mark

\* The same behind one of the places, for a chunk v that is nowhere yet.
LEMMA AppendPiece ==
    ASSUME NEW n \in Nat, NEW C \in Pieces(n), Once(C), NEW k \in 0 .. n,
           NEW v \in Nat, v # Mark, v \notin Written(C), NEW l \in 0 .. 2,
           NEW D \in Pieces(n), Extended(C, D, n, k, l, v)
    PROVE  /\ Once(D)
           /\ Written(D) = IF l = 0 THEN Written(C) ELSE Written(C) \cup {v}
           /\ Ascending(C) /\ k = n /\ (\A w \in Written(C) : w < v) => Ascending(D)
<1>1. /\ C[k] \in Seq(Nat) /\ DOMAIN C = 0 .. n /\ DOMAIN D = 0 .. n /\ D[k] \in Seq(Nat)
      /\ l \in Nat
  BY DEF Pieces
<1> DEFINE top == Len(D[k])
<1>2. top = Len(C[k]) + l /\ DOMAIN C[k] = 1 .. Len(C[k]) /\ Len(C[k]) \in Nat
  BY <1>1 DEF Extended
<1>3. /\ DOMAIN C[k] \subseteq DOMAIN D[k] /\ DOMAIN D[k] = 1 .. top
      /\ \A i \in DOMAIN C[k] : D[k][i] = C[k][i]
      /\ \A i \in DOMAIN D[k] : i \notin DOMAIN C[k] /\ D[k][i] # Mark => i = top /\ D[k][i] = v
      /\ l > 0 => top \in DOMAIN D[k] /\ D[k][top] = v
  <2> DEFINE s == C[k]
             t == D[k]
  <2>1. /\ s \in Seq(Nat) /\ t \in Seq(Nat) /\ Len(t) = Len(s) + l
        /\ \A i \in 1 .. Len(s) : t[i] = s[i]
        /\ (l > 0 => t[Len(s) + l] = v) /\ (l = 2 => t[Len(s) + 1] = Mark)
    BY <1>1 DEF Extended
  <2> HIDE DEF s, t
  <2>2. /\ DOMAIN s \subseteq DOMAIN t /\ DOMAIN t = 1 .. Len(t)
        /\ \A i \in DOMAIN s : t[i] = s[i]
        /\ \A i \in DOMAIN t : i \notin DOMAIN s /\ t[i] # Mark => i = Len(t) /\ t[i] = v
        /\ l > 0 => Len(t) \in DOMAIN t /\ t[Len(t)] = v
    BY ONLY <2>1, AppendSeq
  <2> QED BY <2>2 DEF s, t
<1>3a. DOMAIN D = 0 .. n /\ \A a \in 0 .. n : a # k => D[a] = C[a]
  BY <1>1 DEF Extended
<1> HIDE DEF top
<1>4. ASSUME NEW a \in DOMAIN D, NEW i \in DOMAIN D[a], D[a][i] # Mark
      PROVE  \/ a \in DOMAIN C /\ i \in DOMAIN C[a] /\ D[a][i] = C[a][i] /\ C[a][i] \in Written(C)
             \/ a = k /\ i = top /\ D[a][i] = v /\ i \notin DOMAIN C[a]
  <2>1. CASE a = k /\ i \notin DOMAIN C[k]
    BY <1>3, <1>3a, <1>4, <2>1
  <2>2. CASE ~(a = k /\ i \notin DOMAIN C[k])
    <3>1. a \in DOMAIN C /\ i \in DOMAIN C[a] /\ D[a][i] = C[a][i]
      BY <1>1, <1>3, <1>3a, <2>2
    <3> QED BY <1>4, <3>1, WrittenIn
  <2> QED BY <2>1, <2>2
<1>5. Once(D)
  <2> SUFFICES ASSUME NEW a \in DOMAIN D, NEW b \in DOMAIN D, NEW i \in DOMAIN D[a],
                      NEW j \in DOMAIN D[b], D[a][i] # Mark, D[a][i] = D[b][j]
               PROVE  a = b /\ i = j
    BY DEF Once
  <2>1. D[b][j] # Mark
    OBVIOUS
  <2>2. CASE D[a][i] = v
    <3>1. a = k /\ i = top
      BY <1>4, <2>2
    <3>2. b = k /\ j = top
      BY <1>4, <2>1, <2>2
    <3> QED BY <3>1, <3>2
  <2>3. CASE D[a][i] # v
    <3>1. a \in DOMAIN C /\ i \in DOMAIN C[a] /\ D[a][i] = C[a][i]
      BY <1>4, <2>3
    <3>2. b \in DOMAIN C /\ j \in DOMAIN C[b] /\ D[b][j] = C[b][j]
      BY <1>4, <2>1, <2>3
    <3>3. C[a][i] # Mark /\ C[a][i] = C[b][j]
      BY <3>1, <3>2
    <3> QED BY <3>1, <3>2, <3>3 DEF Once
  <2> QED BY <2>2, <2>3
<1> DEFINE Late == k = n /\ \A w \in Written(C) : w < v
<1> HIDE DEF Late
<1>6. ASSUME Ascending(C), Late
      PROVE  Ascending(D)
  <2> SUFFICES ASSUME NEW a \in DOMAIN D, NEW b \in DOMAIN D, NEW i \in DOMAIN D[a],
                      NEW j \in DOMAIN D[b], a < b \/ (a = b /\ i < j),
                      D[a][i] # Mark, D[b][j] # Mark
               PROVE  D[a][i] < D[b][j]
    BY DEF Ascending, Mark
  <2>1. CASE a \in DOMAIN C /\ i \in DOMAIN C[a] /\ D[a][i] = C[a][i] /\ C[a][i] \in Written(C)
    <3>1. CASE b = k /\ j = top /\ D[b][j] = v
      BY <1>6, <2>1, <3>1 DEF Late
    <3>2. CASE b \in DOMAIN C /\ j \in DOMAIN C[b] /\ D[b][j] = C[b][j]
      <4>1. C[a][i] # Mark /\ C[b][j] # Mark
        BY <2>1, <3>2
      <4>2. C[a][i] < C[b][j]
        BY <1>6, <2>1, <3>2, <4>1 DEF Ascending
      <4> QED BY <2>1, <3>2, <4>2
    <3> QED BY <1>4, <3>1, <3>2
  <2>2. CASE a = k /\ i = top /\ D[a][i] = v /\ i \notin DOMAIN C[a]
    <3>1. b = k /\ i < j
      BY <1>3a, <1>6, <2>2 DEF Late
    <3>2. j \in 1 .. top /\ top \in Nat
      BY <1>3, <3>1 DEF top
    <3> QED BY <2>2, <3>1, <3>2
  <2> QED BY <1>4, <2>1, <2>2
<1>7. ASSUME NEW w \in Written(D) PROVE w \in Written(C) \/ (l > 0 /\ w = v)
  <2>1. PICK a \in DOMAIN D : \E i \in DOMAIN D[a] : w = D[a][i] /\ w # Mark
    BY ONLY <1>7, WrittenAt
  <2>2. PICK i \in DOMAIN D[a] : w = D[a][i] /\ w # Mark
    BY <2>1
  <2>3. l = 0 => DOMAIN D[k] = DOMAIN C[k]
    <3>1. l = 0 => top = Len(C[k])
      BY <1>1, <1>2
    <3> QED BY <1>1, <1>3, <3>1
  <2>4. \/ a \in DOMAIN C /\ i \in DOMAIN C[a] /\ D[a][i] = C[a][i] /\ C[a][i] \in Written(C)
        \/ a = k /\ D[a][i] = v /\ i \notin DOMAIN C[a]
    BY <1>4, <2>2
  <2> QED BY <2>2, <2>3, <2>4
<1>8. ASSUME NEW w \in Written(C) PROVE w \in Written(D)
  <2>1. PICK a \in DOMAIN C : \E i \in DOMAIN C[a] : w = C[a][i] /\ w # Mark
    BY <1>8, WrittenAt, Zenon
  <2>2. PICK i \in DOMAIN C[a] : w = C[a][i] /\ w # Mark
    BY <2>1
  <2>3. a \in DOMAIN D /\ i \in DOMAIN D[a] /\ w = D[a][i]
    BY <1>1, <1>3, <1>3a, <2>2
  <2> QED BY <2>2, <2>3, WrittenIn
<1>9. l > 0 => v \in Written(D)
  <2>1. l > 0 => k \in DOMAIN D /\ top \in DOMAIN D[k] /\ D[k][top] = v
    BY <1>3, <1>3a
  <2> QED BY <2>1, WrittenIn
<1>10. Written(D) = IF l = 0 THEN Written(C) ELSE Written(C) \cup {v}
  <2>1. CASE l = 0
    BY <1>7, <1>8, <2>1
  <2>2. CASE l > 0
    BY <1>7, <1>8, <1>9, <2>2
  <2> QED BY <2>1, <2>2
<1> QED BY <1>3a, <1>5, <1>6, <1>10 DEF Late

\* A chunk v that is nowhere yet, marked or not, or nothing, put at the end of a
\* piece.
LEMMA PutPiece ==
    ASSUME NEW n \in Nat, NEW C \in Pieces(n), Once(C), NEW k \in 0 .. n,
           NEW v \in Nat, v # Mark, v \notin Written(C), NEW d \in Seq(Nat),
           Len(d) \in 0 .. 2, Len(d) > 0 => d[Len(d)] = v, Len(d) = 2 => d[1] = Mark
    PROVE  LET D == Put(C, k, d) IN
           /\ Once(D)
           /\ Written(D) = IF Len(d) = 0 THEN Written(C) ELSE Written(C) \cup {v}
           /\ Ascending(C) /\ k = n /\ (\A w \in Written(C) : w < v) => Ascending(D)
<1> DEFINE D == Put(C, k, d)
           l == Len(d)
<1>1. D \in Pieces(n) /\ \A a \in 0 .. n : a # k => D[a] = C[a]
  BY ONLY Appended
<1>2. Len(D[k]) = Len(C[k]) + l
  BY ONLY Appended
<1>3. \A i \in 1 .. Len(C[k]) : D[k][i] = C[k][i]
  BY ONLY Appended
<1>4. \A i \in 1 .. l : D[k][Len(C[k]) + i] = d[i]
  BY ONLY Appended
<1>5. l \in 0 .. 2 /\ Once(C) /\ v # Mark /\ v \notin Written(C)
  OBVIOUS
<1>6. (l > 0 => D[k][Len(C[k]) + l] = v) /\ (l = 2 => D[k][Len(C[k]) + 1] = Mark)
  BY <1>4, <1>5
<1> HIDE DEF D, l
<1>7. Extended(C, D, n, k, l, v) /\ D \in Pieces(n)
  BY <1>1, <1>2, <1>3, <1>6 DEF Extended
<1>8. Once(D)
  BY ONLY <1>5, <1>7, AppendPiece
<1>9. Written(D) = IF l = 0 THEN Written(C) ELSE Written(C) \cup {v}
  BY ONLY <1>5, <1>7, AppendPiece
<1>10. Ascending(C) /\ k = n /\ (\A w \in Written(C) : w < v) => Ascending(D)
  BY ONLY <1>5, <1>7, AppendPiece
<1> QED BY <1>8, <1>9, <1>10 DEF D, l

Moved(C, n) == [C EXCEPT ![0] = C[0] \o C[n], ![n] = <<>>]

\* The last place moved behind the first (VmObFlush): behind the only other place
\* that keeps the order.
LEMMA MoveTop ==
    ASSUME NEW n \in Nat \ {0}, NEW C \in Pieces(n), Once(C), NEW D, D = Moved(C, n)
    PROVE  /\ D \in Pieces(n) /\ Once(D)
           /\ Written(D) = Written(C)
           /\ Ascending(C) /\ n = 1 => Ascending(D)
<1> DEFINE l == Len(C[0])
<1>1. /\ C[0] \in Seq(Nat) /\ C[n] \in Seq(Nat) /\ l \in Nat /\ Len(C[n]) \in Nat
      /\ DOMAIN C[0] = 1 .. l /\ DOMAIN C[n] = 1 .. Len(C[n]) /\ DOMAIN C = 0 .. n
      /\ 0 \in 0 .. n /\ n \in 0 .. n /\ n # 0
  BY DEF Pieces
<1>2. D[0] = C[0] \o C[n] /\ D[n] = <<>> /\ DOMAIN D[n] = {}
  BY <1>1 DEF Pieces, Moved
<1> DEFINE m == Len(C[n])
           s == C[0]
           q == C[n]
           t == D[0]
<1>3. /\ t \in Seq(Nat) /\ DOMAIN t = 1 .. l + m /\ m \in Nat
      /\ \A i \in 1 .. l : t[i] = s[i]
      /\ \A i \in 1 .. m : t[l + i] = q[i]
  <2>1. s \in Seq(Nat) /\ q \in Seq(Nat) /\ t = s \o q /\ l = Len(s) /\ m = Len(q)
    BY <1>1, <1>2
  <2> HIDE DEF s, q, t, l, m
  <2> QED BY <2>1
<1>4. D \in Pieces(n) /\ DOMAIN D = 0 .. n /\ \A a \in 0 .. n : a # 0 /\ a # n => D[a] = C[a]
  <2>1. C[0] \o C[n] \in Seq(Nat) /\ C \in [0 .. n -> Seq(Nat)]
    BY <1>2, <1>3 DEF Pieces
  <2> DEFINE x == C[0] \o C[n]
             e == <<>>
  <2>2. D = [C EXCEPT ![0] = x, ![n] = e] /\ x \in Seq(Nat) /\ e \in Seq(Nat)
    BY <2>1 DEF Moved
  <2> HIDE DEF s, q, t, l, m, x, e
  <2>3. DOMAIN D = 0 .. n /\ \A a \in 0 .. n : a # 0 /\ a # n => D[a] = C[a]
    BY ONLY <1>1, <2>1, <2>2
  <2>4. \A a \in 0 .. n : D[a] \in Seq(Nat)
    BY ONLY <1>1, <2>1, <2>2
  <2> QED BY ONLY <2>1, <2>2, <2>3, <2>4 DEF Pieces
<1> HIDE DEF l, s, q, t, m
<1>5. ASSUME NEW i \in DOMAIN t
      PROVE  /\ i \in Nat
             /\ i > l => i - l \in 1 .. m /\ t[i] = q[i - l]
             /\ ~(i > l) => i \in 1 .. l /\ t[i] = s[i]
  <2>1. l \in Nat /\ m \in Nat /\ i \in 1 .. l + m
    BY <1>1, <1>3
  <2>2. CASE i > l
    <3> DEFINE j == i - l
    <3>1. j \in 1 .. m /\ l + j = i
      BY <2>1, <2>2
    <3> HIDE DEF j
    <3>2. t[l + j] = q[j]
      BY <1>3, <3>1
    <3> QED BY <2>1, <2>2, <3>1, <3>2 DEF j
  <2>3. CASE ~(i > l)
    <3>1. i \in 1 .. l
      BY <2>1, <2>3
    <3> QED BY <1>3, <2>1, <2>3, <3>1
  <2> QED BY <2>2, <2>3
<1>5a. DOMAIN C[0] = 1 .. l /\ DOMAIN C[n] = 1 .. m
  BY <1>1 DEF m
<1> DEFINE Src(a, i) == IF a = 0 /\ i > l THEN n ELSE a
           Pos(a, i) == IF a = 0 /\ i > l THEN i - l ELSE i
<1>6. ASSUME NEW a \in DOMAIN D, NEW i \in DOMAIN D[a]
      PROVE  /\ a # n /\ Src(a, i) \in DOMAIN C /\ Pos(a, i) \in DOMAIN C[Src(a, i)]
             /\ D[a][i] = C[Src(a, i)][Pos(a, i)]
  <2>1. a # n
    BY <1>2
  <2>2. CASE a = 0
    BY <1>1, <1>5, <1>5a, <2>1, <2>2 DEF s, q, t
  <2>3. CASE a # 0
    BY <1>1, <1>4, <2>1, <2>3
  <2> QED BY <2>1, <2>2, <2>3
<1>7. ASSUME NEW a \in DOMAIN D, NEW i \in DOMAIN D[a], NEW b \in DOMAIN D, NEW j \in DOMAIN D[b]
      PROVE  /\ Src(a, i) = Src(b, j) /\ Pos(a, i) = Pos(b, j) => a = b /\ i = j
             /\ n = 1 /\ (a < b \/ (a = b /\ i < j)) =>
                    Src(a, i) < Src(b, j) \/ (Src(a, i) = Src(b, j) /\ Pos(a, i) < Pos(b, j))
  <2>1. a # n /\ b # n /\ a \in Nat /\ b \in Nat /\ l \in Nat /\ (n = 1 => a = 0 /\ b = 0)
    BY <1>1, <1>4, <1>6
  <2>2. (a = 0 => i \in Nat) /\ (b = 0 => j \in Nat)
    BY <1>5 DEF t
  <2>3. CASE (a = 0 /\ i > l) /\ (b = 0 /\ j > l)
    BY <2>1, <2>2, <2>3
  <2>4. CASE (a = 0 /\ i > l) /\ ~(b = 0 /\ j > l)
    BY <2>1, <2>2, <2>4
  <2>5. CASE ~(a = 0 /\ i > l) /\ (b = 0 /\ j > l)
    BY <2>1, <2>2, <2>5
  <2>6. CASE ~(a = 0 /\ i > l) /\ ~(b = 0 /\ j > l)
    BY <2>1, <2>2, <2>6
  <2> QED BY <2>3, <2>4, <2>5, <2>6
<1> HIDE DEF Src, Pos
<1>8. Once(D)
  <2> SUFFICES ASSUME NEW a \in DOMAIN D, NEW b \in DOMAIN D, NEW i \in DOMAIN D[a],
                      NEW j \in DOMAIN D[b], D[a][i] # Mark, D[a][i] = D[b][j]
               PROVE  a = b /\ i = j
    BY DEF Once, Mark
  <2> DEFINE sa == Src(a, i)
             sb == Src(b, j)
             pa == Pos(a, i)
             pb == Pos(b, j)
  <2>1. /\ sa \in DOMAIN C /\ pa \in DOMAIN C[sa] /\ sb \in DOMAIN C /\ pb \in DOMAIN C[sb]
        /\ C[sa][pa] = C[sb][pb] /\ C[sa][pa] # Mark
    BY <1>6
  <2> HIDE DEF sa, sb, pa, pb
  <2>2. sa = sb /\ pa = pb
    BY <2>1 DEF Once
  <2> QED BY <1>7, <2>2 DEF sa, sb, pa, pb
<1>9. ASSUME Ascending(C), n = 1
      PROVE  Ascending(D)
  <2> SUFFICES ASSUME NEW a \in DOMAIN D, NEW b \in DOMAIN D, NEW i \in DOMAIN D[a],
                      NEW j \in DOMAIN D[b], a < b \/ (a = b /\ i < j),
                      D[a][i] # Mark, D[b][j] # Mark
               PROVE  D[a][i] < D[b][j]
    BY DEF Ascending, Mark
  <2> DEFINE sa == Src(a, i)
             sb == Src(b, j)
             pa == Pos(a, i)
             pb == Pos(b, j)
  <2>1. /\ sa \in DOMAIN C /\ pa \in DOMAIN C[sa] /\ sb \in DOMAIN C /\ pb \in DOMAIN C[sb]
        /\ D[a][i] = C[sa][pa] /\ C[sa][pa] # Mark
        /\ D[b][j] = C[sb][pb] /\ C[sb][pb] # Mark
    BY <1>6
  <2>2. sa < sb \/ (sa = sb /\ pa < pb)
    BY <1>7, <1>9
  <2> HIDE DEF sa, sb, pa, pb
  <2>3. C[sa][pa] < C[sb][pb]
    BY <1>9, <2>1, <2>2 DEF Ascending
  <2> QED BY <2>1, <2>3
<1>10. ASSUME NEW w \in Written(D) PROVE w \in Written(C)
  <2>1. PICK a \in DOMAIN D : \E i \in DOMAIN D[a] : w = D[a][i] /\ w # Mark
    BY ONLY <1>10, WrittenAt
  <2>2. PICK i \in DOMAIN D[a] : w = D[a][i] /\ w # Mark
    BY <2>1
  <2> DEFINE u == Src(a, i)
             p == Pos(a, i)
  <2>3. u \in DOMAIN C /\ p \in DOMAIN C[u] /\ C[u][p] = w /\ w # Mark
    BY <1>6, <2>2
  <2> HIDE DEF u, p
  <2> QED BY <2>3, WrittenIn
<1>11. ASSUME NEW w \in Written(C) PROVE w \in Written(D)
  <2>1. PICK a \in DOMAIN C : \E i \in DOMAIN C[a] : w = C[a][i] /\ w # Mark
    BY ONLY <1>11, WrittenAt
  <2>2. PICK i \in DOMAIN C[a] : w = C[a][i] /\ w # Mark
    BY <2>1
  <2>3. CASE a = n
    <3> DEFINE j == l + i
    <3>1. i \in 1 .. m /\ q[i] = w
      BY <1>5a, <2>2, <2>3 DEF q
    <3>2. j \in DOMAIN t /\ t[j] = w
      BY <1>1, <1>3, <3>1
    <3> HIDE DEF j
    <3>3. 0 \in DOMAIN D /\ w # Mark /\ j \in DOMAIN D[0] /\ D[0][j] = w
      BY <1>1, <1>4, <2>2, <3>2 DEF t
    <3> QED BY ONLY <3>3, WrittenIn
  <2>4. CASE a = 0
    <3>1. i \in 1 .. l /\ s[i] = w
      BY <1>5a, <2>2, <2>4 DEF s
    <3>2. i \in DOMAIN t /\ t[i] = w
      BY <1>1, <1>3, <3>1
    <3>3. 0 \in DOMAIN D /\ w # Mark /\ i \in DOMAIN D[0] /\ D[0][i] = w
      BY <1>1, <1>4, <2>2, <3>2 DEF t
    <3> QED BY ONLY <3>3, WrittenIn
  <2>5. CASE a # n /\ a # 0
    BY <1>1, <1>4, <2>2, <2>5, WrittenIn
  <2> QED BY <2>3, <2>4, <2>5
<1> QED BY <1>4, <1>8, <1>9, <1>10, <1>11

-----------------------------------------------------------------------------
(* Types.                                                                   *)

Entry == [filter : BOOLEAN, sOB : Seq(Nat)]
Activation == [slot : Nat \ {0}, allocs : Nat, data : Seq(Nat)]

TypeOK ==
    /\ nMagic \in {"run", "exec"} /\ phase \in {"none", "main", "shutdown"}
    /\ xConsumer \in {"default", "host", "VmObConsumer"}
    /\ xDef \in {"none", "default", "host"}
    /\ aOB \in Seq(Entry)
    /\ base \in [allocs : Nat, size : Nat]
    /\ filters \in Seq(Activation)
    /\ sConsumer \in Seq(Nat)
    /\ printed \in Nat /\ execs \in Nat
    /\ discarded \subseteq Nat
    /\ disturbed \subseteq {"nested", "stack", "direct"}
    /\ aShutdown \in Seq(Nat) /\ called \in Seq(Nat)
    /\ next \in [at : Nat, nEntry : Nat]
    /\ registered \in [all : Nat, before : SUBSET Nat]

\* Front and Last of a sequence.
LEMMA SeqFront ==
    ASSUME NEW S, NEW s \in Seq(S), s # <<>>
    PROVE  /\ Len(s) \in Nat \ {0} /\ Front(s) \in Seq(S) /\ Len(Front(s)) = Len(s) - 1
           /\ \A i \in 1 .. Len(s) - 1 : Front(s)[i] = s[i]
           /\ Last(s) = s[Len(s)] /\ Last(s) \in S
<1>1. Len(s) \in Nat /\ Len(s) # 0 /\ Len(s) - 1 \in Nat /\ DOMAIN s = 1 .. Len(s)
  OBVIOUS
<1>2. Last(s) = s[Len(s)] /\ Last(s) \in S
  BY <1>1 DEF Last
<1>3. Front(s) = SubSeq(s, 1, Len(s) - 1)
  BY DEF Front
<1>4. \A i \in 1 .. Len(s) - 1 : s[i] \in S
  BY <1>1
<1>5. /\ Front(s) \in Seq(S) /\ Len(Front(s)) = Len(s) - 1
      /\ \A i \in 1 .. Len(s) - 1 : Front(s)[i] = s[i]
  BY <1>1, <1>3, <1>4
<1> QED BY <1>1, <1>2, <1>5

\* A sequence that is one element longer.
LEMMA OneMore ==
    ASSUME NEW s, NEW t, NEW c, NEW n \in Nat, DOMAIN s = 1 .. n, DOMAIN t = 1 .. n + 1,
           t[n + 1] = c, \A i \in 1 .. n : t[i] = s[i]
    PROVE  /\ \A i \in 1 .. n + 1 : i \in 1 .. n \/ (i = n + 1 /\ t[i] = c)
           /\ Range(t) = Range(s) \cup {c}
<1>1. \A i \in 1 .. n + 1 : i \in 1 .. n \/ (i = n + 1 /\ t[i] = c)
  OBVIOUS
<1>2. n + 1 \in 1 .. n + 1 /\ \A i \in 1 .. n : i \in 1 .. n + 1
  OBVIOUS
<1>3. ASSUME NEW v PROVE v \in Range(t) <=> v \in Range(s) \/ v = c
  <2>1. v \in Range(s) <=> \E i \in 1 .. n : v = s[i]
    BY DEF Range
  <2>2. v \in Range(t) <=> \E i \in 1 .. n + 1 : v = t[i]
    BY DEF Range
  <2> QED BY <1>1, <1>2, <2>1, <2>2
<1> QED BY <1>1, <1>3

\* The elements of a sequence over S are in S.
LEMMA RangeTyped ==
    ASSUME NEW S, NEW s \in Seq(S)
    PROVE  Range(s) \subseteq S
  BY DEF Range

\* The initial state is typed.
LEMMA OutputInvInit == Init => TypeOK
  BY DEF Init, TypeOK

\* An entry of aOB and its contents are typed.
LEMMA EntryTyped ==
    ASSUME TypeOK, NEW k \in DOMAIN aOB
    PROVE  aOB[k] \in Entry /\ aOB[k].sOB \in Seq(Nat)
<1>1. aOB[k] \in Entry
  BY DEF TypeOK
<1> QED BY <1>1 DEF Entry

\* So is aOB with other contents in one entry.
LEMMA BufferTyped ==
    ASSUME TypeOK, NEW k \in DOMAIN aOB, NEW x \in Seq(Nat)
    PROVE  [aOB EXCEPT ![k].sOB = x] \in Seq(Entry) /\ aOB[k].sOB \in Seq(Nat)
<1>1. aOB \in Seq(Entry) /\ aOB[k] \in Entry
  BY DEF TypeOK
<1>2. [aOB[k] EXCEPT !.sOB = x] \in Entry
  BY <1>1 DEF Entry
<1> DEFINE e == [aOB[k] EXCEPT !.sOB = x]
<1>3. [aOB EXCEPT ![k] = e] \in Seq(Entry)
  <2>1. e \in Entry
    BY <1>2
  <2> HIDE DEF e
  <2> QED BY <1>1, <2>1
<1> QED BY <1>1, <1>3 DEF Entry

\* VmObConsumer, or another consumer, keeps the types.
LEMMA ConsumeTyped ==
    ASSUME TypeOK, NEW data \in Seq(Nat), Consume(data)
    PROVE  aOB' \in Seq(Entry) /\ filters' \in Seq(Activation) /\ sConsumer' \in Seq(Nat)
<1>0. aOB \in Seq(Entry) /\ filters \in Seq(Activation) /\ sConsumer \in Seq(Nat) /\ base.allocs \in Nat
  BY DEF TypeOK
<1>1. CASE xConsumer # "VmObConsumer"
  <2>1. sConsumer' = sConsumer \o data /\ UNCHANGED <<aOB, filters>>
    BY <1>1, Zenon DEF Consume, Deliver
  <2> QED BY <1>0, <2>1
<1>2. CASE xConsumer = "VmObConsumer" /\ Level = 0
  BY <1>0, <1>2 DEF Consume
<1>3. CASE xConsumer = "VmObConsumer" /\ Level # 0 /\ aOB[Level].filter
  <2>1. Level \in Nat \ {0}
    BY <1>0, <1>3 DEF Level
  <2> DEFINE act == [slot |-> Level, allocs |-> base.allocs, data |-> data]
  <2>2. act \in Activation
    BY <1>0, <2>1 DEF Activation
  <2>3. filters' = Append(filters, act) /\ UNCHANGED <<aOB, sConsumer>>
    BY <1>3 DEF Consume, CallFilter
  <2> HIDE DEF act
  <2> QED BY <1>0, <2>2, <2>3
<1>4. CASE xConsumer = "VmObConsumer" /\ Level # 0 /\ ~aOB[Level].filter
  <2>1. Level \in DOMAIN aOB
    <3>1. Len(aOB) \in Nat /\ Len(aOB) # 0 /\ DOMAIN aOB = 1 .. Len(aOB)
      BY <1>0, <1>4 DEF Level
    <3> QED BY <3>1 DEF Level
  <2>2. aOB[Level].sOB \o data \in Seq(Nat)
    BY <2>1, EntryTyped
  <2>0. Store(data)
    BY <1>4, Zenon DEF Consume
  <2>3. aOB' = [aOB EXCEPT ![Level].sOB = aOB[Level].sOB \o data] /\ UNCHANGED <<filters, sConsumer>>
    BY <2>0 DEF Store
  <2> QED BY <1>0, <2>1, <2>2, <2>3, BufferTyped
<1> QED BY <1>1, <1>2, <1>3, <1>4

\* The level is the length of aOB.
LEMMA LevelTyped ==
    ASSUME TypeOK
    PROVE  /\ Level \in Nat /\ DOMAIN aOB = 1 .. Level /\ (Level = 0 <=> aOB = <<>>)
           /\ Level > 0 => Level \in DOMAIN aOB /\ aOB # <<>>
<1>1. aOB \in Seq(Entry)
  BY DEF TypeOK
<1>2. Len(aOB) \in Nat /\ DOMAIN aOB = 1 .. Len(aOB) /\ (Len(aOB) = 0 <=> aOB = <<>>)
  BY <1>1
<1> QED BY <1>2 DEF Level

\* The stack without its top entry.
LEMMA PopTyped ==
    ASSUME TypeOK, Level > 0, NEW rest, rest = Front(aOB)
    PROVE  /\ rest \in Seq(Entry) /\ Len(rest) = Level - 1
           /\ \A i \in 1 .. Level - 1 : rest[i] = aOB[i]
<1>1. aOB \in Seq(Entry) /\ aOB # <<>>
  BY LevelTyped DEF TypeOK
<1> QED BY <1>1, SeqFront DEF Level

\* The last activation, and the others.
LEMMA ActTyped ==
    ASSUME TypeOK, InFilter, NEW act, act = Last(filters), NEW rest, rest = Front(filters)
    PROVE  /\ Len(filters) \in Nat \ {0} /\ rest \in Seq(Activation)
           /\ Len(rest) = Len(filters) - 1
           /\ \A i \in 1 .. Len(filters) - 1 : rest[i] = filters[i]
           /\ act = filters[Len(filters)] /\ act \in Activation
<1>1. filters \in Seq(Activation) /\ filters # <<>>
  BY DEF TypeOK, InFilter
<1> QED BY <1>1, SeqFront

-----------------------------------------------------------------------------
(* The consumer, and the shutdown callbacks.                               *)

\* What ConsumerHasBuffer needs to be inductive.
ConsumerInv ==
    /\ ConsumerHasBuffer
    /\ Level > 0 => xDef # "none"
    /\ "direct" \notin disturbed /\ Level > 0 => xConsumer = "VmObConsumer"

\* The callbacks of earlier loops.
Gone == registered.all - Len(aShutdown)

\* What ShutdownInOrder needs to be inductive: the set holds the callbacks that
\* follow those of earlier loops, and the loop has called them up to next.at.
ShutdownInv ==
    /\ Len(aShutdown) <= registered.all
    /\ \A i \in 1 .. Len(aShutdown) : aShutdown[i] = Gone + i
    /\ next.at <= next.nEntry /\ next.nEntry <= Len(aShutdown)
    /\ phase # "shutdown" => next = [at |-> 0, nEntry |-> 0]
    /\ \A i \in 1 .. Len(called) : called[i] <= Gone + next.at
    /\ \A i, j \in 1 .. Len(called) : i < j => called[i] < called[j]
    /\ \A i \in 1 .. next.at : Gone + i \in Range(called)
    /\ registered.before \subseteq Range(called) \cup
         {Gone + i : i \in 1 .. IF phase = "main" THEN Len(aShutdown) ELSE next.nEntry}
    /\ phase = "none" => aShutdown = <<>>

\* Every step keeps the types.
LEMMA TypeNext ==
    ASSUME TypeOK, ConsumerInv, ShutdownInv, [Next]_vars
    PROVE  TypeOK'
<1> USE DEF TypeOK
<1>1. CASE print
  <2>1. <<printed + 1>> \in Seq(Nat) /\ Consume(<<printed + 1>>)
    BY <1>1 DEF print
  <2>2. aOB' \in Seq(Entry) /\ filters' \in Seq(Activation) /\ sConsumer' \in Seq(Nat)
    BY <2>1, ConsumeTyped
  <2> QED BY <1>1, <2>2 DEF print, shutdown
<1>2. ASSUME NEW result \in {"other", "string", "empty"}, FilterReturn(result)
      PROVE  TypeOK'
  <2> DEFINE act == Last(filters)
             data == Filtered(act.data, result)
  <2>1. Front(filters) \in Seq(Activation) /\ act \in Activation
    BY <1>2, ActTyped DEF FilterReturn
  <2>2. act.data \in Seq(Nat) /\ act.slot \in Nat \ {0}
    BY <2>1 DEF Activation
  <2>3. data \in Seq(Nat)
    <3> HIDE DEF act
    <3> QED BY <2>2 DEF Filtered, Mark
  <2>4. discarded' \subseteq Nat
    <3>1. Range(act.data) \subseteq Nat
      BY <2>2, RangeTyped
    <3> QED BY <1>2, <3>1 DEF FilterReturn
  <2>5. aOB' \in Seq(Entry)
    <3>1. aOB' = IF act.allocs = base.allocs /\ act.slot <= Level
                 THEN [aOB EXCEPT ![act.slot].sOB = @ \o data] ELSE aOB
      BY <1>2 DEF FilterReturn
    <3> HIDE DEF act, data
    <3>2. CASE act.allocs = base.allocs /\ act.slot <= Level
      <4>1. act.slot \in DOMAIN aOB
        BY <2>2, <3>2, LevelTyped
      <4>2. aOB[act.slot].sOB \o data \in Seq(Nat)
        BY <2>3, <4>1, EntryTyped
      <4>3. aOB' = [aOB EXCEPT ![act.slot].sOB = aOB[act.slot].sOB \o data]
        BY <3>1, <3>2
      <4> QED BY <4>1, <4>2, <4>3, BufferTyped
    <3>3. CASE ~(act.allocs = base.allocs /\ act.slot <= Level)
      BY <3>1, <3>3
    <3> QED BY <3>2, <3>3
  <2> QED BY <1>2, <2>1, <2>4, <2>5 DEF FilterReturn, shutdown
<1>3. ASSUME NEW filter \in BOOLEAN, ob_start(filter)
      PROVE  TypeOK'
  <2> DEFINE e == [filter |-> filter, sOB |-> <<>>]
  <2>1. e \in Entry
    BY DEF Entry
  <2>2. aOB' = Append(aOB, e)
    BY <1>3 DEF ob_start
  <2> HIDE DEF e
  <2>3. aOB' \in Seq(Entry)
    BY <2>1, <2>2
  <2>4. base' \in [allocs : Nat, size : Nat]
    <3>1. base' = Grown /\ base \in [allocs : Nat, size : Nat] /\ ObCapacity \in Nat
      BY <1>3, OutputAssumption DEF ob_start
    <3>2. base.allocs + 1 \in Nat /\ base.allocs \in Nat /\ base.size \in Nat /\ 2 * base.size \in Nat
      BY <3>1
    <3>3. CASE Level < base.size
      BY <3>1, <3>3 DEF Grown
    <3>4. CASE ~(Level < base.size)
      BY <3>1, <3>2, <3>4 DEF Grown
    <3> QED BY <3>3, <3>4
  <2>5. xConsumer' \in {"default", "host", "VmObConsumer"} /\ xDef' \in {"none", "default", "host"}
    BY <1>3 DEF ob_start, InstallConsumer
  <2>6. disturbed' \subseteq {"nested", "stack", "direct"}
    BY <1>3 DEF ob_start, Touched
  <2> QED BY <1>3, <2>3, <2>4, <2>5, <2>6 DEF ob_start, shutdown
<1>4. ASSUME Level > 0
      PROVE  /\ [aOB EXCEPT ![Level].sOB = <<>>] \in Seq(Entry)
             /\ aOB[Level].sOB \in Seq(Nat) /\ Range(aOB[Level].sOB) \subseteq Nat
             /\ Front(aOB) \in Seq(Entry)
  <2>1. Level \in DOMAIN aOB
    BY <1>4, LevelTyped
  <2>2. aOB[Level].sOB \in Seq(Nat)
    BY <2>1, EntryTyped
  <2>3. Range(aOB[Level].sOB) \subseteq Nat
    BY <2>2, RangeTyped
  <2>4. <<>> \in Seq(Nat)
    OBVIOUS
  <2>5. Front(aOB) \in Seq(Entry)
    BY <1>4, PopTyped
  <2> QED BY <2>1, <2>2, <2>3, <2>4, <2>5, BufferTyped
<1>5. CASE ob_clean
  BY <1>4, <1>5 DEF ob_clean, shutdown
<1>6. ASSUME NEW rest, VmObRestore(rest), Level > 0
      PROVE  xConsumer' \in {"default", "host", "VmObConsumer"}
  BY <1>6 DEF VmObRestore, ConsumerInv
<1>7. Touched \subseteq {"nested", "stack", "direct"}
  BY DEF Touched
<1>8. ASSUME NEW past PROVE Bypassed(past) \subseteq {"nested", "stack", "direct"}
  BY DEF Bypassed
<1>9. CASE ob_end_clean
  BY <1>4, <1>6, <1>7, <1>9 DEF ob_end_clean, shutdown
<1>10. CASE ob_flush
  <2>0. Level > 0 /\ sConsumer' = sConsumer \o aOB[Level].sOB
    BY <1>10 DEF ob_flush
  <2>1. sConsumer' \in Seq(Nat)
    BY <1>4, <2>0
  <2>2. disturbed' \subseteq {"nested", "stack", "direct"}
    BY <1>8, <1>10 DEF ob_flush
  <2> QED BY <1>4, <1>10, <2>0, <2>1, <2>2 DEF ob_flush, shutdown
<1>11. CASE ob_end_flush
  <2>0. Level > 0 /\ sConsumer' = sConsumer \o aOB[Level].sOB
    BY <1>11 DEF ob_end_flush
  <2>1. sConsumer' \in Seq(Nat)
    BY <1>4, <2>0
  <2>2. disturbed' \subseteq {"nested", "stack", "direct"}
    BY <1>7, <1>8, <1>11 DEF ob_end_flush
  <2> QED BY <1>4, <1>6, <1>11, <2>0, <2>1, <2>2 DEF ob_end_flush, shutdown
<1>12. CASE register_shutdown_function
  <2>1. registered.all + 1 \in Nat
    OBVIOUS
  <2> QED BY <1>12, <2>1 DEF register_shutdown_function, buffers
<1>13. CASE StartExec
  BY <1>13 DEF StartExec, buffers, shutdown
<1>14. CASE RunEnds
  <2>1. Upcoming \in [at : Nat, nEntry : Nat]
    BY DEF Upcoming
  <2>2. CASE Upcoming.at <= Upcoming.nEntry
    <3>1. Upcoming.at \in DOMAIN aShutdown
      BY <1>14, <2>2 DEF Upcoming, ShutdownInv, Running, RunEnds
    <3>2. aShutdown[Upcoming.at] \in Nat
      BY <3>1
    <3>3. called' = Append(called, aShutdown[Upcoming.at])
      BY <1>14, <2>2 DEF RunEnds
    <3>4. called' \in Seq(Nat)
      BY <3>2, <3>3
    <3> QED BY <1>14, <2>1, <2>2, <3>4 DEF RunEnds, buffers
  <2>3. CASE ~(Upcoming.at <= Upcoming.nEntry)
    BY <1>14, <2>3 DEF RunEnds, buffers
  <2> QED BY <2>2, <2>3
<1>15. CASE Reset
  BY <1>15 DEF Reset, buffers, shutdown
<1>16. CASE ConfigOutput
  BY <1>8, <1>16 DEF ConfigOutput, shutdown
<1>17. CASE UNCHANGED vars
  BY <1>17 DEF vars, buffers, shutdown
<1> QED
  BY <1>1, <1>2, <1>3, <1>5, <1>9, <1>10, <1>11, <1>12, <1>13, <1>14, <1>15, <1>16, <1>17
     DEF Next

\* What each action does to the level.
LEMMA LevelNext ==
    ASSUME TypeOK
    PROVE  /\ \A filter : ob_start(filter) => Level' = Level + 1
           /\ ob_end_clean \/ ob_end_flush =>
                  Level > 0 /\ Level' = Level - 1 /\ Len(Front(aOB)) = Level - 1
           /\ print \/ ob_clean \/ ob_flush => Level' = Level
           /\ \A result : FilterReturn(result) => Level' = Level
           /\ UNCHANGED aOB => Level' = Level
<1>1. aOB \in Seq(Entry)
  BY DEF TypeOK
<1>2. ASSUME NEW filter, ob_start(filter)
      PROVE  Level' = Level + 1
  <2> DEFINE e == [filter |-> filter, sOB |-> <<>>]
  <2>1. aOB' = Append(aOB, e)
    BY <1>2 DEF ob_start
  <2> HIDE DEF e
  <2> QED BY <1>1, <2>1 DEF Level
<1>3. ASSUME ob_end_clean \/ ob_end_flush
      PROVE  Level > 0 /\ Level' = Level - 1 /\ Len(Front(aOB)) = Level - 1
  <2>1. Level > 0 /\ aOB' = Front(aOB)
    BY <1>3 DEF ob_end_clean, ob_end_flush
  <2>2. Len(Front(aOB)) = Level - 1
    BY <2>1, PopTyped
  <2> QED BY <2>1, <2>2 DEF Level
<1>4. ASSUME NEW k, NEW x
      PROVE  Len([aOB EXCEPT ![k].sOB = x]) = Level
  BY <1>1 DEF Level
<1>5. UNCHANGED aOB => Level' = Level
  BY DEF Level
<1>6. ASSUME print
      PROVE  Level' = Level
  <2> DEFINE d == <<printed + 1>>
  <2>1. \/ UNCHANGED aOB
        \/ aOB' = [aOB EXCEPT ![Level].sOB = aOB[Level].sOB \o d]
    BY <1>6, Zenon DEF print, Consume, Deliver, CallFilter, Store
  <2> HIDE DEF d
  <2> QED BY <1>4, <1>5, <2>1 DEF Level
<1>7. ASSUME ob_clean \/ ob_flush
      PROVE  Level' = Level
  <2>1. aOB' = [aOB EXCEPT ![Level].sOB = <<>>]
    BY <1>7 DEF ob_clean, ob_flush
  <2> QED BY <1>4, <2>1 DEF Level
<1>8. ASSUME NEW result, FilterReturn(result)
      PROVE  Level' = Level
  <2> DEFINE act == Last(filters)
             data == Filtered(act.data, result)
  <2>1. \/ UNCHANGED aOB
        \/ aOB' = [aOB EXCEPT ![act.slot].sOB = aOB[act.slot].sOB \o data]
    BY <1>8, Zenon DEF FilterReturn
  <2> HIDE DEF act, data
  <2> QED BY <1>4, <1>5, <2>1 DEF Level
<1> QED BY <1>2, <1>3, <1>5, <1>6, <1>7, <1>8

\* Every step keeps a buffer under an installed VmObConsumer.
LEMMA ConsumerNext ==
    ASSUME TypeOK, ConsumerInv, [Next]_vars
    PROVE  ConsumerInv'
<1> USE DEF ConsumerInv, ConsumerHasBuffer
<1>0. /\ xConsumer \in {"default", "host", "VmObConsumer"}
      /\ xDef \in {"none", "default", "host"} /\ Level \in Nat
  BY LevelTyped DEF TypeOK
<1>1. CASE print
  BY <1>1, LevelNext DEF print
<1>2. ASSUME NEW result, FilterReturn(result)
      PROVE  ConsumerInv'
  BY <1>2, LevelNext DEF FilterReturn
<1>3. ASSUME NEW filter, ob_start(filter)
      PROVE  ConsumerInv'
  <2>1. Level' = Level + 1 /\ InstallConsumer
    BY <1>3, LevelNext DEF ob_start
  <2> QED BY <1>0, <2>1 DEF InstallConsumer
<1>4. CASE ob_clean \/ ob_flush
  <2>1. Level' = Level /\ UNCHANGED <<xConsumer, xDef>> /\ disturbed \subseteq disturbed'
    BY <1>4, LevelNext DEF ob_clean, ob_flush, Bypassed
  <2> QED BY <2>1
<1>5. CASE ob_end_clean \/ ob_end_flush
  <2>1. /\ Level > 0 /\ Level' = Level - 1 /\ UNCHANGED xDef
        /\ xConsumer' = IF Level - 1 < 1 THEN xDef ELSE xConsumer
        /\ disturbed \subseteq disturbed'
    BY <1>5, LevelNext DEF ob_end_clean, ob_end_flush, VmObRestore, Bypassed, Touched
  <2> QED BY <1>0, <2>1
<1>6. CASE ConfigOutput
  <2>1. Level' = Level
    BY <1>6, LevelNext DEF ConfigOutput
  <2> QED BY <1>0, <1>6, <2>1 DEF ConfigOutput, Bypassed
<1>7. CASE register_shutdown_function \/ StartExec \/ RunEnds \/ Reset \/ UNCHANGED vars
  <2>1. UNCHANGED <<buffers, disturbed>>
    BY <1>7 DEF register_shutdown_function, StartExec, RunEnds, Reset, vars
  <2> QED BY <2>1, LevelNext DEF buffers
<1> QED
  BY <1>1, <1>2, <1>3, <1>4, <1>5, <1>6, <1>7 DEF Next

\* Every step keeps the shutdown callbacks in order.
LEMMA ShutdownNext ==
    ASSUME TypeOK, ShutdownInv, [Next]_vars
    PROVE  ShutdownInv'
<1>0. /\ aShutdown \in Seq(Nat) /\ called \in Seq(Nat) /\ Len(aShutdown) \in Nat
      /\ Len(called) \in Nat /\ next \in [at : Nat, nEntry : Nat]
      /\ next.at \in Nat /\ next.nEntry \in Nat
      /\ registered.all \in Nat /\ registered.before \in SUBSET Nat
      /\ Gone \in Nat
  BY DEF TypeOK, Gone, ShutdownInv
<1>1. CASE UNCHANGED <<shutdown, phase>>
  <2>1. Gone' = Gone
    BY <1>1 DEF Gone, shutdown
  <2> QED BY <1>1, <2>1 DEF ShutdownInv, shutdown
<1>2. CASE register_shutdown_function
  <2> DEFINE n == registered.all + 1
  <2>1. /\ aShutdown' = Append(aShutdown, n) /\ registered'.all = n
        /\ registered'.before = IF phase = "main" THEN registered.before \cup {n}
                                ELSE registered.before
        /\ UNCHANGED <<phase, next, called>> /\ phase # "none"
    BY <1>2 DEF register_shutdown_function, Running
  <2>2. /\ Len(aShutdown') = Len(aShutdown) + 1 /\ Gone' = Gone
        /\ aShutdown'[Len(aShutdown) + 1] = n /\ n = Gone + (Len(aShutdown) + 1)
        /\ \A i \in 1 .. Len(aShutdown) : aShutdown'[i] = aShutdown[i]
    BY SMTT(40), <1>0, <2>1 DEF Gone
  <2> HIDE DEF n
  <2>3. \A i \in 1 .. Len(aShutdown') : aShutdown'[i] = Gone' + i
    <3> SUFFICES ASSUME NEW i \in 1 .. Len(aShutdown') PROVE aShutdown'[i] = Gone' + i
      OBVIOUS
    <3>1. i = Len(aShutdown) + 1 \/ i \in 1 .. Len(aShutdown)
      BY <1>0, <2>2
    <3> QED BY <2>2, <3>1 DEF ShutdownInv
  <2>4. registered'.before \subseteq Range(called') \cup
            {Gone' + i : i \in 1 .. IF phase' = "main" THEN Len(aShutdown') ELSE next'.nEntry}
    BY <1>0, <2>1, <2>2 DEF ShutdownInv
  <2> QED BY <1>0, <2>1, <2>2, <2>3, <2>4 DEF ShutdownInv
<1>3. CASE RunEnds /\ Upcoming.at <= Upcoming.nEntry
  <2> DEFINE at == Upcoming.at
             c == aShutdown[at]
  <2>1. /\ phase' = "shutdown" /\ next' = Upcoming /\ called' = Append(called, c)
        /\ UNCHANGED <<aShutdown, registered>> /\ phase # "none"
    BY <1>3 DEF RunEnds, Running
  <2>2. /\ at = next.at + 1 /\ at \in 1 .. Len(aShutdown) /\ Upcoming.nEntry <= Len(aShutdown)
        /\ at <= Upcoming.nEntry /\ Upcoming.nEntry \in Nat
        /\ Upcoming.nEntry = IF phase = "main" THEN Len(aShutdown) ELSE next.nEntry
    BY SMTT(40), <1>0, <1>3 DEF Upcoming, ShutdownInv
  <2>3. c = Gone + at
    BY <2>2 DEF ShutdownInv
  <2>4. Gone' = Gone /\ next'.at = at /\ next'.nEntry = Upcoming.nEntry
    BY <2>1 DEF Gone
  <2> HIDE DEF at, c
  <2>4a. c \in Nat
    BY SMTT(40), <1>0, <2>2, <2>3
  <2>5. /\ Len(called') = Len(called) + 1 /\ called'[Len(called) + 1] = c
        /\ \A i \in 1 .. Len(called) : called'[i] = called[i] /\ called[i] \in Nat
        /\ \A i \in 1 .. Len(called') : i \in 1 .. Len(called) \/ (i = Len(called) + 1 /\ called'[i] = c)
        /\ Range(called') = Range(called) \cup {c}
    <3>1. /\ Len(called') = Len(called) + 1 /\ called'[Len(called) + 1] = c
          /\ \A i \in 1 .. Len(called) : called'[i] = called[i] /\ called[i] \in Nat
          /\ DOMAIN called = 1 .. Len(called) /\ DOMAIN called' = 1 .. Len(called) + 1
      BY <1>0, <2>1, <2>4a
    <3>2. Range(called') = Range(called) \cup {c}
      <4> DEFINE s == called
                 t == called'
                 n == Len(called)
      <4>1. /\ n \in Nat /\ t[n + 1] = c /\ \A i \in 1 .. n : t[i] = s[i]
            /\ DOMAIN s = 1 .. n /\ DOMAIN t = 1 .. n + 1
        BY <1>0, <3>1
      <4> HIDE DEF s, t, n
      <4>2. Range(t) = Range(s) \cup {c}
        BY ONLY <4>1, OneMore
      <4> QED BY <4>2 DEF s, t
    <3> QED BY <1>0, <3>1, <3>2
  <2>6. Range(called') = Range(called) \cup {c}
    BY <2>5
  <2>6a. ASSUME NEW i \in 1 .. Len(called)
         PROVE  called[i] < c /\ called[i] <= Gone + next.at /\ called[i] \in Nat
    <3>1. called[i] \in Nat /\ called[i] <= Gone + next.at
      BY <2>5 DEF ShutdownInv
    <3>2. c = Gone + (next.at + 1) /\ Gone \in Nat /\ next.at \in Nat
      BY <1>0, <2>2, <2>3
    <3> DEFINE x == called[i]
               y == next.at
               g == Gone
    <3>3. x \in Nat /\ y \in Nat /\ g \in Nat /\ x <= g + y
      BY <3>1, <3>2
    <3> HIDE DEF x, y, g
    <3>4. x < g + (y + 1)
      BY ONLY <3>3
    <3> QED BY <3>1, <3>2, <3>4 DEF x, y, g
  <2>7. \A i \in 1 .. Len(called') : called'[i] <= Gone' + next'.at
    <3> SUFFICES ASSUME NEW i \in 1 .. Len(called') PROVE called'[i] <= Gone + at
      BY <2>4
    <3>1. CASE i \in 1 .. Len(called)
      <4>1. called'[i] = called[i]
        BY <2>5, <3>1
      <4>2. called[i] < c /\ called[i] \in Nat
        BY <2>6a, <3>1
      <4> QED BY <2>3, <2>4a, <4>1, <4>2
    <3>2. CASE i = Len(called) + 1 /\ called'[i] = c
      BY <1>0, <2>3, <2>4a, <3>2
    <3> QED BY <2>5, <3>1, <3>2
  <2>8. \A i, j \in 1 .. Len(called') : i < j => called'[i] < called'[j]
    <3> SUFFICES ASSUME NEW i \in 1 .. Len(called'), NEW j \in 1 .. Len(called'), i < j
                 PROVE  called'[i] < called'[j]
      OBVIOUS
    <3>1. i \in 1 .. Len(called)
      BY <1>0, <2>5
    <3>2. CASE j \in 1 .. Len(called)
      BY <2>5, <3>1, <3>2 DEF ShutdownInv
    <3>3. CASE j = Len(called) + 1 /\ called'[j] = c
      BY <2>5, <2>6a, <3>1, <3>3
    <3> QED BY <2>5, <3>2, <3>3
  <2>9. \A i \in 1 .. next'.at : Gone' + i \in Range(called')
    <3> SUFFICES ASSUME NEW i \in 1 .. at PROVE Gone + i \in Range(called')
      BY <2>4
    <3>1. i = at \/ i \in 1 .. next.at
      BY <1>0, <2>2
    <3>2. i \in 1 .. next.at => Gone + i \in Range(called)
      BY DEF ShutdownInv
    <3> QED BY <2>3, <2>6, <3>1, <3>2
  <2>10. registered'.before \subseteq Range(called') \cup
             {Gone' + i : i \in 1 .. IF phase' = "main" THEN Len(aShutdown') ELSE next'.nEntry}
    BY <1>0, <2>1, <2>2, <2>4, <2>6 DEF ShutdownInv
  <2> QED BY <1>0, <2>1, <2>2, <2>4, <2>7, <2>8, <2>9, <2>10 DEF ShutdownInv
<1>4. CASE RunEnds /\ ~(Upcoming.at <= Upcoming.nEntry)
  <2>1. /\ phase' = "none" /\ next' = [at |-> 0, nEntry |-> 0] /\ aShutdown' = <<>>
        /\ UNCHANGED <<called, registered>> /\ phase # "none"
    BY <1>4 DEF RunEnds, Running
  <2>2. Gone' = registered.all /\ Len(aShutdown') = 0 /\ next'.at = 0 /\ next'.nEntry = 0
    BY <1>0, <2>1 DEF Gone
  <2>3. /\ phase = "main" => Len(aShutdown) = 0
        /\ phase # "main" => next.nEntry = next.at
    BY <1>0, <1>4 DEF Upcoming, ShutdownInv
  <2>4. registered.before \subseteq Range(called)
    BY <1>0, <2>3 DEF ShutdownInv
  <2>5. Gone + next.at <= registered.all
    BY <1>0 DEF ShutdownInv, Gone
  <2>6. \A i \in 1 .. Len(called') : called'[i] <= Gone' + next'.at
    BY <1>0, <2>1, <2>2, <2>5 DEF ShutdownInv
  <2> QED BY <1>0, <2>1, <2>2, <2>4, <2>6 DEF ShutdownInv
<1>5. CASE StartExec
  <2>1. phase = "none" /\ phase' = "main" /\ UNCHANGED shutdown
    BY <1>5 DEF StartExec
  <2>2. Gone' = Gone /\ UNCHANGED <<aShutdown, next, called, registered>>
    BY <2>1 DEF Gone, shutdown
  <2>3. next.nEntry = 0 /\ Len(aShutdown) = 0
    BY <1>0, <2>1 DEF ShutdownInv
  <2> QED BY <1>0, <2>1, <2>2, <2>3 DEF ShutdownInv
<1>6. CASE \/ print \/ (\E result \in {"other", "string", "empty"} : FilterReturn(result))
           \/ (\E filter \in BOOLEAN : ob_start(filter))
           \/ ob_clean \/ ob_end_clean \/ ob_flush \/ ob_end_flush \/ Reset \/ ConfigOutput
           \/ UNCHANGED vars
  <2>1. UNCHANGED <<shutdown, phase>>
    BY <1>6 DEF print, FilterReturn, ob_start, ob_clean, ob_end_clean, ob_flush, ob_end_flush,
                Reset, ConfigOutput, vars
  <2> QED BY <1>1, <2>1
<1> QED BY <1>2, <1>3, <1>4, <1>5, <1>6 DEF Next

\* What the running filters hold: one chunk each, no chunk twice; the place they
\* will store it at is that of their buffer; and in order, it is the last chunk.
FiltersHold == \A i \in DOMAIN filters : \E n \in 1 .. printed : filters[i].data = <<n>>
FiltersDiffer == \A i, j \in DOMAIN filters : filters[i].data = filters[j].data => i = j
FiltersPoint ==
    "stack" \notin disturbed =>
        \A i \in DOMAIN filters : filters[i].slot <= Level /\ filters[i].allocs = base.allocs
FiltersLast ==
    disturbed = {} =>
        \A i \in DOMAIN filters :
            i = 1 /\ filters[i].slot = Level /\ filters[i].data = <<printed>>

FiltersInv == FiltersHold /\ FiltersDiffer /\ FiltersPoint /\ FiltersLast

ChunksInv ==
    /\ NothingLost
    /\ InOrder
    /\ Held \cap discarded = {}
    /\ Written(Contents) \cup Held \subseteq 1 .. printed
    /\ discarded \subseteq 0 .. printed

-----------------------------------------------------------------------------
(* The chunks, action by action.                                            *)

\* The contents are a sequence for each place.
LEMMA ContentsTyped ==
    ASSUME TypeOK
    PROVE  /\ Level \in Nat /\ Contents \in Pieces(Level) /\ DOMAIN Contents = 0 .. Level
           /\ Contents[0] = sConsumer
           /\ \A k \in 1 .. Level : Contents[k] = aOB[k].sOB
<1>1. Level \in Nat /\ DOMAIN aOB = 1 .. Level /\ sConsumer \in Seq(Nat)
  BY LevelTyped DEF TypeOK
<1>2. DOMAIN Contents = 0 .. Level /\ Contents[0] = sConsumer
  BY <1>1 DEF Contents
<1>3. ASSUME NEW k \in 1 .. Level
      PROVE  Contents[k] = aOB[k].sOB /\ Contents[k] \in Seq(Nat)
  <2>1. k \in DOMAIN aOB /\ k \in 0 .. Level /\ k # 0
    BY <1>1
  <2>2. aOB[k].sOB \in Seq(Nat)
    BY <2>1, EntryTyped
  <2>3. Contents[k] = aOB[k].sOB
    BY <2>1 DEF Contents
  <2> QED BY <2>2, <2>3
<1>4. ASSUME NEW k \in 0 .. Level PROVE Contents[k] \in Seq(Nat)
  <2>1. k = 0 \/ k \in 1 .. Level
    BY <1>1
  <2> QED BY <1>1, <1>2, <1>3, <2>1
<1>5. Contents = [k \in 0 .. Level |-> Contents[k]]
  BY DEF Contents
<1>6. Contents \in Pieces(Level)
  BY <1>4, <1>5 DEF Pieces
<1> QED BY <1>1, <1>2, <1>3, <1>6

\* The contents after a store in one buffer, after the consumer received
\* something, after both, and after a push and a pop.
LEMMA AfterStore ==
    ASSUME TypeOK, NEW k \in 1 .. Level, NEW x \in Seq(Nat), NEW y \in Seq(Nat),
           aOB' = [aOB EXCEPT ![k].sOB = x], sConsumer' = y
    PROVE  Level' = Level /\ Contents' = [Contents EXCEPT ![0] = y, ![k] = x]
<1>1. /\ aOB \in Seq(Entry) /\ Level \in Nat /\ DOMAIN aOB = 1 .. Level /\ k # 0
      /\ aOB[k] \in Entry /\ k \in 0 .. Level /\ 0 \in 0 .. Level
  <2>1. aOB \in Seq(Entry) /\ Level \in Nat /\ DOMAIN aOB = 1 .. Level
    BY LevelTyped DEF TypeOK
  <2>2. k \in DOMAIN aOB
    BY <2>1
  <2> QED BY <2>1, <2>2, EntryTyped
<1>2. Len(aOB') = Len(aOB)
  BY <1>1
<1>3. Level' = Level
  BY <1>2 DEF Level
<1>4. \A i \in 1 .. Level : i # k => aOB'[i] = aOB[i]
  BY <1>1
<1>5. aOB'[k].sOB = x
  <2>1. aOB'[k] = [aOB[k] EXCEPT !.sOB = x]
    BY <1>1
  <2> QED BY <1>1, <2>1 DEF Entry
<1> DEFINE E == [Contents EXCEPT ![0] = y, ![k] = x]
<1>6. DOMAIN E = 0 .. Level /\ E = [i \in 0 .. Level |-> E[i]]
  BY ContentsTyped DEF Contents
<1>7. ASSUME NEW i \in 0 .. Level
      PROVE  E[i] = IF i = 0 THEN sConsumer' ELSE aOB'[i].sOB
  <2>1. CASE i = 0
    BY <1>1, <2>1 DEF Contents
  <2>2. CASE i = k
    <3>1. k \in DOMAIN Contents
      BY <1>1, ContentsTyped
    <3>2. E[k] = x
      BY <3>1
    <3> QED BY <1>1, <1>5, <2>2, <3>2
  <2>3. CASE i # 0 /\ i # k
    <3>1. i \in 1 .. Level
      BY <1>1, <2>3
    <3>2. E[i] = aOB[i].sOB
      BY <1>1, <2>3 DEF Contents
    <3> QED BY <1>4, <2>3, <3>1, <3>2
  <2> QED BY <2>1, <2>2, <2>3
<1> HIDE DEF E
<1>8. Contents' = [i \in 0 .. Level |-> IF i = 0 THEN sConsumer' ELSE aOB'[i].sOB]
  BY <1>3 DEF Contents
<1>9. Contents' = E
  BY <1>6, <1>7, <1>8
<1> QED BY <1>3, <1>9 DEF E

\* ... after the consumer received something ...
LEMMA AfterDeliver ==
    ASSUME TypeOK, NEW y \in Seq(Nat), UNCHANGED aOB, sConsumer' = y
    PROVE  Level' = Level /\ Contents' = [Contents EXCEPT ![0] = y]
<1>1. Level' = Level /\ Level \in Nat /\ 0 \in 0 .. Level
  BY LevelTyped DEF Level
<1> DEFINE E == [Contents EXCEPT ![0] = y]
<1>2. DOMAIN E = 0 .. Level /\ E = [i \in 0 .. Level |-> E[i]]
  BY ContentsTyped DEF Contents
<1>3. \A i \in 0 .. Level : E[i] = IF i = 0 THEN sConsumer' ELSE aOB'[i].sOB
  BY <1>1 DEF Contents
<1> HIDE DEF E
<1>4. Contents' = [i \in 0 .. Level |-> IF i = 0 THEN sConsumer' ELSE aOB'[i].sOB]
  BY <1>1 DEF Contents
<1>5. Contents' = E
  BY <1>2, <1>3, <1>4
<1> QED BY <1>1, <1>5 DEF E

\* ... after ob_start ...
LEMMA AfterPush ==
    ASSUME TypeOK, NEW filter, ob_start(filter)
    PROVE  Level' = Level + 1 /\
           Contents' = [k \in 0 .. Level + 1 |-> IF k = Level + 1 THEN <<>> ELSE Contents[k]]
<1> DEFINE e == [filter |-> filter, sOB |-> <<>>]
<1>1. aOB \in Seq(Entry) /\ Level \in Nat /\ DOMAIN aOB = 1 .. Level /\ Level' = Level + 1
  BY LevelTyped, LevelNext DEF TypeOK
<1>2. aOB' = Append(aOB, e) /\ sConsumer' = sConsumer
  BY DEF ob_start
<1>3. e.sOB = <<>>
  OBVIOUS
<1> HIDE DEF e
<1>4. aOB'[Level + 1] = e /\ \A i \in 1 .. Level : aOB'[i] = aOB[i]
  BY <1>1, <1>2 DEF Level
<1>5. ASSUME NEW i \in 0 .. Level + 1
      PROVE  (IF i = 0 THEN sConsumer' ELSE aOB'[i].sOB)
                 = IF i = Level + 1 THEN <<>> ELSE Contents[i]
  <2>1. CASE i = Level + 1
    BY <1>1, <1>3, <1>4, <2>1
  <2>2. CASE i # Level + 1
    <3>1. i \in 0 .. Level /\ (i # 0 => i \in 1 .. Level)
      BY <1>1, <2>2
    <3> QED BY <1>1, <1>2, <1>4, <2>2, <3>1 DEF Contents
  <2> QED BY <2>1, <2>2
<1>6. Contents' = [i \in 0 .. Level + 1 |-> IF i = 0 THEN sConsumer' ELSE aOB'[i].sOB]
  BY <1>1 DEF Contents
<1> QED BY <1>1, <1>5, <1>6

\* ob_end_clean and ob_end_flush empty the top buffer, the latter into the
\* consumer, and then drop it.
LEMMA AfterPop ==
    ASSUME TypeOK, Level > 0, aOB' = Front(aOB), NEW y \in Seq(Nat), sConsumer' = y,
           NEW E, E = [Contents EXCEPT ![0] = y, ![Level] = <<>>]
    PROVE  Level' = Level - 1 /\ Contents' = [k \in 0 .. Level - 1 |-> E[k]]
<1>1. Level \in Nat /\ DOMAIN Contents = 0 .. Level
  BY ContentsTyped
<1>2. Level' = Level - 1 /\ \A i \in 1 .. Level - 1 : aOB'[i] = aOB[i]
  BY PopTyped DEF Level
<1>3. ASSUME NEW i \in 0 .. Level - 1
      PROVE  (IF i = 0 THEN sConsumer' ELSE aOB'[i].sOB) = E[i]
  <2>1. i \in 0 .. Level /\ i # Level /\ (i # 0 => i \in 1 .. Level - 1)
    BY <1>1
  <2> QED BY <1>1, <1>2, <2>1 DEF Contents
<1>4. Contents' = [i \in 0 .. Level - 1 |-> IF i = 0 THEN sConsumer' ELSE aOB'[i].sOB]
  BY <1>2 DEF Contents
<1> QED BY <1>2, <1>3, <1>4

\* A store in one buffer alone.
LEMMA AfterStoreOnly ==
    ASSUME TypeOK, NEW k \in 1 .. Level, NEW x \in Seq(Nat),
           aOB' = [aOB EXCEPT ![k].sOB = x], UNCHANGED sConsumer
    PROVE  Level' = Level /\ Contents' = [Contents EXCEPT ![k] = x]
<1>1. sConsumer \in Seq(Nat) /\ sConsumer' = sConsumer
  BY DEF TypeOK
<1>2. Level' = Level /\ Contents' = [Contents EXCEPT ![0] = sConsumer, ![k] = x]
  BY <1>1, AfterStore
<1>3. DOMAIN Contents = 0 .. Level /\ Contents[0] = sConsumer /\ Level \in Nat
  BY ContentsTyped
<1>4. [Contents EXCEPT ![0] = sConsumer, ![k] = x] = [Contents EXCEPT ![k] = x]
  BY <1>3 DEF Contents
<1> QED BY <1>2, <1>4

HeldBy(f) == UNION {Range(f[i].data) : i \in DOMAIN f}

\* What one more activation holds.
LEMMA HeldMore ==
    ASSUME NEW s, NEW t, NEW n \in Nat, DOMAIN s = 1 .. n, DOMAIN t = 1 .. n + 1,
           \A i \in 1 .. n : t[i] = s[i]
    PROVE  HeldBy(t) = HeldBy(s) \cup Range(t[n + 1].data)
<1>1. n + 1 \in 1 .. n + 1 /\ \A i \in 1 .. n : i \in 1 .. n + 1
  OBVIOUS
<1>2. \A i \in 1 .. n + 1 : i \in 1 .. n \/ i = n + 1
  OBVIOUS
<1>3. ASSUME NEW v PROVE v \in HeldBy(t) <=> v \in HeldBy(s) \/ v \in Range(t[n + 1].data)
  <2>1. v \in HeldBy(s) <=> \E i \in 1 .. n : v \in Range(s[i].data)
    BY DEF HeldBy
  <2>2. v \in HeldBy(t) <=> \E i \in 1 .. n + 1 : v \in Range(t[i].data)
    BY DEF HeldBy
  <2> QED BY <1>1, <1>2, <2>1, <2>2
<1> QED BY <1>3

\* The sequence of one element.
LEMMA RangeOne == ASSUME NEW v PROVE Range(<<v>>) = {v}
  BY DEF Range

\* A step that leaves every chunk where it is.
LEMMA ChunksStay ==
    ASSUME TypeOK, ConsumerInv, FiltersInv, ChunksInv,
           UNCHANGED <<aOB, sConsumer, filters, base, printed, discarded>>,
           disturbed \subseteq disturbed'
    PROVE  FiltersInv' /\ ChunksInv'
<1>1. Level' = Level /\ Contents' = Contents /\ Held' = Held
  BY DEF Level, Contents, Held
<1>2. FiltersInv'
  BY <1>1 DEF FiltersInv, FiltersHold, FiltersDiffer, FiltersPoint, FiltersLast
<1>3. ChunksInv'
  BY <1>1 DEF ChunksInv, NothingLost, InOrder
<1> QED BY <1>2, <1>3

\* A step that appends the new chunk at the last place.
LEMMA ChunkWritten ==
    ASSUME TypeOK, ConsumerInv, FiltersInv, ChunksInv, NEW k \in 0 .. Level,
           NEW p, p = printed + 1, printed' = p, Level' = Level,
           Contents' = [Contents EXCEPT ![k] = Contents[k] \o <<p>>],
           UNCHANGED <<filters, base, discarded>>,
           disturbed \subseteq disturbed', InFilter => disturbed' # {},
           disturbed' = {} => k = Level
    PROVE  FiltersInv' /\ ChunksInv'
<1> DEFINE C == Contents
           D == Contents'
<1>1. printed \in Nat /\ p \in Nat /\ p # Mark /\ p \notin 1 .. printed
      /\ 1 .. p = (1 .. printed) \cup {p} /\ 0 .. printed \subseteq 0 .. p /\ p \notin 0 .. printed
  BY DEF TypeOK, Mark
<1>2. Level \in Nat /\ C \in Pieces(Level) /\ Once(C) /\ p \notin Written(C)
      /\ \A w \in Written(C) : w < p
  BY <1>1, ContentsTyped DEF ChunksInv, NothingLost
<1>3. D = [C EXCEPT ![k] = C[k] \o <<p>>]
  OBVIOUS
<1> HIDE DEF C, D
<1>4. /\ Once(D) /\ Written(D) = Written(C) \cup {p}
      /\ Ascending(C) /\ k = Level => Ascending(D)
  <2> DEFINE d == <<p>>
  <2>1. d \in Seq(Nat) /\ Len(d) = 1 /\ d[1] = p /\ D = Put(C, k, d)
    BY <1>1, <1>3 DEF Put
  <2>2. /\ Level \in Nat /\ C \in Pieces(Level) /\ Once(C) /\ k \in 0 .. Level
        /\ p \in Nat /\ p # Mark /\ p \notin Written(C) /\ d \in Seq(Nat)
        /\ Len(d) \in 0 .. 2 /\ (Len(d) > 0 => d[Len(d)] = p) /\ (Len(d) = 2 => d[1] = Mark)
    BY <1>1, <1>2, <2>1
  <2> DEFINE E == Put(C, k, d)
  <2> HIDE DEF d
  <2>3. Once(E)
    BY ONLY <2>2, PutPiece
  <2>4. Written(E) = IF Len(d) = 0 THEN Written(C) ELSE Written(C) \cup {p}
    BY ONLY <2>2, PutPiece
  <2>5. Ascending(C) /\ k = Level /\ (\A w \in Written(C) : w < p) => Ascending(E)
    BY ONLY <2>2, PutPiece
  <2> HIDE DEF E
  <2>6. D = E
    BY <2>1 DEF E
  <2> QED BY <1>2, <2>1, <2>3, <2>4, <2>5, <2>6
<1>5. Held' = Held
  BY DEF Held
<1>6. FiltersInv'
  <2>1. FiltersHold'
    BY <1>1 DEF FiltersInv, FiltersHold
  <2>2. FiltersDiffer' /\ FiltersPoint'
    BY DEF FiltersInv, FiltersDiffer, FiltersPoint
  <2>3. disturbed' = {} => filters' = <<>>
    BY DEF InFilter
  <2>4. disturbed' = {} => DOMAIN filters' = {}
    BY <2>3
  <2>5. FiltersLast'
    BY <2>4 DEF FiltersLast
  <2> QED BY <2>1, <2>2, <2>5 DEF FiltersInv
<1>7. ChunksInv'
  <2>1. NothingLost'
    BY ZenonT(60), <1>1, <1>4, <1>5 DEF NothingLost, ChunksInv, C, D
  <2>2. InOrder'
    BY <1>4 DEF InOrder, ChunksInv, C, D
  <2>3. /\ (Held \cap discarded = {})'
        /\ (Written(Contents) \cup Held \subseteq 1 .. printed)'
        /\ (discarded \subseteq 0 .. printed)'
    BY <1>1, <1>4, <1>5 DEF ChunksInv, C, D
  <2> QED BY <2>1, <2>2, <2>3 DEF ChunksInv
<1> QED BY <1>6, <1>7

\* print: to the consumer, to a buffer, or to a filter.
LEMMA PrintChunks ==
    ASSUME TypeOK, ConsumerInv, FiltersInv, ChunksInv, print
    PROVE  FiltersInv' /\ ChunksInv'
<1> DEFINE p == printed + 1
<1>1. /\ Consume(<<p>>) /\ printed' = p /\ Level' = Level /\ UNCHANGED <<base, discarded>>
      /\ disturbed \subseteq disturbed' /\ (InFilter => disturbed' # {})
  BY LevelNext DEF print
<1>2. Level \in Nat /\ printed \in Nat /\ p \in Nat
  BY LevelTyped DEF TypeOK
<1>3. CASE xConsumer # "VmObConsumer"
  <2>1. sConsumer' = sConsumer \o <<p>> /\ UNCHANGED <<aOB, filters>>
    BY <1>1, <1>3, Zenon DEF Consume, Deliver
  <2>2. sConsumer \in Seq(Nat)
    BY DEF TypeOK
  <2>3. sConsumer \o <<p>> \in Seq(Nat)
    BY <1>2, <2>2
  <2>4. Contents' = [Contents EXCEPT ![0] = sConsumer \o <<p>>] /\ Contents[0] = sConsumer
    BY <2>1, <2>3, AfterDeliver, ContentsTyped
  <2>5. 0 \in 0 .. Level /\ (disturbed' = {} => 0 = Level)
    <3>1. disturbed' = {} => "direct" \notin disturbed
      BY <1>1
    <3> QED BY <1>2, <1>3, <3>1 DEF ConsumerInv
  <2>6. Contents' = [Contents EXCEPT ![0] = Contents[0] \o <<p>>]
    BY <2>4
  <2> HIDE DEF p
  <2> QED BY <1>1, <2>1, <2>5, <2>6, ChunkWritten DEF p
<1>4. CASE xConsumer = "VmObConsumer" /\ ~aOB[Level].filter
  <2>1. Level > 0 /\ Level # 0
    BY <1>2, <1>4 DEF ConsumerInv, ConsumerHasBuffer
  <2>2. Store(<<p>>)
    BY <1>1, <1>4, <2>1, Zenon DEF Consume
  <2>3. aOB' = [aOB EXCEPT ![Level].sOB = aOB[Level].sOB \o <<p>>] /\ UNCHANGED <<sConsumer, filters>>
    BY <2>2 DEF Store
  <2>4. Level \in DOMAIN aOB /\ Level \in 1 .. Level
    BY <1>2, <2>1, LevelTyped
  <2>5. aOB[Level].sOB \in Seq(Nat)
    BY <2>4, EntryTyped
  <2>6. aOB[Level].sOB \o <<p>> \in Seq(Nat)
    BY <1>2, <2>5
  <2>7. Contents' = [Contents EXCEPT ![Level] = aOB[Level].sOB \o <<p>>]
    BY <2>3, <2>4, <2>6, AfterStoreOnly
  <2>8. Contents[Level] = aOB[Level].sOB
    BY <2>4, ContentsTyped
  <2>9. Level \in 0 .. Level /\ Contents' = [Contents EXCEPT ![Level] = Contents[Level] \o <<p>>]
    BY <1>2, <2>7, <2>8
  <2> HIDE DEF p
  <2> QED BY <1>1, <2>3, <2>9, ChunkWritten DEF p
<1>5. CASE xConsumer = "VmObConsumer" /\ aOB[Level].filter
  <2>1. Level > 0 /\ Level # 0
    BY <1>2, <1>5 DEF ConsumerInv, ConsumerHasBuffer
  <2> DEFINE act == [slot |-> Level, allocs |-> base.allocs, data |-> <<p>>]
             n == Len(filters)
             f == filters
             g == filters'
  <2>2. CallFilter(<<p>>)
    BY <1>1, <1>5, <2>1, Zenon DEF Consume
  <2>3. g = Append(f, act) /\ UNCHANGED <<aOB, sConsumer>>
    BY <2>2 DEF CallFilter
  <2>4. act.slot = Level /\ act.allocs = base.allocs /\ act.data = <<p>>
    OBVIOUS
  <2>5. f \in Seq(Activation)
    BY DEF TypeOK
  <2> HIDE DEF act, p
  <2>6. /\ n \in Nat /\ DOMAIN f = 1 .. n /\ DOMAIN g = 1 .. n + 1
        /\ g[n + 1] = act /\ \A i \in 1 .. n : g[i] = f[i]
    BY <2>3, <2>5
  <2> HIDE DEF f, g, n
  <2>7. HeldBy(g) = HeldBy(f) \cup {p}
    <3>1. HeldBy(g) = HeldBy(f) \cup Range(g[n + 1].data)
      BY ONLY <2>6, HeldMore
    <3> QED BY <2>4, <2>6, <3>1, RangeOne
  <2>8. Held' = Held \cup {p} /\ Contents' = Contents
    BY <2>3, <2>7, <1>1 DEF Held, HeldBy, f, g, Contents
  <2>9. /\ p # Mark /\ p \notin 1 .. printed /\ p \in 1 .. p
        /\ 1 .. p = (1 .. printed) \cup {p} /\ 0 .. printed \subseteq 0 .. p /\ p \notin 0 .. printed
    BY <1>2 DEF Mark, p
  <2>10. ChunksInv'
    <3>1. NothingLost'
      BY <1>1, <2>8, <2>9 DEF ChunksInv, NothingLost
    <3>2. InOrder'
      BY <1>1, <2>8 DEF ChunksInv, InOrder
    <3>3. /\ (Held \cap discarded = {})'
          /\ (Written(Contents) \cup Held \subseteq 1 .. printed)'
          /\ (discarded \subseteq 0 .. printed)'
      BY <1>1, <2>8, <2>9 DEF ChunksInv
    <3> QED BY <3>1, <3>2, <3>3 DEF ChunksInv
  <2>11. \A i \in DOMAIN g : (i \in DOMAIN f /\ i # n + 1 /\ g[i] = f[i]) \/ (i = n + 1 /\ g[i] = act)
    BY <2>6
  <2>12. \A i \in DOMAIN f : f[i].data # <<p>> /\ \E m \in 1 .. printed : f[i].data = <<m>>
    <3> SUFFICES ASSUME NEW i \in DOMAIN f
                 PROVE  f[i].data # <<p>> /\ \E m \in 1 .. printed : f[i].data = <<m>>
      OBVIOUS
    <3>1. PICK m \in 1 .. printed : f[i].data = <<m>>
      BY DEF FiltersInv, FiltersHold, f
    <3>2. m # p
      BY <2>9
    <3> QED BY <3>1, <3>2
  <2>13. FiltersHold'
    <3> SUFFICES ASSUME NEW i \in DOMAIN g PROVE \E m \in 1 .. p : g[i].data = <<m>>
      BY <1>1 DEF FiltersHold, g
    <3> QED BY <2>4, <2>9, <2>11, <2>12
  <2>14. FiltersDiffer'
    <3> SUFFICES ASSUME NEW i \in DOMAIN g, NEW j \in DOMAIN g, g[i].data = g[j].data
                 PROVE  i = j
      BY DEF FiltersDiffer, g
    <3>1. i \in DOMAIN f /\ j \in DOMAIN f => i = j
      BY <2>11, <2>6 DEF FiltersInv, FiltersDiffer, f
    <3> QED BY <2>4, <2>11, <2>12, <3>1
  <2>15. FiltersPoint'
    <3> SUFFICES ASSUME "stack" \notin disturbed', NEW i \in DOMAIN g
                 PROVE  g[i].slot <= Level /\ g[i].allocs = base.allocs
      BY <1>1 DEF FiltersPoint, g
    <3>1. i \in DOMAIN f => f[i].slot <= Level /\ f[i].allocs = base.allocs
      BY <1>1 DEF FiltersInv, FiltersPoint, f
    <3> QED BY <1>2, <2>4, <2>11, <3>1
  <2>16. FiltersLast'
    <3> SUFFICES ASSUME disturbed' = {}, NEW i \in DOMAIN g
                 PROVE  i = 1 /\ g[i].slot = Level /\ g[i].data = <<p>>
      BY <1>1 DEF FiltersLast, g
    <3>1. f = <<>>
      BY <1>1 DEF InFilter, f
    <3>2. n = 0 /\ DOMAIN f = {}
      BY <3>1 DEF n, f
    <3> QED BY <2>4, <2>11, <3>2
  <2> QED BY <2>10, <2>13, <2>14, <2>15, <2>16 DEF FiltersInv
<1> QED BY <1>3, <1>4, <1>5

\* The activation that returns, the chunk it holds and what is left of the others.
LEMMA Returning ==
    ASSUME TypeOK, FiltersInv, ChunksInv, NEW result, FilterReturn(result),
           NEW act, act = Last(filters)
    PROVE  /\ act \in Activation
           /\ \E v \in 1 .. printed :
                  /\ act.data = <<v>> /\ Held = Held' \cup {v} /\ v \notin Held'
           /\ FiltersInv'
           /\ "stack" \notin disturbed => act.slot <= Level /\ act.allocs = base.allocs
           /\ disturbed = {} => act.slot = Level /\ act.data = <<printed>>
<1> DEFINE f == filters
           g == filters'
           n == Len(filters) - 1
<1>1. g = Front(f) /\ InFilter /\ UNCHANGED <<printed, disturbed, base>> /\ Level' = Level
  BY LevelNext DEF FilterReturn
<1>2. /\ n \in Nat /\ DOMAIN f = 1 .. n + 1 /\ DOMAIN g = 1 .. n /\ act = f[n + 1]
      /\ act \in Activation /\ \A i \in 1 .. n : g[i] = f[i]
  <2>1. f \in Seq(Activation) /\ g \in Seq(Activation) /\ act = f[Len(f)] /\ act \in Activation
        /\ Len(f) \in Nat \ {0} /\ Len(g) = Len(f) - 1 /\ \A i \in 1 .. Len(f) - 1 : g[i] = f[i]
    BY <1>1, ActTyped DEF TypeOK
  <2> HIDE DEF f, g
  <2>2. n = Len(f) - 1 /\ n \in Nat /\ n + 1 = Len(f)
    BY <2>1 DEF f
  <2>3. DOMAIN f = 1 .. Len(f) /\ DOMAIN g = 1 .. Len(g)
    BY <2>1
  <2> HIDE DEF n
  <2> QED BY <2>1, <2>2, <2>3
<1> HIDE DEF n, f, g
<1>3. n + 1 \in DOMAIN f /\ \A i \in DOMAIN g : i \in DOMAIN f /\ i # n + 1 /\ g[i] = f[i]
  BY <1>2
<1>4. PICK v \in 1 .. printed : act.data = <<v>>
  BY <1>2, <1>3 DEF FiltersInv, FiltersHold, f
<1>5. HeldBy(f) = HeldBy(g) \cup {v}
  <2>1. HeldBy(f) = HeldBy(g) \cup Range(f[n + 1].data)
    BY ONLY <1>2, HeldMore
  <2> QED BY <1>2, <1>4, <2>1, RangeOne
<1>6. FiltersInv'
  <2>1. FiltersHold'
    BY <1>1, <1>3 DEF FiltersInv, FiltersHold, f, g
  <2>2. FiltersDiffer'
    BY <1>1, <1>3 DEF FiltersInv, FiltersDiffer, f, g
  <2>3. FiltersPoint'
    BY <1>1, <1>3 DEF FiltersInv, FiltersPoint, f, g
  <2>4. FiltersLast'
    BY <1>1, <1>3 DEF FiltersInv, FiltersLast, f, g
  <2> QED BY <2>1, <2>2, <2>3, <2>4 DEF FiltersInv
<1>7. v \notin HeldBy(g)
  <2> SUFFICES ASSUME v \in HeldBy(g) PROVE FALSE
    OBVIOUS
  <2>1. PICK i \in DOMAIN g : v \in Range(g[i].data)
    BY DEF HeldBy
  <2>2. i \in DOMAIN f /\ i # n + 1 /\ g[i] = f[i]
    BY <1>3
  <2>3. PICK m \in 1 .. printed : f[i].data = <<m>>
    BY <2>2 DEF FiltersInv, FiltersHold, f
  <2>4. m = v
    BY <2>1, <2>2, <2>3, RangeOne
  <2>5. f[i].data = f[n + 1].data
    BY <1>2, <1>4, <2>3, <2>4
  <2> QED BY <1>3, <2>2, <2>5 DEF FiltersInv, FiltersDiffer, f
<1>8. Held = HeldBy(f) /\ Held' = HeldBy(g)
  BY DEF Held, HeldBy, f, g
<1>9. "stack" \notin disturbed => act.slot <= Level /\ act.allocs = base.allocs
  BY <1>2, <1>3 DEF FiltersInv, FiltersPoint, f
<1>10. disturbed = {} => act.slot = Level /\ act.data = <<printed>>
  BY <1>2, <1>3 DEF FiltersInv, FiltersLast, f
<1> QED BY <1>2, <1>4, <1>5, <1>6, <1>7, <1>8, <1>9, <1>10

\* The return of a filter: its chunk is stored, marked or not, or dropped; a pointer
\* that went stale loses it.
LEMMA ReturnChunks ==
    ASSUME TypeOK, FiltersInv, ChunksInv, NEW result \in {"other", "string", "empty"},
           FilterReturn(result)
    PROVE  FiltersInv' /\ ChunksInv'
<1> DEFINE act == Last(filters)
           d == Filtered(act.data, result)
           C == Contents
<1>1. act \in Activation /\ FiltersInv'
      /\ ("stack" \notin disturbed => act.slot <= Level /\ act.allocs = base.allocs)
      /\ (disturbed = {} => act.slot = Level /\ act.data = <<printed>>)
  BY Returning
<1>2. PICK v \in 1 .. printed :
          act.data = <<v>> /\ Held = Held' \cup {v} /\ v \notin Held'
  BY Returning
<1>3. /\ printed \in Nat /\ v \in Nat /\ v # Mark /\ act.slot \in Nat \ {0} /\ Level \in Nat
      /\ C \in Pieces(Level)
  BY <1>1, <1>2, ContentsTyped DEF TypeOK, Activation, Mark
<1>4. /\ Once(C) /\ v \notin Written(C) /\ v \notin discarded
      /\ printed' = printed /\ disturbed' = disturbed /\ sConsumer' = sConsumer
  BY <1>2 DEF ChunksInv, NothingLost, FilterReturn
<1>5. discarded' = IF result = "empty" THEN discarded \cup {v} ELSE discarded
  <2>1. discarded' = IF result = "empty" THEN discarded \cup Range(act.data) ELSE discarded
    BY DEF FilterReturn
  <2> HIDE DEF act
  <2> QED BY <1>2, <2>1, RangeOne
<1>6. /\ d \in Seq(Nat) /\ Len(d) \in 0 .. 2 /\ (Len(d) > 0 => d[Len(d)] = v)
      /\ (Len(d) = 2 => d[1] = Mark) /\ (Len(d) = 0 <=> result = "empty")
  <2> HIDE DEF act
  <2>1. CASE result = "other"
    BY <1>2, <1>3, <2>1 DEF Filtered
  <2>2. CASE result = "string"
    BY <1>2, <1>3, <2>2 DEF Filtered, Mark
  <2>3. CASE result = "empty"
    BY <1>2, <1>3, <2>3 DEF Filtered
  <2> QED BY <2>1, <2>2, <2>3
<1>7. CASE act.allocs = base.allocs /\ act.slot <= Level
  <2> DEFINE k == act.slot
             D == Put(C, k, d)
  <2>1. aOB' = [aOB EXCEPT ![k].sOB = aOB[k].sOB \o d]
    BY <1>7 DEF FilterReturn
  <2>2. k \in 1 .. Level /\ k \in 0 .. Level /\ k \in DOMAIN aOB
    BY <1>3, <1>7, LevelTyped
  <2> HIDE DEF act, d, k
  <2>3. aOB[k].sOB \in Seq(Nat) /\ Contents[k] = aOB[k].sOB
    BY <2>2, EntryTyped, ContentsTyped
  <2>4. aOB[k].sOB \o d \in Seq(Nat)
    BY <1>6, <2>3
  <2>5. Contents' = [Contents EXCEPT ![k] = aOB[k].sOB \o d]
    BY <1>4, <2>1, <2>2, <2>4, AfterStoreOnly
  <2>6. Contents' = D
    BY <2>3, <2>5 DEF Put
  <2> HIDE DEF C
  <2>7. /\ Level \in Nat /\ C \in Pieces(Level) /\ Once(C) /\ k \in 0 .. Level
        /\ v \in Nat /\ v # Mark /\ v \notin Written(C) /\ d \in Seq(Nat)
        /\ Len(d) \in 0 .. 2 /\ (Len(d) > 0 => d[Len(d)] = v) /\ (Len(d) = 2 => d[1] = Mark)
    BY <1>3, <1>4, <1>6, <2>2
  <2>8. Once(D)
    BY ONLY <2>7, PutPiece
  <2>9. Written(D) = IF Len(d) = 0 THEN Written(C) ELSE Written(C) \cup {v}
    BY ONLY <2>7, PutPiece
  <2>10. Ascending(C) /\ k = Level /\ (\A w \in Written(C) : w < v) => Ascending(D)
    BY ONLY <2>7, PutPiece
  <2>11. Written(D) = IF result = "empty" THEN Written(C) ELSE Written(C) \cup {v}
    BY <1>6, <2>9
  <2> HIDE DEF D
  <2>12. NothingLost'
    BY <1>2, <1>4, <1>5, <2>6, <2>8, <2>11 DEF ChunksInv, NothingLost, C
  <2>13. InOrder'
    <3> SUFFICES ASSUME disturbed = {} PROVE Ascending(D)
      BY <1>4, <2>6 DEF InOrder
    <3>1. k = Level /\ v = printed
      BY <1>1, <1>2 DEF k
    <3>2. \A w \in Written(C) : w \in 1 .. printed /\ w # v
      BY <1>4 DEF ChunksInv, C
    <3>3. \A w \in Written(C) : w < v
      BY <1>3, <3>1, <3>2
    <3> QED BY <2>10, <3>1, <3>3 DEF ChunksInv, InOrder, C
  <2>14. /\ (Held \cap discarded = {})'
         /\ (Written(Contents) \cup Held \subseteq 1 .. printed)'
    BY <1>2, <1>4, <1>5, <2>6, <2>11 DEF ChunksInv, C
  <2>15. (discarded \subseteq 0 .. printed)'
    BY <1>3, <1>4, <1>5 DEF ChunksInv
  <2>16. ChunksInv'
    BY <2>12, <2>13, <2>14, <2>15 DEF ChunksInv
  <2> QED BY <1>1, <2>16
<1>8. CASE ~(act.allocs = base.allocs /\ act.slot <= Level)
  <2>1. UNCHANGED aOB
    BY <1>8 DEF FilterReturn
  <2>2. Contents' = Contents /\ "stack" \in disturbed
    BY <1>1, <1>4, <1>8, <2>1 DEF Contents, Level
  <2> HIDE DEF act, d
  <2>3. NothingLost' /\ InOrder'
    BY <1>2, <1>4, <1>5, <2>2 DEF ChunksInv, NothingLost, InOrder
  <2>4. /\ (Held \cap discarded = {})'
        /\ (Written(Contents) \cup Held \subseteq 1 .. printed)'
    BY <1>2, <1>4, <1>5, <2>2 DEF ChunksInv
  <2>5. (discarded \subseteq 0 .. printed)'
    BY <1>3, <1>4, <1>5 DEF ChunksInv
  <2>6. ChunksInv'
    BY <2>3, <2>4, <2>5 DEF ChunksInv
  <2> QED BY <1>1, <2>6
<1> QED BY <1>7, <1>8

\* The running filters stay, and so does what they point to, or the script gave
\* that up.
LEMMA FiltersStay ==
    ASSUME FiltersInv, UNCHANGED <<filters, printed>>, disturbed \subseteq disturbed',
           (Level' = Level /\ base' = base) \/ (InFilter => "stack" \in disturbed')
    PROVE  FiltersInv'
<1>1. FiltersHold' /\ FiltersDiffer'
  BY DEF FiltersInv, FiltersHold, FiltersDiffer
<1>2. CASE Level' = Level /\ base' = base
  <2>1. FiltersPoint' /\ FiltersLast'
    BY <1>2 DEF FiltersInv, FiltersPoint, FiltersLast
  <2> QED BY <1>1, <2>1 DEF FiltersInv
<1>3. CASE InFilter => "stack" \in disturbed'
  <2>1. "stack" \notin disturbed' => filters' = <<>>
    BY <1>3 DEF InFilter
  <2>2. "stack" \notin disturbed' => DOMAIN filters' = {}
    BY <2>1
  <2>3. FiltersPoint' /\ FiltersLast'
    BY <2>2 DEF FiltersPoint, FiltersLast
  <2> QED BY <1>1, <2>3 DEF FiltersInv
<1> QED BY <1>2, <1>3

\* A step that moves written chunks, or drops some that no filter holds.
LEMMA ChunksMove ==
    ASSUME TypeOK, ChunksInv, UNCHANGED <<filters, printed>>, disturbed \subseteq disturbed',
           NEW dropped, discarded' = discarded \cup dropped,
           Once(Contents'), Written(Contents') = Written(Contents) \ dropped,
           dropped \subseteq Written(Contents) \cup {Mark},
           disturbed' = {} => Ascending(Contents')
    PROVE  ChunksInv'
<1> DEFINE W == Written(Contents)
           X == Written(Contents')
<1>1. Held' = Held /\ printed' = printed /\ X = W \ dropped
  BY DEF Held
<1>2. Mark \notin 1 .. printed /\ Mark \in 0 .. printed /\ 1 .. printed \subseteq 0 .. printed
  BY DEF Mark, TypeOK
<1>3. /\ W \cup Held \subseteq 1 .. printed /\ discarded \subseteq 0 .. printed
      /\ Held \cap discarded = {} /\ W \cap (Held \cup discarded) = {}
      /\ "stack" \notin disturbed => 1 .. printed \subseteq W \cup Held \cup discarded
  BY DEF ChunksInv, NothingLost
<1> HIDE DEF W, X
<1>4. dropped \cap Held = {} /\ X \cap (Held \cup discarded') = {}
  BY <1>1, <1>2, <1>3 DEF W
<1>5. "stack" \notin disturbed' => 1 .. printed' \subseteq X \cup Held' \cup discarded'
  BY <1>1, <1>3
<1>6. NothingLost'
  BY <1>1, <1>4, <1>5 DEF NothingLost, X
<1>7. InOrder'
  BY DEF InOrder
<1>8. /\ (Held \cap discarded = {})'
      /\ (Written(Contents) \cup Held \subseteq 1 .. printed)'
  BY <1>1, <1>3, <1>4 DEF X
<1>9. (discarded \subseteq 0 .. printed)'
  BY <1>1, <1>2, <1>3 DEF W
<1> QED BY <1>6, <1>7, <1>8, <1>9 DEF ChunksInv

\* ob_start adds an empty place.
LEMMA StartChunks ==
    ASSUME TypeOK, FiltersInv, ChunksInv, NEW filter, ob_start(filter)
    PROVE  FiltersInv' /\ ChunksInv'
<1> DEFINE C == Contents
           D == Contents'
           n == Level
<1>1. /\ UNCHANGED <<filters, printed, discarded>> /\ disturbed \subseteq disturbed'
      /\ InFilter => "stack" \in disturbed'
  BY DEF ob_start, Touched
<1>2. /\ n \in Nat /\ C \in Pieces(n) /\ Once(C)
      /\ D = [k \in 0 .. n + 1 |-> IF k = n + 1 THEN <<>> ELSE C[k]]
  BY ContentsTyped, AfterPush DEF ChunksInv, NothingLost
<1> HIDE DEF C, D, n
<1>3. Once(D) /\ Written(D) = Written(C) /\ (Ascending(C) => Ascending(D))
  BY ONLY <1>2, PushTop
<1>4. FiltersInv'
  BY <1>1, FiltersStay
<1> DEFINE dropped == {}
<1>5. discarded' = discarded \cup dropped /\ Written(D) = Written(C) \ dropped
      /\ dropped \subseteq Written(C) \cup {Mark}
  BY <1>1, <1>3
<1>6. disturbed' = {} => Ascending(D)
  BY <1>1, <1>3 DEF ChunksInv, InOrder, C
<1> HIDE DEF dropped
<1>7. ChunksInv'
  BY <1>1, <1>3, <1>5, <1>6, ChunksMove DEF C, D
<1> QED BY <1>4, <1>7

\* The contents without those of the top buffer.
LEMMA TopCleared ==
    ASSUME TypeOK, ChunksInv, Level > 0,
           NEW D, D = [Contents EXCEPT ![Level] = <<>>]
    PROVE  /\ D \in Pieces(Level) /\ Once(D)
           /\ Written(D) = Written(Contents) \ Range(aOB[Level].sOB)
           /\ Ascending(Contents) => Ascending(D)
           /\ Range(aOB[Level].sOB) \subseteq Written(Contents) \cup {Mark}
<1> DEFINE C == Contents
           n == Level
<1>1. /\ n \in Nat /\ C \in Pieces(n) /\ Once(C) /\ D = [C EXCEPT ![n] = <<>>]
      /\ C[n] = aOB[n].sOB /\ n \in DOMAIN C
  <2>1. n \in 1 .. n /\ n \in 0 .. n
    BY LevelTyped
  <2> QED BY <2>1, ContentsTyped DEF ChunksInv, NothingLost
<1> HIDE DEF C, n
<1>2. D \in Pieces(n) /\ Once(D) /\ Written(D) = Written(C) \ Range(C[n])
      /\ (Ascending(C) => Ascending(D))
  BY ONLY <1>1, ClearTop
<1>3. Range(C[n]) \subseteq Written(C) \cup {Mark}
  BY <1>1 DEF Written
<1> QED BY <1>1, <1>2, <1>3 DEF C, n

\* ob_clean drops what the top buffer holds.
LEMMA CleanChunks ==
    ASSUME TypeOK, FiltersInv, ChunksInv, ob_clean
    PROVE  FiltersInv' /\ ChunksInv'
<1> DEFINE D == Contents'
           dropped == Range(aOB[Level].sOB)
<1>1. /\ UNCHANGED <<filters, printed, disturbed, base, sConsumer>> /\ Level > 0
      /\ discarded' = discarded \cup dropped /\ aOB' = [aOB EXCEPT ![Level].sOB = <<>>]
      /\ Level' = Level
  BY LevelNext DEF ob_clean
<1>2. D = [Contents EXCEPT ![Level] = <<>>]
  <2>1. Level \in 1 .. Level /\ <<>> \in Seq(Nat)
    BY <1>1, LevelTyped
  <2> QED BY <1>1, <2>1, AfterStoreOnly
<1>3. /\ Once(D) /\ Written(D) = Written(Contents) \ dropped
      /\ Ascending(Contents) => Ascending(D)
      /\ dropped \subseteq Written(Contents) \cup {Mark}
  BY <1>1, <1>2, TopCleared
<1> HIDE DEF D, dropped
<1>4. FiltersInv'
  BY <1>1, FiltersStay
<1>5. disturbed' = {} => Ascending(D)
  BY <1>1, <1>3 DEF ChunksInv, InOrder
<1>6. ChunksInv'
  BY <1>1, <1>3, <1>5, ChunksMove DEF D
<1> QED BY <1>4, <1>6

\* ob_end_clean also drops the buffer.
LEMMA EndCleanChunks ==
    ASSUME TypeOK, FiltersInv, ChunksInv, ob_end_clean
    PROVE  FiltersInv' /\ ChunksInv'
<1> DEFINE D == Contents'
           n == Level
           E == [Contents EXCEPT ![n] = <<>>]
           dropped == Range(aOB[Level].sOB)
<1>1. /\ UNCHANGED <<filters, printed, sConsumer>> /\ Level > 0 /\ n \in Nat \ {0}
      /\ discarded' = discarded \cup dropped /\ aOB' = Front(aOB)
      /\ disturbed \subseteq disturbed' /\ (InFilter => "stack" \in disturbed')
  BY LevelTyped DEF ob_end_clean, Touched
<1>2. /\ E \in Pieces(n) /\ Once(E) /\ Written(E) = Written(Contents) \ dropped
      /\ Ascending(Contents) => Ascending(E)
      /\ dropped \subseteq Written(Contents) \cup {Mark}
  BY <1>1, TopCleared
<1>3. n \in DOMAIN Contents /\ E[n] = <<>> /\ Contents[0] = sConsumer /\ sConsumer \in Seq(Nat)
  BY <1>1, ContentsTyped DEF TypeOK
<1>4. E = [Contents EXCEPT ![0] = sConsumer, ![n] = <<>>]
  BY <1>3 DEF Contents
<1> HIDE DEF E
<1>5. D = [k \in 0 .. n - 1 |-> E[k]]
  <2> DEFINE y == sConsumer
  <2>1. /\ TypeOK /\ Level > 0 /\ aOB' = Front(aOB) /\ y \in Seq(Nat) /\ sConsumer' = y
        /\ E = [Contents EXCEPT ![0] = y, ![Level] = <<>>]
    BY <1>1, <1>3, <1>4
  <2> HIDE DEF y
  <2> QED BY ONLY <2>1, AfterPop
<1> HIDE DEF D, n, dropped
<1>6. n \in Nat \ {0} /\ E \in Pieces(n) /\ E[n] = <<>> /\ D = [k \in 0 .. n - 1 |-> E[k]] /\ Once(E)
  BY <1>1, <1>2, <1>3, <1>5
<1>7. Once(D) /\ Written(D) = Written(E) /\ (Ascending(E) => Ascending(D))
  BY ONLY <1>6, DropTop
<1>8. FiltersInv'
  BY <1>1, FiltersStay
<1>9. disturbed' = {} => Ascending(D)
  BY <1>1, <1>2, <1>7 DEF ChunksInv, InOrder
<1>10. ChunksInv'
  BY <1>1, <1>2, <1>7, <1>9, ChunksMove DEF D
<1> QED BY <1>8, <1>10

\* The contents once those of the top buffer are delivered.
LEMMA TopDelivered ==
    ASSUME TypeOK, ChunksInv, Level > 0, NEW y, y = sConsumer \o aOB[Level].sOB,
           NEW D, D = [Contents EXCEPT ![0] = y, ![Level] = <<>>]
    PROVE  /\ y \in Seq(Nat) /\ D \in Pieces(Level) /\ Once(D) /\ D[Level] = <<>>
           /\ Written(D) = Written(Contents)
           /\ Ascending(Contents) /\ Level = 1 => Ascending(D)
<1> DEFINE C == Contents
           n == Level
<1>1. /\ n \in Nat \ {0} /\ C \in Pieces(n) /\ Once(C)
      /\ C[n] = aOB[n].sOB /\ C[0] = sConsumer /\ n \in DOMAIN C
  <2>1. n \in 1 .. n /\ n \in 0 .. n /\ n \in Nat \ {0}
    BY LevelTyped
  <2> QED BY <2>1, ContentsTyped DEF ChunksInv, NothingLost
<1>2. D = Moved(C, n)
  BY <1>1 DEF Moved
<1>3. y \in Seq(Nat)
  <2>1. n \in DOMAIN aOB /\ sConsumer \in Seq(Nat)
    BY LevelTyped DEF TypeOK
  <2>2. aOB[n].sOB \in Seq(Nat)
    BY <2>1, EntryTyped
  <2> QED BY <2>1, <2>2
<1>4. D[n] = <<>>
  BY <1>1
<1> HIDE DEF C, n
<1>5. D \in Pieces(n) /\ Once(D)
  BY ONLY <1>1, <1>2, MoveTop
<1>6. Written(D) = Written(C)
  BY ONLY <1>1, <1>2, MoveTop
<1>7. Ascending(C) /\ n = 1 => Ascending(D)
  BY ONLY <1>1, <1>2, MoveTop
<1> QED BY <1>3, <1>4, <1>5, <1>6, <1>7 DEF C, n

\* ob_flush moves it to the consumer.
LEMMA FlushChunks ==
    ASSUME TypeOK, FiltersInv, ChunksInv, ob_flush
    PROVE  FiltersInv' /\ ChunksInv'
<1> DEFINE D == Contents'
           y == sConsumer \o aOB[Level].sOB
           dropped == {}
<1>1. /\ UNCHANGED <<filters, printed, discarded, base>> /\ Level > 0 /\ Level \in Nat
      /\ sConsumer' = y /\ aOB' = [aOB EXCEPT ![Level].sOB = <<>>] /\ Level' = Level
      /\ disturbed \subseteq disturbed' /\ (disturbed' = {} => Level = 1)
  <2>1. Level \in Nat /\ Level > 0 /\ Level' = Level
    BY LevelNext, LevelTyped DEF ob_flush
  <2>2. disturbed' = Bypassed(Level > 1)
    BY DEF ob_flush
  <2>3. (Level > 1 => "direct" \in disturbed') /\ disturbed \subseteq disturbed'
    BY <2>2 DEF Bypassed
  <2>4. disturbed' = {} => Level = 1
    BY <2>1, <2>3
  <2> QED BY <2>1, <2>3, <2>4 DEF ob_flush
<1>2. y \in Seq(Nat)
  BY <1>1, TopDelivered
<1>3. D = [Contents EXCEPT ![0] = y, ![Level] = <<>>]
  <2>1. Level \in 1 .. Level /\ <<>> \in Seq(Nat)
    BY <1>1
  <2> HIDE DEF y
  <2> QED BY <1>1, <1>2, <2>1, AfterStore
<1>4. Once(D) /\ Written(D) = Written(Contents) /\ (Ascending(Contents) /\ Level = 1 => Ascending(D))
  BY <1>1, <1>3, TopDelivered
<1>5. discarded' = discarded \cup dropped /\ Written(D) = Written(Contents) \ dropped
      /\ dropped \subseteq Written(Contents) \cup {Mark}
  BY <1>1, <1>4
<1> HIDE DEF D, dropped
<1>6. FiltersInv'
  BY <1>1, FiltersStay
<1>7. disturbed' = {} => Ascending(D)
  BY <1>1, <1>4 DEF ChunksInv, InOrder
<1>8. ChunksInv'
  BY <1>1, <1>4, <1>5, <1>7, ChunksMove DEF D
<1> QED BY <1>6, <1>8

\* ob_end_flush also drops the buffer.
LEMMA EndFlushChunks ==
    ASSUME TypeOK, FiltersInv, ChunksInv, ob_end_flush
    PROVE  FiltersInv' /\ ChunksInv'
<1> DEFINE D == Contents'
           n == Level
           y == sConsumer \o aOB[n].sOB
           E == [Contents EXCEPT ![0] = y, ![n] = <<>>]
           dropped == {}
<1>1. /\ UNCHANGED <<filters, printed, discarded>> /\ Level > 0 /\ n \in Nat \ {0}
      /\ sConsumer' = y /\ aOB' = Front(aOB)
      /\ disturbed \subseteq disturbed' /\ (disturbed' = {} => n = 1)
      /\ (InFilter => "stack" \in disturbed')
  <2>1. n \in Nat /\ n > 0
    BY LevelTyped DEF ob_end_flush
  <2>2. disturbed' = Bypassed(n > 1) \cup Touched
    BY DEF ob_end_flush
  <2>3. n > 1 => "direct" \in disturbed'
    BY <2>2 DEF Bypassed
  <2>4. disturbed \subseteq disturbed' /\ (InFilter => "stack" \in disturbed')
    BY <2>2 DEF Bypassed, Touched
  <2>5. disturbed' = {} => n = 1
    BY <2>1, <2>3
  <2> QED BY <2>1, <2>4, <2>5 DEF ob_end_flush
<1>2. /\ y \in Seq(Nat) /\ E \in Pieces(n) /\ Once(E) /\ E[n] = <<>>
      /\ Written(E) = Written(Contents) /\ (Ascending(Contents) /\ n = 1 => Ascending(E))
  BY <1>1, TopDelivered
<1>3. D = [k \in 0 .. n - 1 |-> E[k]]
  <2>1. /\ TypeOK /\ Level > 0 /\ aOB' = Front(aOB) /\ y \in Seq(Nat) /\ sConsumer' = y
        /\ E = [Contents EXCEPT ![0] = y, ![Level] = <<>>]
    BY <1>1, <1>2
  <2> HIDE DEF y, E
  <2> QED BY ONLY <2>1, AfterPop
<1> HIDE DEF D, n, E, y
<1>4. n \in Nat \ {0} /\ E \in Pieces(n) /\ E[n] = <<>> /\ D = [k \in 0 .. n - 1 |-> E[k]] /\ Once(E)
  BY <1>1, <1>2, <1>3
<1>5. Once(D) /\ Written(D) = Written(E) /\ (Ascending(E) => Ascending(D))
  BY ONLY <1>4, DropTop
<1>6. discarded' = discarded \cup dropped /\ Written(D) = Written(Contents) \ dropped
      /\ dropped \subseteq Written(Contents) \cup {Mark}
  BY <1>1, <1>2, <1>5
<1> HIDE DEF dropped
<1>7. FiltersInv'
  BY <1>1, FiltersStay
<1>8. disturbed' = {} => Ascending(D)
  BY <1>1, <1>2, <1>5 DEF ChunksInv, InOrder
<1>9. ChunksInv'
  BY <1>1, <1>5, <1>6, <1>8, ChunksMove DEF D
<1> QED BY <1>7, <1>9

\* Every step keeps the chunks.
LEMMA ChunksNext ==
    ASSUME TypeOK, ConsumerInv, FiltersInv, ChunksInv, [Next]_vars
    PROVE  FiltersInv' /\ ChunksInv'
<1>1. CASE register_shutdown_function \/ StartExec \/ RunEnds \/ Reset \/ ConfigOutput \/ UNCHANGED vars
  <2>1. /\ UNCHANGED <<aOB, sConsumer, filters, base, printed, discarded>>
        /\ disturbed \subseteq disturbed'
    BY <1>1 DEF register_shutdown_function, StartExec, RunEnds, Reset, ConfigOutput, Bypassed,
                vars, buffers
  <2> QED BY <2>1, ChunksStay
<1> QED
  BY <1>1, PrintChunks, ReturnChunks, StartChunks, CleanChunks, EndCleanChunks, FlushChunks,
     EndFlushChunks DEF Next

-----------------------------------------------------------------------------
(* The invariant and what follows from it.                                  *)

\* The invariant holds at first.
LEMMA Initially ==
    ASSUME Init
    PROVE  TypeOK /\ ConsumerInv /\ ShutdownInv /\ FiltersInv /\ ChunksInv
<1>1. TypeOK /\ Level = 0
  BY OutputInvInit DEF Init, Level
<1>2. ConsumerInv
  BY <1>1 DEF Init, ConsumerInv, ConsumerHasBuffer
<1>3. ShutdownInv
  BY DEF Init, ShutdownInv, Gone
<1>4. FiltersInv
  BY DEF Init, FiltersInv, FiltersHold, FiltersDiffer, FiltersPoint, FiltersLast
<1>5. DOMAIN Contents = {0} /\ Contents[0] = <<>> /\ DOMAIN Contents[0] = {}
  BY <1>1, ContentsTyped DEF Init
<1>6. Written(Contents) = {}
  BY <1>5 DEF Written, Range
<1>7. Once(Contents) /\ Ascending(Contents)
  BY <1>5 DEF Once, Ascending
<1>8. Held = {}
  BY DEF Init, Held
<1>9. printed = 0 /\ discarded = {} /\ 1 .. printed = {}
  BY DEF Init
<1>10. ChunksInv
  BY <1>6, <1>7, <1>8, <1>9 DEF ChunksInv, NothingLost, InOrder
<1> QED BY <1>1, <1>2, <1>3, <1>4, <1>10

OutputInv == TypeOK /\ ConsumerInv /\ ShutdownInv /\ FiltersInv /\ ChunksInv

\* The inductive invariant holds in every reachable state.
THEOREM Invariance == Spec => []OutputInv
<1>1. Init => OutputInv
  BY Initially DEF OutputInv
<1>2. OutputInv /\ [Next]_vars => OutputInv'
  BY TypeNext, ConsumerNext, ShutdownNext, ChunksNext DEF OutputInv
<1> QED BY <1>1, <1>2, PTL DEF Spec

\* The type invariant.
THEOREM TypeCorrect == Spec => []TypeOK
<1>1. OutputInv => TypeOK
  BY DEF OutputInv
<1> QED BY <1>1, Invariance, PTL

\* VmObConsumer never meets an empty stack, and there is a consumer behind it.
THEOREM ConsumerIsBuffered == Spec => []ConsumerHasBuffer
<1>1. OutputInv => ConsumerHasBuffer
  BY DEF OutputInv, ConsumerInv
<1> QED BY <1>1, Invariance, PTL

\* No chunk is written twice or after it was dropped, and none is lost unless a
\* filter opens or closes buffers.
THEOREM ChunksAreKept == Spec => []NothingLost
<1>1. OutputInv => NothingLost
  BY DEF OutputInv, ChunksInv
<1> QED BY <1>1, Invariance, PTL

\* Chunks keep the order of the prints unless the script or the host gave it up.
THEOREM ChunksAreInOrder == Spec => []InOrder
<1>1. OutputInv => InOrder
  BY DEF OutputInv, ChunksInv
<1> QED BY <1>1, Invariance, PTL

\* Shutdown callbacks run once, in order, and all that main registered.
THEOREM ShutdownIsInOrder == Spec => []ShutdownInOrder
<1>1. ASSUME OutputInv PROVE ShutdownInOrder
  <2>1. ShutdownInv /\ TypeOK
    BY <1>1 DEF OutputInv
  <2>2. \A i, j \in 1 .. Len(called) : i < j => called[i] < called[j]
    BY <2>1 DEF ShutdownInv
  <2>3. ASSUME phase = "none" PROVE aShutdown = <<>> /\ registered.before \subseteq Range(called)
    <3>1. phase # "shutdown" /\ phase # "main" /\ next.nEntry = 0
      BY <2>1, <2>3 DEF ShutdownInv
    <3>2. {Gone + i : i \in 1 .. IF phase = "main" THEN Len(aShutdown) ELSE next.nEntry} = {}
      BY <3>1
    <3> QED BY <2>1, <2>3, <3>2 DEF ShutdownInv
  <2> QED BY <2>2, <2>3 DEF ShutdownInOrder
<1> QED BY <1>1, Invariance, PTL

=============================================================================
