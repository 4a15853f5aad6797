--------------------------- MODULE StreamsProofs ----------------------------
(***************************************************************************)
(* Proofs about Streams: a handle that reads ahead gives the file in order, *)
(* for any chunk sizes, files and handles.  Every way to read takes what the *)
(* device gives next behind what is kept, and splits the two into what the   *)
(* script gets and what is kept now (Reads); so what was given and what is   *)
(* kept grow by what the device went over (OrderStep).  A write, a cut or    *)
(* another handle's open changes the file; a handle the device of which has  *)
(* gone over other characters than the file now has is torn off (OrderKept). *)
(* StreamInv adds the types, the longest file, and that no handle outlives   *)
(* its file.                                                                 *)
(*                                                                           *)
(* What is unread (Unread) is what a handle keeps and what is behind its     *)
(* device; each way to read gives a beginning of it (KeptAndRead), the line  *)
(* reader the first line of one, because it stops only where that is a line  *)
(* of what is unread (LineUnread).                                           *)
(***************************************************************************)
EXTENDS Streams, SequenceTheorems, FiniteSetTheorems, WellFoundedInduction, TLAPS

\* The characters of files, and the ones the functions put in themselves.
Character == STRING \cup {"NUL", "\n", ",", "\""}
FileText == Seq(Character)

\* The part of the text c between two places.
Span(c, a, b) == SubSeq(c, a + 1, b)

\* The smaller of two.
LEMMA MinOfTwo ==
    ASSUME NEW a \in Int, NEW b \in Int
    PROVE  Min({a, b}) = IF a <= b THEN a ELSE b
BY DEF Min

\* The beginning of a text, of at most n characters.
LEMMA UptoText ==
    ASSUME NEW s \in FileText, NEW n \in Nat
    PROVE  /\ Upto(s, n) \in FileText
           /\ Len(Upto(s, n)) = IF n <= Len(s) THEN n ELSE Len(s)
           /\ \A i \in 1 .. Len(Upto(s, n)) : Upto(s, n)[i] = s[i]
<1>1. Len(s) \in Nat /\ DOMAIN s = 1 .. Len(s)
    BY DEF FileText
<1>2. Upto(s, n) = SubSeq(s, 1, IF n <= Len(s) THEN n ELSE Len(s))
    BY <1>1, MinOfTwo DEF Upto
<1>. QED  BY <1>1, <1>2 DEF FileText

\* A text without its first n characters.
LEMMA DropText ==
    ASSUME NEW s \in FileText, NEW n \in Nat, n <= Len(s)
    PROVE  /\ Drop(s, n) \in FileText
           /\ Len(Drop(s, n)) = Len(s) - n
           /\ \A i \in 1 .. Len(s) - n : Drop(s, n)[i] = s[n + i]
BY DEF FileText, Drop

\* A span is a text as long as the way between the two places.
LEMMA SpanText ==
    ASSUME NEW c \in FileText, NEW a \in Nat, NEW b \in Nat, a <= b, b <= Len(c)
    PROVE  /\ Span(c, a, b) \in FileText
           /\ Len(Span(c, a, b)) = b - a
           /\ \A i \in 1 .. b - a : Span(c, a, b)[i] = c[a + i]
BY DEF FileText, Span

\* Between a place and itself is nothing.
LEMMA NothingSpan ==
    ASSUME NEW c, NEW a \in Nat PROVE Span(c, a, a) = <<>>
BY DEF Span

\* What is behind a span makes it longer.
LEMMA SpanGrows ==
    ASSUME NEW c \in FileText, NEW a \in Nat, NEW b \in Nat, NEW d \in Nat,
           a <= b, b <= d, d <= Len(c)
    PROVE  Span(c, a, b) \o Span(c, b, d) = Span(c, a, d)
<1> DEFINE x == Span(c, a, b)  y == Span(c, b, d)  z == Span(c, a, d)
<1>1. Len(c) \in Nat /\ b <= Len(c) /\ a <= d
    BY DEF FileText
<1>2. /\ x \in FileText /\ Len(x) = b - a
      /\ \A i \in 1 .. b - a : x[i] = c[a + i]
    BY <1>1, SpanText
<1>3. /\ y \in FileText /\ Len(y) = d - b
      /\ \A i \in 1 .. d - b : y[i] = c[b + i]
    BY <1>1, SpanText
<1>4. /\ z \in FileText /\ Len(z) = d - a
      /\ \A i \in 1 .. d - a : z[i] = c[a + i]
    BY <1>1, SpanText
<1> HIDE DEF x, y, z
<1>5. x \o y \in FileText /\ Len(x \o y) = Len(z)
    BY <1>2, <1>3, <1>4 DEF FileText
<1>6. \A i \in 1 .. Len(z) : (x \o y)[i] = z[i]
    <2> SUFFICES ASSUME NEW i \in 1 .. Len(z) PROVE (x \o y)[i] = z[i]
        OBVIOUS
    <2>1. CASE i <= Len(x)
        BY <2>1, <1>2, <1>3, <1>4 DEF FileText
    <2>2. CASE i > Len(x)
        <3>0. /\ i \in 1 .. d - a /\ Len(x) = b - a /\ i > b - a
              /\ x \in Seq(Character) /\ y \in Seq(Character) /\ Len(y) = d - b
            BY <2>2, <1>2, <1>3, <1>4 DEF FileText
        <3>1. (x \o y)[i] = y[i - Len(x)] /\ i - Len(x) \in 1 .. d - b
            BY <3>0
        <3>2. y[i - Len(x)] = c[b + (i - (b - a))] /\ z[i] = c[a + i]
            BY <3>1, <1>2, <1>3, <1>4
        <3>. QED  BY <3>1, <3>2
    <2>3. i \in Int /\ Len(x) \in Int
        BY <1>2, <1>4
    <2>4. i <= Len(x) \/ i > Len(x)
        BY <2>3
    <2>. QED  BY <2>1, <2>2, <2>4, Zenon
<1>7. x \o y = z
    BY <1>4, <1>5, <1>6, SeqEqual DEF FileText
<1>. QED  BY <1>7 DEF x, y, z

\* Two texts that begin alike have the same spans there.
LEMMA SpanOfPrefix ==
    ASSUME NEW c \in FileText, NEW d \in FileText, NEW a \in Nat, NEW b \in Nat,
           a <= b, b <= Len(c), Upto(d, b) = Upto(c, b)
    PROVE  b <= Len(d) /\ Span(d, a, b) = Span(c, a, b)
<1>1. Len(c) \in Nat /\ Len(d) \in Nat
    BY DEF FileText
<1>2. b <= Len(d)
    BY <1>1, UptoText
<1>3. \A i \in 1 .. b : d[i] = c[i]
    <2>1. \A i \in 1 .. b : Upto(c, b)[i] = c[i] /\ Upto(d, b)[i] = d[i]
        BY <1>1, <1>2, UptoText
    <2>. QED  BY <2>1
<1> DEFINE x == Span(c, a, b)  z == Span(d, a, b)
<1>4. /\ x \in FileText /\ Len(x) = b - a
      /\ \A i \in 1 .. b - a : x[i] = c[a + i]
    BY <1>1, SpanText
<1>5. /\ z \in FileText /\ Len(z) = b - a
      /\ \A i \in 1 .. b - a : z[i] = d[a + i]
    BY <1>1, <1>2, SpanText
<1> HIDE DEF x, z
<1>6. \A i \in 1 .. Len(z) : x[i] = z[i]
    BY <1>3, <1>4, <1>5
<1>7. x = z
    BY <1>4, <1>5, <1>6, SeqEqual DEF FileText
<1>. QED  BY <1>2, <1>7 DEF x, z

\* A handle.
Flags == {"read", "write", "create", "trunc", "append", "excl"}
Handle == [path : Paths, flags : SUBSET Flags, pos : Nat, buf : FileText,
           from : Nat \cup {Torn}, got : FileText]

\* What has been given and what is kept are the part of c from f to p.
Went(c, f, p, got, buf) ==
    /\ f + Len(got) + Len(buf) = p
    /\ got \o buf = Span(c, f, p)
    /\ f < p => p <= Len(c)

InOrder(st, c) == st.from # Torn => Went(c, st.from, st.pos, st.got, st.buf)

\* What the device gives at p is what is there.
Behind(c, p, more) ==
    more # <<>> => p + Len(more) <= Len(c) /\ more = Span(c, p, p + Len(more))

\* Texts are put together in any order.
LEMMA Associative ==
    ASSUME NEW x \in FileText, NEW y \in FileText, NEW z \in FileText
    PROVE  (x \o y) \o z = x \o (y \o z)
BY ConcatAssociative DEF FileText

\* What is put together is a text, and as long as its parts.
LEMMA TextLen ==
    /\ \A x \in FileText : Len(x) \in Nat
    /\ \A x, y \in FileText : x \o y \in FileText /\ Len(x \o y) = Len(x) + Len(y)
BY DEF FileText

\* A text that begins behind p and is not longer than the rest is a span.
LEMMA RestSpan ==
    ASSUME NEW c \in FileText, NEW p \in Nat, p <= Len(c), NEW n \in Nat,
           NEW more, more = Upto(Drop(c, p), n)
    PROVE  /\ more \in FileText /\ Len(more) <= n /\ p + Len(more) <= Len(c)
           /\ more = Span(c, p, p + Len(more))
<1> DEFINE rest == Drop(c, p)
<1>1. /\ rest \in FileText /\ Len(rest) = Len(c) - p /\ Len(c) \in Nat
      /\ \A i \in 1 .. Len(c) - p : rest[i] = c[p + i]
    BY DropText, TextLen
<1> HIDE DEF rest
<1>2. /\ more \in FileText /\ Len(more) <= n /\ Len(more) <= Len(rest)
      /\ \A i \in 1 .. Len(more) : more[i] = rest[i]
    <2>1. Len(rest) \in Nat /\ more = Upto(rest, n)
        BY <1>1 DEF FileText, rest
    <2>. QED  BY <1>1, <2>1, UptoText
<1>3. Len(more) \in Nat
    BY <1>2 DEF FileText
<1>4. p + Len(more) <= Len(c)
    BY <1>1, <1>2, <1>3
<1> DEFINE b == p + Len(more)
<1>5. b \in Nat /\ p <= b /\ b <= Len(c) /\ b - p = Len(more)
    BY <1>1, <1>3, <1>4
<1> HIDE DEF b
<1> DEFINE z == Span(c, p, b)
<1>6. /\ z \in FileText /\ Len(z) = b - p
      /\ \A i \in 1 .. b - p : z[i] = c[p + i]
    BY <1>5, SpanText
<1> HIDE DEF z
<1>7. \A i \in 1 .. Len(more) : more[i] = z[i]
    BY <1>1, <1>2, <1>3, <1>5, <1>6
<1>8. more = z
    BY <1>2, <1>5, <1>6, <1>7, SeqEqual DEF FileText
<1>. QED  BY <1>2, <1>4, <1>8 DEF z, b

\* The script gets t; it and what is kept then are what was kept and what the
\* device gave.
LEMMA OrderStep ==
    ASSUME NEW c \in FileText, NEW f \in Nat, NEW p \in Nat,
           NEW got \in FileText, NEW buf \in FileText, NEW more \in FileText,
           NEW t \in FileText, NEW kept \in FileText, t \o kept = buf \o more,
           Went(c, f, p, got, buf), Behind(c, p, more)
    PROVE  Went(c, f, p + Len(more), got \o t, kept)
<1>1. /\ Len(got) \in Nat /\ Len(buf) \in Nat /\ Len(more) \in Nat /\ Len(t) \in Nat
      /\ Len(kept) \in Nat /\ Len(c) \in Nat
    BY TextLen
<1>2. f + Len(got \o t) + Len(kept) = p + Len(more)
    <2>1. Len(t \o kept) = Len(t) + Len(kept)
        BY TextLen
    <2>2. Len(buf \o more) = Len(buf) + Len(more)
        BY TextLen
    <2>3. Len(got \o t) = Len(got) + Len(t)
        BY TextLen
    <2>4. Len(t) + Len(kept) = Len(buf) + Len(more)
        BY <2>1, <2>2
    <2>5. f + Len(got) + Len(buf) = p
        BY DEF Went
    <2>6. f + (Len(got) + Len(t)) + Len(kept) = p + Len(more)
        <3> DEFINE g == Len(got)  k == Len(buf)  m == Len(more)  n == Len(t)  l == Len(kept)
        <3>1. g \in Nat /\ k \in Nat /\ m \in Nat /\ n \in Nat /\ l \in Nat
            BY <1>1
        <3>2. n + l = k + m /\ f + g + k = p
            BY <2>4, <2>5
        <3> HIDE DEF g, k, m, n, l
        <3>3. f + (g + n) + l = p + m
            BY <3>1, <3>2
        <3>. QED  BY <3>3 DEF g, k, m, n, l
    <2>. QED  BY <2>3, <2>6
<1>3. (got \o t) \o kept = (got \o buf) \o more
    <2>1. (got \o t) \o kept = got \o (t \o kept)
        BY Associative, ZenonT(60)
    <2>2. (got \o buf) \o more = got \o (buf \o more)
        BY Associative, ZenonT(60)
    <2>. QED  BY <2>1, <2>2
<1>4. CASE more = <<>>
    <2>1. (got \o buf) \o more = got \o buf /\ Len(more) = 0
        BY <1>4 DEF FileText
    <2>2. p + Len(more) = p
        BY <2>1
    <2>. QED  BY <1>2, <1>3, <2>1, <2>2 DEF Went
<1>5. CASE more # <<>>
    <2> DEFINE q == p + Len(more)
    <2>1. q \in Nat /\ p <= q /\ q <= Len(c) /\ more = Span(c, p, q)
        BY <1>1, <1>5 DEF Behind
    <2>2. f <= p
        BY <1>1 DEF Went
    <2>3. got \o buf = Span(c, f, p)
        BY DEF Went
    <2> HIDE DEF q
    <2>4. Span(c, f, p) \o Span(c, p, q) = Span(c, f, q)
        BY <2>1, <2>2, SpanGrows, ZenonT(60)
    <2>5. (got \o t) \o kept = Span(c, f, q)
        BY <1>3, <2>1, <2>3, <2>4
    <2>. QED  BY <1>2, <2>1, <2>5 DEF q, Went
<1>. QED  BY <1>4, <1>5

\* The device gives what is behind its place.
LEMMA DevReads ==
    ASSUME NEW st \in Handle, Content(st) \in FileText, NEW n \in Nat,
           NEW more, more = DevRead(st, n)
    PROVE  more \in FileText /\ Len(more) <= n /\ Behind(Content(st), st.pos, more)
<1>1. /\ Content(st) \in FileText /\ Len(Content(st)) \in Nat /\ st.pos \in Nat
    BY DEF FileText, Handle
<1>2. CASE "read" \in st.flags /\ st.pos < Len(Content(st))
    <2>1. more = Upto(Drop(Content(st), st.pos), n)
        BY <1>2 DEF DevRead
    <2>2. st.pos <= Len(Content(st))
        BY <1>1, <1>2
    <2> DEFINE c == Content(st)  p == st.pos
    <2>3. c \in FileText /\ p \in Nat /\ p <= Len(c) /\ more = Upto(Drop(c, p), n)
        BY <1>1, <2>1, <2>2
    <2> HIDE DEF c, p
    <2>4. /\ more \in FileText /\ Len(more) <= n /\ p + Len(more) <= Len(c)
          /\ more = Span(c, p, p + Len(more))
        BY <2>3, RestSpan, ZenonT(60)
    <2>. QED  BY <2>4 DEF Behind, c, p
<1>3. CASE ~("read" \in st.flags /\ st.pos < Len(Content(st)))
    <2>1. more = <<>>
        BY <1>3 DEF DevRead
    <2>. QED  BY <2>1 DEF FileText, Behind
<1>. QED  BY <1>2, <1>3

\* What reading does to a handle: the device goes on over `more`, and what the
\* script gets and what is kept together are what was kept and `more`.
Goes(st, t, out, more) ==
    /\ out \in Handle /\ out.path = st.path
    /\ t \in FileText /\ t \o out.buf = st.buf \o more
    /\ out.pos = st.pos + Len(more) /\ out.from = st.from
    /\ out.got = IF st.from = Torn THEN st.got ELSE st.got \o t

Reads(st, t, out) == \E n \in Nat : Goes(st, t, out, DevRead(st, n))

\* A way to read that does no more than Reads keeps a handle in order.
LEMMA ReadingKeepsOrder ==
    ASSUME NEW st \in Handle, Content(st) \in FileText, InOrder(st, Content(st)),
           NEW t, NEW out, Reads(st, t, out)
    PROVE  out \in Handle /\ out.path = st.path /\ InOrder(out, Content(st))
<1>1. PICK n \in Nat : Goes(st, t, out, DevRead(st, n))
    BY DEF Reads
<1> DEFINE c == Content(st)  more == DevRead(st, n)
<1>2. more \in FileText /\ Behind(c, st.pos, more) /\ c \in FileText
    BY DevReads
<1>4. out \in Handle /\ out.path = st.path
    BY <1>1 DEF Goes
<1> HIDE DEF c, more
<1>5. ASSUME st.from # Torn PROVE InOrder(out, c)
    <2>1. /\ st.from \in Nat /\ st.pos \in Nat
          /\ st.got \in FileText /\ st.buf \in FileText /\ out.buf \in FileText
        BY <1>4, <1>5 DEF Handle
    <2>2. /\ t \in FileText /\ t \o out.buf = st.buf \o more
          /\ out.pos = st.pos + Len(more) /\ out.from = st.from
          /\ out.got = st.got \o t
        BY <1>1, <1>5 DEF Goes, more
    <2>3. Went(c, st.from, st.pos, st.got, st.buf)
        BY <1>5 DEF InOrder, c
    <2>4. Went(c, st.from, st.pos + Len(more), st.got \o t, out.buf)
        BY <1>2, <2>1, <2>2, <2>3, OrderStep
    <2>. QED  BY <2>2, <2>4 DEF InOrder
<1>6. ASSUME st.from = Torn PROVE InOrder(out, c)
    BY <1>1, <1>6 DEF Goes, InOrder
<1>. QED  BY <1>4, <1>5, <1>6 DEF c

-----------------------------------------------------------------------------
(* The ways to read.                                                         *)

\* What the models of the reading functions return goes on over `more`.
LEMMA GoesOn ==
    ASSUME NEW st \in Handle, NEW t \in FileText, NEW b \in FileText, NEW more \in FileText,
           t \o b = st.buf \o more
    PROVE  Goes(st, t, Given([st EXCEPT !.buf = b, !.pos = @ + Len(more)], t), more)
<1> DEFINE mid == [st EXCEPT !.buf = b, !.pos = @ + Len(more)]
<1>1. /\ mid \in Handle /\ mid.path = st.path /\ mid.buf = b /\ mid.from = st.from
      /\ mid.got = st.got /\ mid.pos = st.pos + Len(more)
    <2>1. st.pos + Len(more) \in Nat
        BY TextLen DEF Handle
    <2>. QED  BY <2>1 DEF Handle
<1> HIDE DEF mid
<1> DEFINE g == IF mid.from = Torn THEN mid.got ELSE mid.got \o t
           out == [mid EXCEPT !.got = g]
<1>2. g \in FileText
    <2>1. mid.got \in FileText
        BY <1>1 DEF Handle
    <2>. QED  BY <2>1, TextLen
<1>3. Given(mid, t) = out
    BY <1>1 DEF Given, Handle
<1>4. g = IF st.from = Torn THEN st.got ELSE st.got \o t
    BY <1>1
<1> HIDE DEF g
<1>5. /\ out \in Handle /\ out.path = st.path /\ out.buf = b /\ out.from = st.from
      /\ out.got = g /\ out.pos = st.pos + Len(more)
    BY <1>1, <1>2 DEF Handle
<1> HIDE DEF out
<1>6. Goes(st, t, Given(mid, t), more)
    BY <1>3, <1>4, <1>5 DEF Goes
<1>. QED  BY <1>6 DEF mid

\* A text is a beginning of it and the rest.
LEMMA CutInTwo ==
    ASSUME NEW s \in FileText, NEW n \in Nat, n <= Len(s)
    PROVE  /\ Upto(s, n) \in FileText /\ Drop(s, n) \in FileText /\ Upto(s, n) \o Drop(s, n) = s
           /\ SubSeq(s, 1, n) = Upto(s, n)
<1> DEFINE x == Upto(s, n)  y == Drop(s, n)
<1>1. Len(s) \in Nat
    BY TextLen
<1>2. x \in FileText /\ Len(x) = n /\ \A i \in 1 .. n : x[i] = s[i]
    BY <1>1, UptoText
<1>3. y \in FileText /\ Len(y) = Len(s) - n /\ \A i \in 1 .. Len(s) - n : y[i] = s[n + i]
    BY DropText
<1>4. SubSeq(s, 1, n) = x
    BY <1>1, MinOfTwo DEF Upto
<1> HIDE DEF x, y
<1>5. x \o y \in FileText /\ Len(x \o y) = Len(s)
    <2>1. Len(x \o y) = Len(x) + Len(y) /\ x \o y \in FileText
        BY <1>2, <1>3, TextLen
    <2>. QED  BY <1>1, <1>2, <1>3, <2>1
<1>6. \A i \in 1 .. Len(s) : (x \o y)[i] = s[i]
    <2> SUFFICES ASSUME NEW i \in 1 .. Len(s) PROVE (x \o y)[i] = s[i]
        OBVIOUS
    <2>1. (x \o y)[i] = IF i <= Len(x) THEN x[i] ELSE y[i - Len(x)]
        BY <1>1, <1>2, <1>3 DEF FileText
    <2>2. CASE i <= n
        BY <2>1, <2>2, <1>1, <1>2
    <2>3. CASE ~(i <= n)
        <3>1. i - n \in 1 .. Len(s) - n /\ n + (i - n) = i
            BY <2>3, <1>1
        <3>. QED  BY <2>1, <2>3, <3>1, <1>2, <1>3
    <2>. QED  BY <2>2, <2>3
<1>7. x \o y = s
    BY <1>5, <1>6, SeqEqual DEF FileText
<1>8. x \in FileText /\ y \in FileText /\ x \o y = s /\ SubSeq(s, 1, n) = x
    BY <1>2, <1>3, <1>4, <1>7
<1>. QED  BY <1>8, Zenon DEF x, y

\* A beginning is the beginning of its length.
LEMMA UptoTwice ==
    ASSUME NEW s \in FileText, NEW n \in Nat
    PROVE  LET k == Len(Upto(s, n)) IN k \in Nat /\ k <= Len(s) /\ Upto(s, k) = Upto(s, n)
<1> DEFINE k == IF n <= Len(s) THEN n ELSE Len(s)
<1>1. Len(s) \in Nat
    BY TextLen
<1>2. k \in Nat /\ k <= Len(s)
    BY <1>1
<1>3. Len(Upto(s, n)) = k
    BY UptoText
<1>4. Upto(s, n) = SubSeq(s, 1, k)
    BY <1>1, MinOfTwo DEF Upto
<1> HIDE DEF k
<1>5. Upto(s, k) = SubSeq(s, 1, k)
    BY <1>2, CutInTwo
<1>. QED  BY <1>2, <1>3, <1>4, <1>5

\* PH7_StreamRead: what is kept first, then what the device gives.
LEMMA StreamReadReads ==
    ASSUME NEW st \in Handle, Content(st) \in FileText, NEW n \in Nat
    PROVE  Reads(st, StreamRead(st, n).text, StreamRead(st, n).st)
<1> DEFINE kept == Upto(st.buf, n)
           more == DevRead(st, n - Len(kept))
           b == Drop(st.buf, Len(kept))
<1>1. st.buf \in FileText /\ Len(st.buf) \in Nat
    BY TextLen DEF Handle
<1>2. kept \in FileText /\ Len(kept) \in Nat /\ Len(kept) = IF n <= Len(st.buf) THEN n ELSE Len(st.buf)
    BY <1>1, UptoText, TextLen
<1>3. n - Len(kept) \in Nat /\ Len(kept) <= Len(st.buf)
    BY <1>1, <1>2
<1>4. more \in FileText /\ Len(more) <= n - Len(kept) /\ Len(more) \in Nat
    BY <1>3, DevReads, TextLen
<1>5. Upto(st.buf, Len(kept)) = kept
    BY <1>1, UptoTwice
<1>6. b \in FileText /\ kept \o b = st.buf /\ Len(b) = Len(st.buf) - Len(kept)
    <2> DEFINE k == Len(kept)
    <2>1. k \in Nat /\ k <= Len(st.buf)
        BY <1>2, <1>3
    <2> HIDE DEF k
    <2>2. /\ Drop(st.buf, k) \in FileText /\ Upto(st.buf, k) \o Drop(st.buf, k) = st.buf
          /\ Len(Drop(st.buf, k)) = Len(st.buf) - k
        BY <1>1, <2>1, CutInTwo, DropText
    <2>. QED  BY <1>5, <2>2 DEF k
<1>7. StreamRead(st, n) = Result(kept \o more, Given([st EXCEPT !.buf = b, !.pos = @ + Len(more)], kept \o more))
    BY <1>1 DEF StreamRead, Handle
<1>8. more = DevRead(st, n - Len(kept))
    OBVIOUS
<1> HIDE DEF kept, more, b
<1>9. (kept \o more) \o b = st.buf \o more /\ kept \o more \in FileText
    <2>1. CASE n <= Len(st.buf)
        <3>1. more = <<>>
            BY <2>1, <1>2, <1>4 DEF FileText
        <3>2. kept \o more = kept /\ st.buf \o more = st.buf
            BY <1>1, <1>2, <3>1 DEF FileText
        <3>. QED  BY <1>2, <1>6, <3>2
    <2>2. CASE ~(n <= Len(st.buf))
        <3>1. b = <<>> /\ kept = st.buf
            <4>1. Len(b) = 0
                BY <2>2, <1>1, <1>2, <1>6
            <4>2. b = <<>>
                BY <4>1, <1>6 DEF FileText
            <4>3. kept \o b = kept
                BY <4>2, <1>2 DEF FileText
            <4>. QED  BY <4>2, <4>3, <1>6
        <3>2. (kept \o more) \o b = kept \o more
            BY <1>2, <1>4, <3>1 DEF FileText
        <3>. QED  BY <1>2, <1>4, <3>1, <3>2, TextLen
    <2>. QED  BY <2>1, <2>2
<1>10. Goes(st, kept \o more, Given([st EXCEPT !.buf = b, !.pos = @ + Len(more)], kept \o more), more)
    BY <1>4, <1>6, <1>9, GoesOn
<1>. QED  BY <1>3, <1>7, <1>8, <1>10 DEF Reads, Result

\* feof() gives nothing, and keeps what it has to ask for.
LEMMA FeofReads ==
    ASSUME NEW st \in Handle, Content(st) \in FileText
    PROVE  Reads(st, <<>>, feof(st).st)
<1> DEFINE more == DevRead(st, FeofChunk)
<1>0. st.buf \in FileText /\ <<>> \in FileText /\ FeofChunk \in Nat
    BY StreamsAssumption DEF Handle, FileText
<1>1. more \in FileText /\ more = DevRead(st, FeofChunk)
    BY <1>0, DevReads
<1>2. DevRead(st, 0) = <<>>
    <2>1. Len(DevRead(st, 0)) <= 0 /\ DevRead(st, 0) \in FileText
        BY DevReads
    <2>. QED  BY <2>1, TextLen DEF FileText
<1> DEFINE got == IF st.buf = <<>> THEN more ELSE <<>>
<1>3. feof(st).st = [st EXCEPT !.buf = st.buf \o got, !.pos = @ + Len(got)]
    BY DEF feof, Handle
<1>4. got \in FileText /\ \E n \in Nat : got = DevRead(st, n)
    BY <1>0, <1>1, <1>2
<1> HIDE DEF got
<1>5. st.buf \o got \in FileText
    BY <1>0, <1>4, TextLen
<1>6. <<>> \o (st.buf \o got) = st.buf \o got
    BY <1>5 DEF FileText
<1>7. Goes(st, <<>>, Given([st EXCEPT !.buf = st.buf \o got, !.pos = @ + Len(got)], <<>>), got)
    BY <1>0, <1>4, <1>5, <1>6, GoesOn
<1>8. Given(feof(st).st, <<>>) = feof(st).st
    <2>1. st.got \o <<>> = st.got
        BY DEF Handle, FileText
    <2>. QED  BY <1>3, <2>1 DEF Given, Handle
<1>. QED  BY <1>3, <1>4, <1>7, <1>8 DEF Reads

\* A set of naturals has a least element.
LEMMA MinIn ==
    ASSUME NEW S, S \subseteq Nat, S # {}
    PROVE  Min(S) \in S /\ \A y \in S : Min(S) <= y
<1>1. IsWellFoundedOn(OpToRel(<, Nat), Nat)
    BY NatLessThanWellFounded
<1>2. PICK m \in S : \A l \in S : ~(<<l, m>> \in OpToRel(<, Nat))
    BY <1>1, WFMin
<1>3. \A l \in S : l \in Nat /\ m \in Nat
    OBVIOUS
<1>4. \A l \in S : ~(l < m)
    BY <1>2, <1>3 DEF OpToRel
<1>5. \A l \in S : m <= l
    BY <1>3, <1>4
<1>. QED  BY <1>2, <1>3, <1>5 DEF Min

\* A line is a beginning of the text.
LEMMA GetLineText ==
    ASSUME NEW t \in FileText
    PROVE  LET n == Len(GetLine(t)) IN n \in Nat /\ n <= Len(t) /\ GetLine(t) = Upto(t, n)
<1> DEFINE ends == {i \in DOMAIN t : t[i] = "\n"}
<1>1. Len(t) \in Nat /\ DOMAIN t = 1 .. Len(t)
    BY DEF FileText
<1>2. CASE ends = {}
    <2>1. GetLine(t) = t
        BY <1>2 DEF GetLine
    <2>2. Upto(t, Len(t)) = t
        <3>1. Len(Upto(t, Len(t))) = Len(t) /\ Upto(t, Len(t)) \in FileText
              /\ \A i \in 1 .. Len(t) : Upto(t, Len(t))[i] = t[i]
            BY <1>1, UptoText
        <3>. QED  BY <1>1, <3>1, SeqEqual DEF FileText
    <2>. QED  BY <1>1, <2>1, <2>2
<1>3. CASE ends # {}
    <2>1. ends \subseteq Nat
        BY <1>1
    <2>2. Min(ends) \in ends
        BY <1>3, <2>1, MinIn
    <2> DEFINE m == Min(ends)
    <2>3. m \in Nat /\ m <= Len(t)
        BY <1>1, <2>2
    <2>4. GetLine(t) = SubSeq(t, 1, m)
        BY <1>3 DEF GetLine
    <2> HIDE DEF m, ends
    <2>5. SubSeq(t, 1, m) = Upto(t, m) /\ Len(Upto(t, m)) = m
        BY <2>3, CutInTwo, UptoText
    <2>. QED  BY <2>3, <2>4, <2>5
<1>. QED  BY <1>2, <1>3

\* A product is not smaller than its factor.
LEMMA TimesMore ==
    ASSUME NEW n \in Nat, NEW k \in Nat \ {0} PROVE n * k \in Nat /\ n <= n * k
OBVIOUS

\* More than there is gives no more.
LEMMA DevReadMost ==
    ASSUME NEW st \in Handle, Content(st) \in FileText, NEW n \in Nat, NEW m \in Nat,
           Len(Content(st)) <= n, Len(Content(st)) <= m
    PROVE  DevRead(st, n) = DevRead(st, m)
<1> DEFINE c == Content(st)  rest == Drop(c, st.pos)
<1>1. c \in FileText /\ Len(c) \in Nat /\ st.pos \in Nat
    BY TextLen DEF Handle
<1>2. CASE "read" \in st.flags /\ st.pos < Len(c)
    <2>1. Len(rest) = Len(c) - st.pos /\ rest \in FileText
        <3> DEFINE p == st.pos
        <3>1. p \in Nat /\ p <= Len(c)
            BY <1>1, <1>2
        <3> HIDE DEF c, p
        <3>2. Len(Drop(c, p)) = Len(c) - p /\ Drop(c, p) \in FileText
            BY <1>1, <3>1, DropText
        <3>. QED  BY <3>2 DEF p
    <2>2. Len(rest) \in Nat /\ Len(rest) <= n /\ Len(rest) <= m
        BY <1>1, <2>1
    <2>3. DevRead(st, n) = Upto(rest, n) /\ DevRead(st, m) = Upto(rest, m)
        BY <1>2 DEF DevRead
    <2> HIDE DEF rest, c
    <2>4. Upto(rest, n) = SubSeq(rest, 1, Len(rest)) /\ Upto(rest, m) = SubSeq(rest, 1, Len(rest))
        BY <2>2, MinOfTwo DEF Upto
    <2>. QED  BY <2>3, <2>4
<1>3. CASE ~("read" \in st.flags /\ st.pos < Len(c))
    BY <1>3 DEF DevRead
<1>. QED  BY <1>2, <1>3

\* A product of naturals.
LEMMA TimesNat == ASSUME NEW n \in Nat, NEW k \in Nat PROVE n * k \in Nat
OBVIOUS

\* What the line reader asks for at a time, what it has after asking for n characters,
\* when it stops, and the line it gives then.
ChunkOf(max) == IF max > 0 /\ max < LineChunk THEN max ELSE LineChunk
Filled(st, n) == st.buf \o DevRead(st, n)
Enough(st, max, k) ==
    \/ HasLine(Filled(st, k * ChunkOf(max)))
    \/ k > 0 /\ (max > 0 /\ Len(Filled(st, k * ChunkOf(max))) >= max)
    \/ k > 0 /\ DevRead(st, k * ChunkOf(max)) = DevRead(st, (k - 1) * ChunkOf(max))
LineOf(st, n) ==
    LET line == GetLine(Filled(st, n))
    IN  Result(line, Given([st EXCEPT !.buf = Drop(Filled(st, n), Len(line)),
                                      !.pos = @ + Len(DevRead(st, n))], line))

\* The line reader stops: after some reads of the device it has enough.
LEMMA LineStops ==
    ASSUME NEW st \in Handle, Content(st) \in FileText, Len(Content(st)) <= MaxFile, NEW max \in Int
    PROVE  /\ ChunkOf(max) \in Nat \ {0}
           /\ \E k \in Nat :
                 Enough(st, max, k) /\ StreamReadLine(st, max) = LineOf(st, k * ChunkOf(max))
<1> DEFINE chunk == ChunkOf(max)
           E == {k \in 0 .. MaxFile + 1 : Enough(st, max, k)}
<1>1. chunk \in Nat \ {0} /\ MaxFile \in Nat
    BY StreamsAssumption DEF ChunkOf
<1>2. MaxFile + 1 \in E
    <2> HIDE DEF chunk
    <2>1. /\ MaxFile * chunk \in Nat /\ MaxFile <= MaxFile * chunk
          /\ (MaxFile + 1) * chunk \in Nat /\ MaxFile + 1 <= (MaxFile + 1) * chunk
        BY <1>1, TimesMore
    <2>2. Len(Content(st)) \in Nat
        BY TextLen
    <2>3. Len(Content(st)) <= MaxFile * chunk /\ Len(Content(st)) <= (MaxFile + 1) * chunk
        BY <1>1, <2>1, <2>2
    <2>4. DevRead(st, (MaxFile + 1) * chunk) = DevRead(st, MaxFile * chunk)
        BY <2>1, <2>3, DevReadMost
    <2>5. Enough(st, max, MaxFile + 1)
        <3>1. MaxFile + 1 > 0 /\ (MaxFile + 1) - 1 = MaxFile
            BY <1>1
        <3>2. DevRead(st, (MaxFile + 1) * chunk) = DevRead(st, ((MaxFile + 1) - 1) * chunk)
            BY <2>4, <3>1
        <3>. QED  BY <3>1, <3>2 DEF Enough, chunk
    <2>6. MaxFile + 1 \in 0 .. MaxFile + 1
        BY <1>1
    <2>. QED  BY <2>5, <2>6
<1>3. Min(E) \in E /\ Min(E) \in Nat
    <2>1. E \subseteq Nat
        BY <1>1
    <2> HIDE DEF E
    <2>. QED  BY <1>2, <2>1, MinIn
<1>4. StreamReadLine(st, max) = LineOf(st, Min(E) * ChunkOf(max))
    BY DEF StreamReadLine, LineOf, Filled, Enough, ChunkOf, Handle
<1> HIDE DEF E
<1>5. Enough(st, max, Min(E))
    BY <1>3 DEF E
<1>. QED  BY <1>1, <1>3, <1>4, <1>5

\* The line reader gives a line of what it kept and one read of the device, and
\* keeps the rest.
LEMMA LineReads ==
    ASSUME NEW st \in Handle, Content(st) \in FileText, Len(Content(st)) <= MaxFile, NEW max \in Int
    PROVE  Reads(st, StreamReadLine(st, max).text, StreamReadLine(st, max).st)
<1>1. PICK n \in Nat : StreamReadLine(st, max) = LineOf(st, n)
    <2>1. PICK k \in Nat : StreamReadLine(st, max) = LineOf(st, k * ChunkOf(max))
        BY LineStops
    <2>2. k * ChunkOf(max) \in Nat
        BY LineStops, TimesNat
    <2>. QED  BY <2>1, <2>2
<1> DEFINE more == DevRead(st, n)  full == Filled(st, n)  line == GetLine(full)  k == Len(line)
<1>2. full = st.buf \o more /\ full \in FileText /\ more \in FileText
    <2>1. st.buf \in FileText /\ more \in FileText
        BY DevReads DEF Handle
    <2>. QED  BY <2>1, TextLen DEF Filled
<1>3. LineOf(st, n) = Result(line, Given([st EXCEPT !.buf = Drop(full, k), !.pos = @ + Len(more)], line))
    BY DEF LineOf
<1>4. more = DevRead(st, n)
    OBVIOUS
<1> HIDE DEF more, full
<1>5. k \in Nat /\ k <= Len(full) /\ line = Upto(full, k)
    BY <1>2, GetLineText
<1> HIDE DEF k
<1>6. Upto(full, k) \in FileText /\ Drop(full, k) \in FileText /\ Upto(full, k) \o Drop(full, k) = full
    BY <1>2, <1>5, CutInTwo
<1> HIDE DEF line
<1>7. Goes(st, line, Given([st EXCEPT !.buf = Drop(full, k), !.pos = @ + Len(more)], line), more)
    BY <1>2, <1>5, <1>6, GoesOn
<1>. QED  BY <1>1, <1>3, <1>4, <1>7 DEF Reads, Result

-----------------------------------------------------------------------------
(* What is unread.                                                           *)

\* Two texts, one behind the other.
LEMMA JoinText ==
    ASSUME NEW x \in FileText, NEW y \in FileText
    PROVE  /\ x \o y \in FileText /\ Len(x \o y) = Len(x) + Len(y)
           /\ \A i \in 1 .. Len(x) + Len(y) : (x \o y)[i] = IF i <= Len(x) THEN x[i] ELSE y[i - Len(x)]
BY DEF FileText

\* What is at p and behind it.
Beyond(c, p) == IF p < Len(c) THEN Drop(c, p) ELSE <<>>

\* The rest of a text.
LEMMA RestText ==
    ASSUME NEW c \in FileText, NEW p \in Nat
    PROVE  /\ Beyond(c, p) \in FileText
           /\ Len(Beyond(c, p)) = IF p < Len(c) THEN Len(c) - p ELSE 0
           /\ \A i \in 1 .. Len(Beyond(c, p)) : Beyond(c, p)[i] = c[p + i]
<1>0. Len(c) \in Nat
    BY TextLen
<1>1. CASE p < Len(c)
    <2>1. Beyond(c, p) = Drop(c, p) /\ p <= Len(c)
        BY <1>0, <1>1 DEF Beyond
    <2>. QED  BY <1>1, <2>1, DropText
<1>2. CASE ~(p < Len(c))
    <2>1. Beyond(c, p) = <<>>
        BY <1>2 DEF Beyond
    <2>. QED  BY <1>2, <2>1 DEF FileText
<1>. QED  BY <1>1, <1>2

\* What is taken from the rest, and what is behind it, are the rest.
LEMMA RestGrows ==
    ASSUME NEW c \in FileText, NEW p \in Nat, NEW n \in Nat,
           NEW more, more = Upto(Beyond(c, p), n)
    PROVE  more \o Beyond(c, p + Len(more)) = Beyond(c, p)
<1> DEFINE t == Beyond(c, p)  k == Len(more)
<1>1. /\ t \in FileText /\ Len(c) \in Nat /\ Len(t) = IF p < Len(c) THEN Len(c) - p ELSE 0
      /\ \A i \in 1 .. Len(t) : t[i] = c[p + i]
    BY RestText, TextLen
<1>2. k \in Nat /\ k <= Len(t) /\ Upto(t, k) = more
    <2>1. t \in FileText /\ more = Upto(t, n)
        BY <1>1
    <2> HIDE DEF t
    <2>. QED  BY <2>1, UptoTwice
<1>3. Upto(t, k) \o Drop(t, k) = t /\ Drop(t, k) \in FileText /\ Len(Drop(t, k)) = Len(t) - k
      /\ \A i \in 1 .. Len(t) - k : Drop(t, k)[i] = t[k + i]
    <2> HIDE DEF t, k
    <2>. QED  BY <1>1, <1>2, CutInTwo, DropText
<1> DEFINE u == Beyond(c, p + k)
<1>4. /\ u \in FileText /\ Len(u) = IF p + k < Len(c) THEN Len(c) - (p + k) ELSE 0
      /\ \A i \in 1 .. Len(u) : u[i] = c[p + k + i]
    <2>1. p + k \in Nat
        BY <1>2
    <2>. QED  BY <2>1, RestText
<1> DEFINE d == Drop(t, k)
<1> HIDE DEF t, k, u, d
<1>5. Len(d) = Len(u)
    BY <1>1, <1>2, <1>3, <1>4 DEF d
<1>6. \A i \in 1 .. Len(d) : d[i] = u[i]
    <2> SUFFICES ASSUME NEW i \in 1 .. Len(d) PROVE d[i] = u[i]
        OBVIOUS
    <2>1. i \in 1 .. Len(t) - k /\ k + i \in 1 .. Len(t) /\ i \in 1 .. Len(u) /\ p + (k + i) = p + k + i
        BY <1>1, <1>2, <1>3, <1>5 DEF d
    <2>. QED  BY <2>1, <1>1, <1>3, <1>4 DEF d
<1>7. d = u
    BY <1>3, <1>4, <1>5, <1>6, SeqEqual DEF d, FileText
<1>. QED  BY <1>2, <1>3, <1>7 DEF d, u, k, t

\* The device of a handle for reading gives the beginning of the rest.
LEMMA DevGives ==
    ASSUME NEW st, "read" \in st.flags, NEW n \in Nat
    PROVE  DevRead(st, n) = Upto(Beyond(Content(st), st.pos), n)
<1>1. Upto(<<>>, n) = <<>>
    <2>1. <<>> \in FileText /\ Len(<<>>) = 0
        BY DEF FileText
    <2>2. Len(Upto(<<>>, n)) = 0 /\ Upto(<<>>, n) \in FileText
        BY <2>1, UptoText
    <2>. QED  BY <2>2 DEF FileText
<1>. QED  BY <1>1 DEF DevRead, Beyond

\* A beginning of two texts, one behind the other.
LEMMA UptoJoin ==
    ASSUME NEW x \in FileText, NEW y \in FileText, NEW n \in Nat
    PROVE  Upto(x, n) \o Upto(y, n - Len(Upto(x, n))) = Upto(x \o y, n)
<1> DEFINE a == Upto(x, n)  m == n - Len(a)  b == Upto(y, m)  z == x \o y  w == Upto(z, n)
<1>1. /\ Len(x) \in Nat /\ Len(y) \in Nat /\ z \in FileText /\ Len(z) = Len(x) + Len(y)
      /\ \A i \in 1 .. Len(z) : z[i] = IF i <= Len(x) THEN x[i] ELSE y[i - Len(x)]
    BY DEF FileText
<1>2. a \in FileText /\ Len(a) = (IF n <= Len(x) THEN n ELSE Len(x)) /\ \A i \in 1 .. Len(a) : a[i] = x[i]
    BY UptoText
<1>3. m \in Nat /\ Len(a) \in Nat
    BY <1>1, <1>2
<1>4. b \in FileText /\ Len(b) = (IF m <= Len(y) THEN m ELSE Len(y)) /\ \A i \in 1 .. Len(b) : b[i] = y[i]
    <2> HIDE DEF m
    <2>. QED  BY <1>3, UptoText
<1> HIDE DEF z
<1>5. w \in FileText /\ Len(w) = (IF n <= Len(z) THEN n ELSE Len(z)) /\ \A i \in 1 .. Len(w) : w[i] = z[i]
    BY <1>1, UptoText
<1>6. m = n - Len(a)
    OBVIOUS
<1> HIDE DEF a, b, w, m
<1>7. /\ a \o b \in FileText /\ Len(a \o b) = Len(a) + Len(b)
      /\ \A i \in 1 .. Len(a) + Len(b) : (a \o b)[i] = IF i <= Len(a) THEN a[i] ELSE b[i - Len(a)]
    BY <1>2, <1>4, JoinText, ZenonT(60)
<1>8. Len(a \o b) = Len(w) /\ Len(a) + Len(b) = Len(w)
    <2> DEFINE la == Len(a)  lb == Len(b)  lx == Len(x)  ly == Len(y)  lw == Len(w)  lz == Len(z)
    <2>1. /\ lx \in Nat /\ ly \in Nat /\ lz = lx + ly /\ m = n - la /\ m \in Nat
          /\ la = (IF n <= lx THEN n ELSE lx) /\ lb = (IF m <= ly THEN m ELSE ly)
          /\ lw = IF n <= lz THEN n ELSE lz
        BY <1>1, <1>2, <1>3, <1>4, <1>5, <1>6
    <2> HIDE DEF la, lb, lx, ly, lw, lz
    <2>2. la + lb = lw
        BY <2>1
    <2>. QED  BY <1>7, <2>2 DEF la, lb, lw
<1>9. \A i \in 1 .. Len(w) : (a \o b)[i] = w[i]
    <2> SUFFICES ASSUME NEW i \in 1 .. Len(w) PROVE (a \o b)[i] = w[i]
        OBVIOUS
    <2>1. Len(w) \in Nat /\ Len(b) \in Nat /\ i \in 1 .. Len(z) /\ w[i] = z[i]
        BY <1>1, <1>4, <1>5, TextLen
    <2>2. CASE i <= Len(a)
        <3>1. i \in 1 .. Len(a) /\ i <= Len(x)
            BY <1>1, <1>2, <1>3, <2>1, <2>2
        <3>2. (a \o b)[i] = a[i] /\ a[i] = x[i]
            BY <1>2, <1>7, <1>8, <2>2, <3>1
        <3>. QED  BY <1>1, <2>1, <3>1, <3>2
    <2>3. CASE ~(i <= Len(a))
        <3>1. Len(a) = Len(x) /\ ~(i <= Len(x)) /\ i - Len(a) \in 1 .. Len(b)
            BY <1>1, <1>2, <1>3, <1>5, <1>8, <2>1, <2>3
        <3>2. (a \o b)[i] = b[i - Len(a)] /\ b[i - Len(a)] = y[i - Len(a)]
            BY <1>4, <1>7, <1>8, <2>3, <3>1
        <3>. QED  BY <1>1, <2>1, <3>1, <3>2
    <2>. QED  BY <2>2, <2>3
<1>10. a \o b = w
    BY <1>5, <1>7, <1>8, <1>9, SeqEqual DEF FileText
<1>. QED  BY <1>10 DEF a, b, w, m, z

\* A text that is shorter than another and has the same characters is a prefix of it.
LEMMA PrefixOf ==
    ASSUME NEW t \in FileText, NEW g \in FileText, Len(t) <= Len(g), \A i \in 1 .. Len(t) : t[i] = g[i]
    PROVE  IsPrefix(t, g)
<1> DEFINE k == Len(t)
<1>1. k \in Nat /\ k <= Len(t) /\ k <= Len(g)
    BY TextLen
<1>5. k = Len(t)
    OBVIOUS
<1> HIDE DEF k
<1>2. SubSeq(t, 1, k) = Upto(t, k) /\ SubSeq(g, 1, k) = Upto(g, k)
    BY <1>1, CutInTwo
<1>3. /\ Upto(t, k) \in FileText /\ Len(Upto(t, k)) = k /\ \A i \in 1 .. k : Upto(t, k)[i] = t[i]
      /\ Upto(g, k) \in FileText /\ Len(Upto(g, k)) = k /\ \A i \in 1 .. k : Upto(g, k)[i] = g[i]
    BY <1>1, UptoText
<1>4. Upto(t, k) = Upto(g, k)
    BY <1>3, <1>5, SeqEqual DEF FileText
<1>. QED  BY <1>2, <1>4, <1>5 DEF IsPrefix

\* The first line of a beginning of a text is the text's, or begins like it.
LEMMA LineOfBeginning ==
    ASSUME NEW r \in FileText, NEW n \in Nat, NEW t, t = Upto(r, n)
    PROVE  /\ t \in FileText
           /\ HasLine(t) => GetLine(t) = GetLine(r)
           /\ ~HasLine(t) => GetLine(t) = t /\ IsPrefix(t, GetLine(r))
<1>1. /\ t \in FileText /\ Len(t) = (IF n <= Len(r) THEN n ELSE Len(r))
      /\ \A i \in 1 .. Len(t) : t[i] = r[i]
    BY UptoText
<1>2. /\ Len(t) \in Nat /\ Len(r) \in Nat /\ Len(t) <= Len(r)
      /\ DOMAIN t = 1 .. Len(t) /\ DOMAIN r = 1 .. Len(r)
    BY <1>1, TextLen DEF FileText
<1> DEFINE E == {i \in DOMAIN t : t[i] = "\n"}  F == {i \in DOMAIN r : r[i] = "\n"}
<1>3. E \subseteq F /\ E \subseteq Nat /\ F \subseteq Nat /\ \A i \in F : i <= Len(t) => i \in E
    <2>1. \A i \in 1 .. Len(r) : i <= Len(t) => i \in 1 .. Len(t)
        BY <1>2
    <2>2. \A i \in 1 .. Len(t) : i \in 1 .. Len(r)
        BY <1>2
    <2>. QED  BY <1>1, <1>2, <2>1, <2>2
<1>4. HasLine(t) <=> E # {}
    BY DEF HasLine, Range
<1>5. GetLine(t) = (IF E = {} THEN t ELSE SubSeq(t, 1, Min(E))) /\ GetLine(r) = IF F = {} THEN r ELSE SubSeq(r, 1, Min(F))
    BY DEF GetLine
<1>6. ASSUME E # {} PROVE GetLine(t) = GetLine(r)
    <2> DEFINE m == Min(E)  l == Min(F)
    <2>1. m \in E /\ (\A y \in E : m <= y) /\ l \in F /\ \A y \in F : l <= y
        <3> HIDE DEF E, F
        <3>. QED  BY <1>3, <1>6, MinIn
    <2>7. m \in 1 .. Len(t)
        BY <2>1, <1>2
    <2> HIDE DEF m, l, E, F
    <2>2. m \in Nat /\ l \in Nat /\ m <= Len(t)
        BY <2>1, <2>7, <1>2, <1>3
    <2>3. l = m
        BY <1>2, <1>3, <2>1, <2>2
    <2>4. m <= Len(r)
        BY <1>2, <2>2
    <2>5. SubSeq(t, 1, m) = Upto(t, m) /\ SubSeq(r, 1, m) = Upto(r, m)
        BY <1>1, <2>2, <2>4, CutInTwo
    <2>6. /\ Upto(t, m) \in FileText /\ Len(Upto(t, m)) = m /\ \A i \in 1 .. m : Upto(t, m)[i] = t[i]
          /\ Upto(r, m) \in FileText /\ Len(Upto(r, m)) = m /\ \A i \in 1 .. m : Upto(r, m)[i] = r[i]
        BY <1>1, <2>2, <2>4, UptoText
    <2>8. \A i \in 1 .. m : t[i] = r[i]
        BY <1>1, <1>2, <2>2
    <2>9. Upto(t, m) = Upto(r, m)
        BY <2>6, <2>8, SeqEqual DEF FileText
    <2>. QED  BY <1>3, <1>5, <1>6, <2>3, <2>5, <2>9 DEF m, l
<1>7. ASSUME E = {} PROVE GetLine(t) = t /\ IsPrefix(t, GetLine(r))
    <2> HIDE DEF E
    <2>1. CASE F = {}
        BY <1>1, <1>2, <1>5, <1>7, <2>1, PrefixOf
    <2>2. CASE F # {}
        <3> DEFINE l == Min(F)
        <3>1. l \in F
            <4> HIDE DEF F
            <4>. QED  BY <1>3, <2>2, MinIn
        <3>2. l \in 1 .. Len(r)
            BY <3>1, <1>2
        <3>4. ~(l <= Len(t))
            BY <1>3, <1>7, <3>1
        <3>3. l \in Nat /\ l <= Len(r) /\ Len(t) <= l
            <4> HIDE DEF l
            <4>. QED  BY <1>2, <3>2, <3>4
        <3> HIDE DEF l, F
        <3>5. SubSeq(r, 1, l) = Upto(r, l) /\ Upto(r, l) \in FileText /\ Len(Upto(r, l)) = l
              /\ \A i \in 1 .. l : Upto(r, l)[i] = r[i]
            BY <3>3, CutInTwo, UptoText
        <3>6. \A i \in 1 .. Len(t) : t[i] = Upto(r, l)[i]
            BY <1>1, <1>2, <3>3, <3>5
        <3>7. IsPrefix(t, Upto(r, l))
            BY <1>1, <3>3, <3>5, <3>6, PrefixOf
        <3>. QED  BY <1>5, <1>7, <2>2, <3>5, <3>7 DEF l
    <2>. QED  BY <2>1, <2>2
<1>. QED  BY <1>1, <1>4, <1>6, <1>7

\* What is still unread is what is kept and what is behind the device.
LEMMA UnreadIs ==
    ASSUME NEW st PROVE Unread(st) = st.buf \o Beyond(Content(st), st.pos)
BY DEF Unread, Beyond

\* They are texts.
LEMMA UnreadText ==
    ASSUME NEW st \in Handle, Content(st) \in FileText
    PROVE  /\ Unread(st) \in FileText /\ st.buf \in FileText
           /\ Beyond(Content(st), st.pos) \in FileText
<1>1. st.buf \in FileText /\ st.pos \in Nat
    BY DEF Handle
<1>2. Beyond(Content(st), st.pos) \in FileText
    BY <1>1, RestText
<1>. QED  BY <1>1, <1>2, UnreadIs, TextLen

\* A text, and the beginning of another behind it.
LEMMA UptoBehind ==
    ASSUME NEW b \in FileText, NEW t \in FileText, NEW n \in Nat
    PROVE  b \o Upto(t, n) = Upto(b \o t, Len(b) + n)
<1> DEFINE l == Len(b)
<1>2. l \in Nat /\ l = Len(b)
    BY TextLen
<1> HIDE DEF l
<1>3. Len(Upto(b, l + n)) = l /\ Upto(b, l + n) = b
    <2>1. l + n \in Nat /\ (l + n <= l => l + n = l)
        BY <1>2
    <2>2. /\ Upto(b, l + n) \in FileText
          /\ Len(Upto(b, l + n)) = IF l + n <= l THEN l + n ELSE l
          /\ \A i \in 1 .. Len(Upto(b, l + n)) : Upto(b, l + n)[i] = b[i]
        BY <1>2, <2>1, UptoText
    <2>3. Len(Upto(b, l + n)) = l
        BY <2>1, <2>2
    <2>. QED  BY <1>2, <2>2, <2>3, SeqEqual DEF FileText
<1>4. l + n \in Nat /\ (l + n) - l = n
    BY <1>2
<1>5. Upto(b, l + n) \o Upto(t, (l + n) - Len(Upto(b, l + n))) = Upto(b \o t, l + n)
    BY <1>4, UptoJoin
<1>. QED  BY <1>2, <1>3, <1>4, <1>5

\* What is kept and then n characters of the device.
LEMMA KeptAndRead ==
    ASSUME NEW st \in Handle, Content(st) \in FileText, "read" \in st.flags, NEW n \in Nat
    PROVE  st.buf \o DevRead(st, n) = Upto(Unread(st), Len(st.buf) + n)
<1> DEFINE b == st.buf  t == Beyond(Content(st), st.pos)
<1>1. b \in FileText /\ t \in FileText /\ Unread(st) = b \o t /\ DevRead(st, n) = Upto(t, n)
    BY UnreadText, UnreadIs, DevGives
<1> HIDE DEF b, t
<1>2. b \o Upto(t, n) = Upto(b \o t, Len(b) + n)
    BY <1>1, UptoBehind
<1>. QED  BY <1>1, <1>2 DEF b

\* fread and fgetc give the beginning of what is unread.
LEMMA ReadsUnread ==
    ASSUME NEW st \in Handle, Content(st) \in FileText, "read" \in st.flags, NEW n \in Nat
    PROVE  StreamRead(st, n).text = Upto(Unread(st), n)
<1> DEFINE b == st.buf  t == Beyond(Content(st), st.pos)  m == n - Len(Upto(b, n))
<1>1. b \in FileText /\ t \in FileText /\ Unread(st) = b \o t
    BY UnreadText, UnreadIs
<1>2. m \in Nat
    <2> DEFINE x == Len(Upto(b, n))
    <2>1. x = IF n <= Len(b) THEN n ELSE Len(b)
        BY <1>1, UptoText
    <2>2. Len(b) \in Nat
        BY <1>1, TextLen
    <2> HIDE DEF x, b
    <2>3. n - x \in Nat
        BY <2>1, <2>2
    <2>. QED  BY <2>3 DEF x, b
<1>3. DevRead(st, m) = Upto(t, m)
    BY <1>2, DevGives
<1>4. StreamRead(st, n).text = Upto(b, n) \o DevRead(st, m)
    BY DEF StreamRead, Result
<1>5. Upto(b, n) \o Upto(t, m) = Upto(b \o t, n)
    <2> HIDE DEF b, t
    <2>. QED  BY <1>1, UptoJoin
<1>. QED  BY <1>1, <1>3, <1>4, <1>5

\* feof leaves what is unread as it is, and reports the end when it is nothing.
LEMMA FeofUnread ==
    ASSUME NEW st \in Handle, Content(st) \in FileText, "read" \in st.flags
    PROVE  /\ feof(st).eof <=> Unread(st) = <<>>
           /\ feof(st).st \in Handle /\ Content(feof(st).st) = Content(st)
           /\ "read" \in feof(st).st.flags /\ Unread(feof(st).st) = Unread(st)
<1> DEFINE c == Content(st)  p == st.pos  b == st.buf  t == Beyond(c, p)
           dev == DevRead(st, FeofChunk)
           more == IF b = <<>> THEN dev ELSE <<>>  out == feof(st).st
<1>0. FeofChunk \in Nat \ {0}
    BY StreamsAssumption
<1>1. /\ c \in FileText /\ p \in Nat /\ b \in FileText /\ t \in FileText /\ Unread(st) = b \o t
      /\ dev = Upto(t, FeofChunk)
    BY <1>0, UnreadText, UnreadIs, DevGives DEF Handle
<1>2. \A x \in FileText : x \o <<>> = x /\ <<>> \o x = x /\ (x = <<>> <=> Len(x) = 0) /\ Len(x) \in Nat
    BY DEF FileText
<1>3. /\ out.buf = b \o more /\ out.pos = p + Len(more) /\ out.flags = st.flags
      /\ feof(st).eof = (b = <<>> /\ more = <<>>)
    BY DEF feof, Handle
<1>4. out \in Handle /\ out.path = st.path
    BY FeofReads DEF Reads, Goes
<1>5. Content(out) = c
    BY <1>4 DEF Content
<1>6. Unread(out) = (b \o more) \o Beyond(c, p + Len(more))
    BY <1>3, <1>5, UnreadIs
<1>7. CASE b = <<>>
    <2>1. dev \in FileText /\ dev \o Beyond(c, p + Len(dev)) = t /\ (dev = <<>> <=> t = <<>>)
        <3>1. dev \o Beyond(c, p + Len(dev)) = t
            BY <1>0, <1>1, RestGrows
        <3> HIDE DEF dev, t
        <3>2. dev \in FileText /\ Len(dev) = IF FeofChunk <= Len(t) THEN FeofChunk ELSE Len(t)
            BY <1>0, <1>1, UptoText
        <3>3. Len(dev) = 0 <=> Len(t) = 0
            BY <1>0, <1>1, <1>2, <3>2
        <3>. QED  BY <1>1, <1>2, <3>1, <3>2, <3>3
    <2>2. more = dev
        BY <1>7
    <2>3. b \o more = more /\ b \o t = t
        BY <1>1, <1>2, <1>7, <2>1, <2>2
    <2>. QED  BY <1>1, <1>3, <1>4, <1>5, <1>6, <1>7, <2>1, <2>2, <2>3
<1>8. CASE b # <<>>
    <2>0. more = <<>> /\ Len(<<>>) = 0
        BY <1>8
    <2>1. more = <<>> /\ p + Len(more) = p
        <3> HIDE DEF more, p
        <3>. QED  BY <1>1, <2>0
    <2>2. b \o more = b
        BY <1>1, <1>2, <2>1
    <2>3. Unread(st) # <<>>
        <3>1. Len(b) # 0 /\ Len(b) \in Nat /\ Len(t) \in Nat /\ Len(b \o t) = Len(b) + Len(t) /\ b \o t \in FileText
            BY <1>1, <1>2, <1>8, TextLen
        <3> DEFINE l == Len(b)  k == Len(t)
        <3>2. l + k # 0
            <4>1. l \in Nat /\ k \in Nat /\ l # 0
                BY <3>1
            <4> HIDE DEF l, k
            <4>. QED  BY <4>1
        <3>. QED  BY <1>1, <1>2, <3>1, <3>2
    <2>. QED  BY <1>1, <1>3, <1>4, <1>5, <1>6, <1>8, <2>1, <2>2, <2>3
<1>. QED  BY <1>7, <1>8

\* What has been read is all that is unread, once reading on gives nothing more.
LEMMA NoMore ==
    ASSUME NEW t \in FileText, NEW n \in Nat, NEW d \in Nat \ {0}, Upto(t, n + d) = Upto(t, n)
    PROVE  Upto(t, n + d) = t
<1>1. n + d \in Nat /\ Len(t) \in Nat
    BY TextLen
<1>2. /\ Len(Upto(t, n)) = IF n <= Len(t) THEN n ELSE Len(t)
      /\ Len(Upto(t, n + d)) = IF n + d <= Len(t) THEN n + d ELSE Len(t)
      /\ Upto(t, n + d) \in FileText
      /\ \A i \in 1 .. Len(Upto(t, n + d)) : Upto(t, n + d)[i] = t[i]
    BY <1>1, UptoText
<1>3. Len(Upto(t, n + d)) = Len(t)
    <2> DEFINE x == Len(Upto(t, n))  y == Len(Upto(t, n + d))  l == Len(t)
    <2>1. /\ x = (IF n <= l THEN n ELSE l) /\ y = (IF n + d <= l THEN n + d ELSE l) /\ x = y /\ l \in Nat
        BY <1>1, <1>2
    <2> HIDE DEF x, y, l
    <2>2. y = l
        BY <2>1
    <2>. QED  BY <2>2 DEF y, l
<1>. QED  BY <1>2, <1>3, SeqEqual DEF FileText

\* The line reader gives the first line of a beginning of what is unread, which has
\* a line, or as much as was asked for, or is all that is unread.
LEMMA LineUnread ==
    ASSUME NEW st \in Handle, Content(st) \in FileText, Len(Content(st)) <= MaxFile,
           "read" \in st.flags, NEW max \in Int
    PROVE  \E n \in Nat :
              LET t == Upto(Unread(st), n)
              IN  /\ StreamReadLine(st, max).text = GetLine(t)
                  /\ HasLine(t) \/ (max > 0 /\ Len(t) >= max) \/ t = Unread(st)
<1> DEFINE chunk == ChunkOf(max)  u == Unread(st)  b == st.buf
           r == Beyond(Content(st), st.pos)
<1>1. chunk \in Nat \ {0}
    BY LineStops
<1>2. PICK k \in Nat : Enough(st, max, k) /\ StreamReadLine(st, max) = LineOf(st, k * chunk)
    BY LineStops
<1> HIDE DEF chunk
<1>3. k * chunk \in Nat /\ Len(b) \in Nat /\ b \in FileText /\ r \in FileText /\ u = b \o r
    BY <1>1, TimesNat, UnreadText, UnreadIs, TextLen
<1> DEFINE n == Len(b) + k * chunk  t == Upto(u, n)
<1>4. n \in Nat
    BY <1>3
<1>5. Filled(st, k * chunk) = t
    BY <1>3, KeptAndRead DEF Filled
<1>6. StreamReadLine(st, max).text = GetLine(t)
    BY <1>2, <1>5 DEF LineOf, Result
<1>7. ASSUME k > 0, DevRead(st, k * chunk) = DevRead(st, (k - 1) * chunk) PROVE t = u
    <2> DEFINE m == (k - 1) * chunk
    <2>1. m \in Nat /\ k * chunk = m + chunk
        <3>1. k - 1 \in Nat
            BY <1>7
        <3>. QED  BY <1>1, <3>1, TimesNat
    <2>2. DevRead(st, m) = Upto(r, m) /\ DevRead(st, k * chunk) = Upto(r, k * chunk)
        BY <1>3, <2>1, DevGives
    <2> HIDE DEF m, r
    <2>3. Upto(r, k * chunk) = r
        <3>1. Upto(r, m + chunk) = Upto(r, m)
            BY <1>7, <2>1, <2>2 DEF m
        <3>. QED  BY <1>1, <1>3, <2>1, <3>1, NoMore
    <2>. QED  BY <1>3, <1>5, <2>2, <2>3 DEF Filled
<1>8. HasLine(t) \/ (max > 0 /\ Len(t) >= max) \/ t = u
    BY <1>2, <1>5, <1>7 DEF Enough, chunk
<1>. QED  BY <1>4, <1>6, <1>8

\* Each of the ways to read begins at the first character that is unread.
LEMMA HandleSees ==
    ASSUME NEW st \in Handle, Content(st) \in FileText, Len(Content(st)) <= MaxFile,
           "read" \in st.flags, NEW rest, rest = Unread(st)
    PROVE  /\ feof(st).eof <=> rest = <<>>
           /\ fgetc(st).text = Upto(rest, 1)
           /\ fgets(st, -1).text = GetLine(rest)
           /\ \A n \in 1 .. MaxFile :
                 /\ fread(feof(st).st, n).text = Upto(rest, n)
                 /\ LET line == fgets(st, n).text
                    IN  IsPrefix(line, GetLine(rest)) /\ (Len(line) >= n \/ line = GetLine(rest))
<1>1. rest \in FileText
    BY UnreadText
<1>2. feof(st).eof <=> rest = <<>>
    BY FeofUnread
<1>3. fgetc(st).text = Upto(rest, 1)
    BY ReadsUnread DEF fgetc
<1>4. fgets(st, -1).text = GetLine(rest)
    <2>1. PICK n \in Nat :
              LET t == Upto(rest, n)
              IN  /\ StreamReadLine(st, -1).text = GetLine(t)
                  /\ HasLine(t) \/ (-1 > 0 /\ Len(t) >= -1) \/ t = rest
        BY LineUnread
    <2>2. HasLine(Upto(rest, n)) => GetLine(Upto(rest, n)) = GetLine(rest)
        BY <1>1, LineOfBeginning
    <2>. QED  BY <2>1, <2>2 DEF fgets
<1>5. ASSUME NEW n \in 1 .. MaxFile PROVE fread(feof(st).st, n).text = Upto(rest, n)
    <2>1. n \in Nat /\ ~(n < 1)
        BY <1>5
    <2>2. StreamRead(feof(st).st, n).text = Upto(rest, n)
        BY <2>1, FeofUnread, ReadsUnread
    <2>. QED  BY <2>1, <2>2 DEF fread
<1>6. ASSUME NEW n \in 1 .. MaxFile, NEW line, line = fgets(st, n).text
      PROVE  IsPrefix(line, GetLine(rest)) /\ (Len(line) >= n \/ line = GetLine(rest))
    <2>0. n \in Int
        OBVIOUS
    <2>1. PICK k \in Nat :
              LET t == Upto(rest, k)
              IN  /\ StreamReadLine(st, n).text = GetLine(t)
                  /\ HasLine(t) \/ (n > 0 /\ Len(t) >= n) \/ t = rest
        BY <2>0, LineUnread
    <2> DEFINE t == Upto(rest, k)
    <2>2. /\ HasLine(t) => GetLine(t) = GetLine(rest)
          /\ ~HasLine(t) => GetLine(t) = t /\ IsPrefix(t, GetLine(rest))
        BY <1>1, LineOfBeginning
    <2>3. line = GetLine(t)
        BY <1>6, <2>1 DEF fgets
    <2>4. IsPrefix(GetLine(rest), GetLine(rest))
        <3>1. GetLine(rest) \in FileText
            BY <1>1, GetLineText, UptoText
        <3>2. Len(GetLine(rest)) <= Len(GetLine(rest))
            BY <3>1, TextLen
        <3>. QED  BY <3>1, <3>2, PrefixOf
    <2>. QED  BY <2>1, <2>2, <2>3, <2>4
<1>. QED  BY <1>2, <1>3, <1>4, <1>5, <1>6

-----------------------------------------------------------------------------
(* What is written.                                                          *)

\* What holds of 1, and of i + 1 if of i, holds up to n.
LEMMA FromOneTo ==
    ASSUME NEW n \in Nat \ {0}, NEW T, 1 \in T, \A i \in 1 .. n - 1 : i \in T => i + 1 \in T
    PROVE  \A i \in 1 .. n : i \in T
<1> DEFINE B == {i \in 1 .. n : i \notin T}
<1>1. ASSUME B # {} PROVE FALSE
    <2>1. B \subseteq Nat
        OBVIOUS
    <2> DEFINE m == Min(B)
    <2>2. m \in B /\ \A y \in B : m <= y
        <3> HIDE DEF B
        <3>. QED  BY <1>1, <2>1, MinIn
    <2> HIDE DEF m
    <2>3. m \in 2 .. n
        BY <2>2
    <2>4. m - 1 \in 1 .. n - 1 /\ ~(m <= m - 1) /\ m - 1 + 1 = m /\ m - 1 \in 1 .. n
        BY <2>3
    <2>5. m - 1 \in T
        BY <2>2, <2>4
    <2>. QED  BY <2>2, <2>4, <2>5
<1>. QED  BY <1>1

\* Texts one behind the other: each one is put behind those before it.
LEMMA FlattenEach ==
    ASSUME NEW s \in Seq(FileText), Len(s) # 0
    PROVE  \E f : /\ FlattenSeq(s) = f[Len(s)]
                  /\ \A i \in 1 .. Len(s) : f[i] = IF i = 1 THEN s[i] ELSE f[i - 1] \o s[i]
<1>0. Len(s) \in Nat /\ s \in [1 .. Len(s) -> FileText]
    OBVIOUS
<1> DEFINE n == Len(s)
           F(m) == {f \in [1 .. m -> FileText] :
                       \A i \in 1 .. m : f[i] = IF i = 1 THEN s[i] ELSE f[i - 1] \o s[i]}
           T == {m \in 1 .. n : F(m) # {}}
<1>1. n \in Nat \ {0}
    BY <1>0
<1>2. 1 \in T
    <2>1. s[1] \in FileText
        BY <1>0, <1>1
    <2>2. [i \in 1 .. 1 |-> s[1]] \in F(1)
        BY <2>1
    <2>. QED  BY <1>1, <2>2
<1>3. \A m \in 1 .. n - 1 : m \in T => m + 1 \in T
    <2> SUFFICES ASSUME NEW m \in 1 .. n - 1, m \in T PROVE m + 1 \in T
        OBVIOUS
    <2>1. PICK f \in [1 .. m -> FileText] :
              \A i \in 1 .. m : f[i] = IF i = 1 THEN s[i] ELSE f[i - 1] \o s[i]
        OBVIOUS
    <2> DEFINE g == [i \in 1 .. m + 1 |-> IF i <= m THEN f[i] ELSE f[m] \o s[m + 1]]
    <2>2. m \in Nat /\ m \in 1 .. m /\ m + 1 \in 1 .. n /\ m + 1 # 1
        BY <1>1
    <2>3. f[m] \o s[m + 1] \in FileText
        BY <1>0, <2>2, TextLen
    <2>4. g \in [1 .. m + 1 -> FileText]
        BY <2>2, <2>3
    <2>5. \A i \in 1 .. m + 1 : g[i] = IF i = 1 THEN s[i] ELSE g[i - 1] \o s[i]
        <3> SUFFICES ASSUME NEW i \in 1 .. m + 1
                     PROVE  g[i] = IF i = 1 THEN s[i] ELSE g[i - 1] \o s[i]
            OBVIOUS
        <3>1. CASE i <= m
            <4>1. i \in 1 .. m /\ g[i] = f[i] /\ (i # 1 => g[i - 1] = f[i - 1])
                BY <2>2, <3>1
            <4>. QED  BY <2>1, <4>1
        <3>2. CASE ~(i <= m)
            <4>1. i = m + 1 /\ i - 1 = m /\ i # 1 /\ m <= m
                BY <2>2, <3>2
            <4>2. g[m + 1] = f[m] \o s[m + 1] /\ g[m] = f[m]
                BY <2>2
            <4> HIDE DEF g
            <4>. QED  BY <4>1, <4>2
        <3>. QED  BY <3>1, <3>2
    <2>6. g \in F(m + 1)
        BY <2>4, <2>5
    <2> HIDE DEF F, g
    <2>. QED  BY <2>2, <2>6
<1>4. n \in T
    <2> HIDE DEF T, n
    <2>1. \A i \in 1 .. n : i \in T
        BY <1>1, <1>2, <1>3, FromOneTo
    <2>. QED  BY <1>1, <2>1
<1> DEFINE flatten == CHOOSE f : f = [i \in 1 .. Len(s) |-> IF i = 1 THEN s[i] ELSE f[i - 1] \o s[i]]
<1>5. flatten = [i \in 1 .. n |-> IF i = 1 THEN s[i] ELSE flatten[i - 1] \o s[i]]
    <2>1. PICK f \in [1 .. n -> FileText] :
              \A i \in 1 .. n : f[i] = IF i = 1 THEN s[i] ELSE f[i - 1] \o s[i]
        BY <1>4
    <2>2. f = [i \in 1 .. Len(s) |-> IF i = 1 THEN s[i] ELSE f[i - 1] \o s[i]]
        BY <2>1
    <2>. QED  BY <2>2
<1>6. FlattenSeq(s) = flatten[n]
    BY DEF FlattenSeq
<1> HIDE DEF flatten
<1>7. \A i \in 1 .. n : flatten[i] = IF i = 1 THEN s[i] ELSE flatten[i - 1] \o s[i]
    <2> HIDE DEF n
    <2>. QED  BY <1>5, Zenon
<1>. QED  BY <1>6, <1>7

\* Texts one behind the other are a text.
LEMMA FlattenText ==
    ASSUME NEW s \in Seq(FileText)
    PROVE  FlattenSeq(s) \in FileText
<1>1. Len(s) \in Nat /\ s \in [1 .. Len(s) -> FileText]
    OBVIOUS
<1>2. CASE Len(s) = 0
    <2>1. s = <<>>
        BY <1>2
    <2>. QED  BY <1>2, <2>1 DEF FlattenSeq, FileText
<1>3. CASE Len(s) # 0
    <2> DEFINE n == Len(s)
    <2>1. n \in Nat \ {0}
        BY <1>1, <1>3
    <2>6. PICK flatten : /\ FlattenSeq(s) = flatten[n]
                         /\ \A i \in 1 .. n : flatten[i] = IF i = 1 THEN s[i] ELSE flatten[i - 1] \o s[i]
        BY <1>3, FlattenEach
    <2> DEFINE G == {i \in 1 .. n : flatten[i] \in FileText}
    <2>7. 1 \in G
        BY <1>1, <2>1, <2>6
    <2>8. \A i \in 1 .. n - 1 : i \in G => i + 1 \in G
        <3> SUFFICES ASSUME NEW i \in 1 .. n - 1, i \in G, NEW j, j = i + 1 PROVE j \in G
            OBVIOUS
        <3>1. j \in 1 .. n /\ j # 1 /\ j - 1 = i
            BY <2>1
        <3>2. flatten[j] = flatten[i] \o s[j]
            <4> HIDE DEF n
            <4>. QED  BY <2>6, <3>1
        <3>3. flatten[j] \in FileText
            BY <1>1, <3>1, <3>2, TextLen
        <3>. QED  BY <3>1, <3>3
    <2>9. n \in G
        <3> HIDE DEF G, n
        <3>1. \A i \in 1 .. n : i \in G
            BY <2>1, <2>7, <2>8, FromOneTo
        <3>. QED  BY <2>1, <3>1
    <2>. QED  BY <2>6, <2>9
<1>. QED  BY <1>2, <1>3

\* A function on 1 .. n is a sequence.
LEMMA OnIndices ==
    ASSUME NEW U, NEW n \in Nat, NEW f, f \in [1 .. n -> U] PROVE f \in Seq(U) /\ Len(f) = n
OBVIOUS

\* A file cut or filled up, and written over, holds a text.
LEMMA SizedText ==
    ASSUME NEW t \in FileText, NEW n \in Nat
    PROVE  Sized(t, n) \in FileText /\ Len(Sized(t, n)) = n
<1>1. Len(t) \in Nat /\ \A i \in 1 .. Len(t) : t[i] \in Character
    BY DEF FileText
<1>2. Sized(t, n) \in [1 .. n -> Character]
    <2>1. "NUL" \in Character
        BY DEF Character
    <2>3. \A i \in 1 .. n : i <= Len(t) => i \in 1 .. Len(t)
        BY <1>1
    <2>2. \A i \in 1 .. n : (IF i <= Len(t) THEN t[i] ELSE "NUL") \in Character
        BY <1>1, <2>1, <2>3
    <2>. QED  BY <2>2 DEF Sized
<1>. QED  BY <1>2, OnIndices DEF FileText

\* The larger of two.
LEMMA MaxOfTwo ==
    ASSUME NEW a \in Int, NEW b \in Int
    PROVE  Max({a, b}) = IF a >= b THEN a ELSE b
BY DEF Max

\* ... and so does a file that is written over (UnixFile_Write).
LEMMA WrittenOverText ==
    ASSUME NEW t \in FileText, NEW piece \in FileText, NEW at \in Nat
    PROVE  WrittenOver(t, at, piece) \in FileText
<1> DEFINE n == Max({Len(t), at + Len(piece)})  d == Sized(t, n)
<1>1. Len(t) \in Nat /\ Len(piece) \in Nat /\ at + Len(piece) \in Nat
    BY TextLen
<1>2. n \in Nat
    BY <1>1, MaxOfTwo
<1>3. WrittenOver(t, at, piece) =
          [i \in DOMAIN d |-> IF i \in at + 1 .. at + Len(piece) THEN piece[i - at] ELSE d[i]]
    BY DEF WrittenOver
<1> HIDE DEF n
<1>4. d \in FileText /\ Len(d) = n
    BY <1>2, SizedText
<1> HIDE DEF d
<1>5. DOMAIN d = 1 .. n /\ \A i \in 1 .. n : d[i] \in Character
    BY <1>2, <1>4 DEF FileText
<1>6. \A i \in 1 .. n : i \in at + 1 .. at + Len(piece) => piece[i - at] \in Character
    <2>1. \A i \in 1 .. Len(piece) : piece[i] \in Character
        BY DEF FileText
    <2>2. \A i \in 1 .. n : i \in at + 1 .. at + Len(piece) => i - at \in 1 .. Len(piece)
        BY <1>1, <1>2
    <2>. QED  BY <2>1, <2>2
<1>7. WrittenOver(t, at, piece) \in [1 .. n -> Character]
    BY <1>3, <1>5, <1>6
<1>. QED  BY <1>2, <1>7, OnIndices DEF FileText

\* What is written and the fields of the lines are texts.
LEMMA WritesText == \A piece \in Writes : piece \in FileText
<1>1. STRING \subseteq Character
    BY DEF Character
<1>2. Seq(STRING) \subseteq FileText
    BY <1>1, SeqMonotonic DEF FileText
<1>. QED  BY <1>2, StreamsAssumption

\* ... and so are the fields of the rows.
LEMMA RowsText == \A row \in Rows : row \in Seq(FileText)
<1>1. STRING \subseteq Character
    BY DEF Character
<1>2. Seq(STRING) \subseteq FileText
    BY <1>1, SeqMonotonic DEF FileText
<1>3. Seq(Seq(STRING)) \subseteq Seq(FileText)
    BY <1>2, SeqMonotonic
<1>. QED  BY <1>3, StreamsAssumption

\* A line of a table is a text.
LEMMA CsvText ==
    ASSUME NEW row \in Seq(FileText), NEW c, c.delim \in Character, c.encl \in Character
    PROVE  CsvLine(row, c) \in FileText
<1> DEFINE marks(t) ==
               IF c.delim \notin Range(t) /\ c.encl \notin Range(t) THEN <<>>
               ELSE IF c.delim \notin Range(t) /\ t[1] = c.encl THEN <<c.encl, c.encl>>
               ELSE <<c.encl>>
           first(i) == \A j \in 1 .. i - 1 : row[j] = <<>>
           written(i) ==
               IF row[i] = <<>> THEN <<>>
               ELSE (IF first(i) THEN <<>> ELSE <<c.delim>>) \o marks(row[i]) \o row[i] \o marks(row[i])
<1>1. Len(row) \in Nat /\ DOMAIN row = 1 .. Len(row) /\ \A i \in 1 .. Len(row) : row[i] \in FileText
    OBVIOUS
<1>2. /\ <<>> \in FileText /\ <<c.delim>> \in FileText
      /\ <<c.encl>> \in FileText /\ <<c.encl, c.encl>> \in FileText
    BY DEF FileText
<1>3. \A t : marks(t) \in FileText
    BY <1>2
<1>4. \A i \in 1 .. Len(row) : written(i) \in FileText
    <2> SUFFICES ASSUME NEW i \in 1 .. Len(row) PROVE written(i) \in FileText
        OBVIOUS
    <2> DEFINE m == marks(row[i])  head == IF first(i) THEN <<>> ELSE <<c.delim>>
    <2>1. m \in FileText /\ head \in FileText /\ row[i] \in FileText
        BY <1>1, <1>2, <1>3
    <2>2. written(i) = IF row[i] = <<>> THEN <<>> ELSE head \o m \o row[i] \o m
        OBVIOUS
    <2> HIDE DEF m, head, written
    <2>3. head \o m \in FileText
        BY <2>1, TextLen
    <2>4. head \o m \o row[i] \in FileText
        BY <2>1, <2>3, TextLen
    <2>5. head \o m \o row[i] \o m \in FileText
        BY <2>1, <2>4, TextLen
    <2>. QED  BY <1>2, <2>2, <2>5
<1> DEFINE s == [i \in DOMAIN row |-> written(i)]
<1>5. CsvLine(row, c) = FlattenSeq(s) \o NewLine
    BY DEF CsvLine
<1> HIDE DEF written
<1>6. s \in [1 .. Len(row) -> FileText]
    BY <1>1, <1>4
<1>7. s \in Seq(FileText)
    BY <1>1, <1>6, OnIndices
<1> HIDE DEF s
<1>8. FlattenSeq(s) \in FileText
    BY <1>7, FlattenText
<1>9. NewLine \in FileText
    <2>1. "\n" \in Character
        BY DEF Character
    <2>. QED  BY <2>1 DEF NewLine, FileText
<1>. QED  BY <1>5, <1>8, <1>9, TextLen

\* A handle that has just been opened, or moved.
LEMMA Opened ==
    ASSUME NEW path \in Paths, NEW flags \in SUBSET Flags, NEW pos \in Nat, NEW c
    PROVE  /\ InitIOPrivate(path, flags, pos) \in Handle
           /\ InitIOPrivate(path, flags, pos).path = path
           /\ InOrder(InitIOPrivate(path, flags, pos), c)
<1>1. <<>> \in FileText /\ Len(<<>>) = 0 /\ <<>> \o <<>> = <<>>
    BY DEF FileText
<1>2. Went(c, pos, pos, <<>>, <<>>)
    BY <1>1, NothingSpan DEF Went
<1>. QED  BY <1>1, <1>2 DEF InitIOPrivate, Handle, InOrder

-----------------------------------------------------------------------------
(* Files that are read at once.                                              *)

\* A factor that is not smaller makes a product that is not.
LEMMA TimesMonotone ==
    ASSUME NEW a \in Nat, NEW b \in Nat, a <= b, NEW k \in Nat
    PROVE  a * k <= b * k
<1>1. PICK d \in Nat : b = a + d
    <2>1. b - a \in Nat /\ b = a + (b - a)
        OBVIOUS
    <2>. QED  BY <2>1
<1>2. b * k = a * k + d * k
    BY <1>1
<1>3. d * k \in Nat /\ a * k \in Nat
    BY TimesNat
<1>. QED  BY <1>2, <1>3

\* All of a text is behind its beginning.
LEMMA AllOfText ==
    ASSUME NEW c \in FileText
    PROVE  Beyond(c, 0) = c /\ \A n \in Nat : Len(c) <= n => Upto(c, n) = c
<1>1. Len(c) \in Nat
    BY TextLen
<1>2. /\ Beyond(c, 0) \in FileText /\ Len(Beyond(c, 0)) = (IF 0 < Len(c) THEN Len(c) - 0 ELSE 0)
      /\ \A i \in 1 .. Len(Beyond(c, 0)) : Beyond(c, 0)[i] = c[0 + i]
    BY RestText
<1>3. Len(Beyond(c, 0)) = Len(c) /\ \A i \in 1 .. Len(c) : 0 + i = i
    BY <1>1, <1>2
<1>4. Beyond(c, 0) = c
    BY <1>2, <1>3, SeqEqual DEF FileText
<1>5. ASSUME NEW n \in Nat, Len(c) <= n PROVE Upto(c, n) = c
    <2>1. /\ Upto(c, n) \in FileText /\ Len(Upto(c, n)) = (IF n <= Len(c) THEN n ELSE Len(c))
          /\ \A i \in 1 .. Len(Upto(c, n)) : Upto(c, n)[i] = c[i]
        BY UptoText
    <2>2. Len(Upto(c, n)) = Len(c)
        BY <1>1, <1>5, <2>1
    <2>. QED  BY <2>1, <2>2, SeqEqual DEF FileText
<1>. QED  BY <1>4, <1>5

\* The next n characters, behind the first p.
LEMMA NextBlock ==
    ASSUME NEW c \in FileText, NEW p \in Nat, p <= Len(c), NEW n \in Nat
    PROVE  Upto(c, p) \o Upto(Beyond(c, p), n) = Upto(c, p + n)
<1>1. Len(Upto(c, p)) = p /\ Upto(c, p) \in FileText /\ Beyond(c, p) \in FileText
    BY UptoText, RestText
<1>2. Upto(c, p) \o Beyond(c, p) = c
    <2>1. Beyond(c, 0) = c /\ 0 + p = p /\ 0 \in Nat
        BY AllOfText
    <2>2. Upto(c, p) \o Beyond(c, 0 + Len(Upto(c, p))) = Beyond(c, 0)
        BY <2>1, RestGrows
    <2>. QED  BY <1>1, <2>1, <2>2
<1> DEFINE b == Upto(c, p)  t == Beyond(c, p)
<1>3. b \in FileText /\ t \in FileText /\ Len(b) = p /\ b \o t = c
    BY <1>1, <1>2
<1> HIDE DEF b, t
<1>4. b \o Upto(t, n) = Upto(b \o t, Len(b) + n)
    BY <1>3, UptoBehind
<1>. QED  BY <1>3, <1>4 DEF b, t

\* A file that is read as a whole, block by block, is read to its end.
LEMMA WholeFileRead ==
    ASSUME NEW path, NEW c \in FileText, c = files[path], Len(c) <= MaxFile
    PROVE  ReadWhole(path) = c
<1> DEFINE L == LineChunk
           block(k) == DevRead(InitIOPrivate(path, {"read"}, (k - 1) * L), L)
           K == {k \in 1 .. MaxFile : block(k) # <<>>}
           s == [k \in 1 .. Cardinality(K) |-> block(k)]
           B == {k \in Nat : Len(c) <= k * L}
           m == Min(B)
<1>1. L \in Nat \ {0} /\ MaxFile \in Nat /\ Len(c) \in Nat
    BY StreamsAssumption, TextLen
<1>2. Len(c) \in B
    BY <1>1, TimesMore
<1>3. m \in B /\ \A k \in B : m <= k
    <2>1. B \subseteq Nat /\ B # {}
        BY <1>2
    <2> HIDE DEF B
    <2>. QED  BY <2>1, MinIn
<1>4. m \in Nat /\ Len(c) <= m * L /\ m <= MaxFile
    <2>1. m <= Len(c) /\ m \in B
        BY <1>2, <1>3
    <2> HIDE DEF m
    <2>. QED  BY <1>1, <2>1
<1>5. ASSUME NEW k \in Nat, k < m PROVE k * L < Len(c) /\ k * L \in Nat
    <2>1. k \notin B
        <3> HIDE DEF B, m
        <3>. QED  BY <1>3, <1>4, <1>5
    <2>2. k * L \in Nat
        BY <1>1, TimesNat
    <2>. QED  BY <1>1, <2>1, <2>2
<1>6. ASSUME NEW k \in Nat \ {0} PROVE block(k) = Upto(Beyond(c, (k - 1) * L), L)
    <2> DEFINE st == InitIOPrivate(path, {"read"}, (k - 1) * L)
    <2>1. "read" \in st.flags /\ st.pos = (k - 1) * L /\ Content(st) = c
        BY DEF InitIOPrivate, Content
    <2> HIDE DEF st
    <2>2. DevRead(st, L) = Upto(Beyond(Content(st), st.pos), L)
        BY <1>1, <2>1, DevGives
    <2>3. DevRead(st, L) = Upto(Beyond(c, (k - 1) * L), L)
        BY <2>1, <2>2
    <2>. QED  BY <2>3 DEF st
<1> HIDE DEF m, B, block
<1>7. ASSUME NEW k \in Nat \ {0} PROVE block(k) # <<>> <=> k <= m
    <2> DEFINE at == (k - 1) * L  t == Beyond(c, at)
    <2>1. k - 1 \in Nat /\ at \in Nat
        <3>1. k - 1 \in Nat
            OBVIOUS
        <3>. QED  BY <1>1, <3>1, TimesNat
    <2>2. at < Len(c) <=> k <= m
        <3>1. CASE k <= m
            <4>1. k - 1 < m
                BY <1>4, <3>1
            <4>. QED  BY <1>5, <2>1, <3>1, <4>1
        <3>2. CASE ~(k <= m)
            <4>1. m <= k - 1
                BY <1>4, <3>2
            <4>2. m * L <= at
                BY <1>1, <1>4, <2>1, <4>1, TimesMonotone
            <4>3. m * L \in Nat
                BY <1>1, <1>4, TimesNat
            <4> HIDE DEF at
            <4>4. ~(at < Len(c))
                BY <1>1, <1>4, <2>1, <4>2, <4>3
            <4>. QED  BY <3>2, <4>4
        <3>. QED  BY <3>1, <3>2
    <2> HIDE DEF at
    <2>3. t \in FileText /\ Len(t) = IF at < Len(c) THEN Len(c) - at ELSE 0
        BY <2>1, RestText
    <2> HIDE DEF t
    <2>4. Upto(t, L) \in FileText /\ Len(Upto(t, L)) = IF L <= Len(t) THEN L ELSE Len(t)
        BY <1>1, <2>3, UptoText
    <2>5. Len(Upto(t, L)) # 0 <=> at < Len(c)
        BY <1>1, <2>1, <2>3, <2>4
    <2>6. Upto(t, L) # <<>> <=> Len(Upto(t, L)) # 0
        BY <2>4 DEF FileText
    <2>. QED  BY <1>6, <2>2, <2>5, <2>6 DEF t, at
<1>8. K = 1 .. m
    <2>1. \A k \in 1 .. m : k \in 1 .. MaxFile /\ k \in Nat \ {0} /\ k <= m
        BY <1>1, <1>4
    <2>2. \A k \in 1 .. MaxFile : k \in Nat \ {0} /\ (k <= m => k \in 1 .. m)
        BY <1>1, <1>4
    <2>. QED  BY <1>7, <2>1, <2>2
<1>9. Cardinality(K) = m
    <2>1. Cardinality(1 .. m) = m
        BY <1>4, FS_Interval
    <2>. QED  BY <1>8, <2>1
<1>10. s = [k \in 1 .. m |-> block(k)]
    BY <1>9
<1>11. ReadWhole(path) = FlattenSeq(s)
    BY DEF ReadWhole, block
<1>12. ASSUME NEW k \in 1 .. m PROVE block(k) \in FileText
    <2>1. k \in Nat \ {0} /\ k - 1 \in Nat
        BY <1>4
    <2> DEFINE at == (k - 1) * L
    <2>2. at \in Nat
        BY <1>1, <2>1, TimesNat
    <2> HIDE DEF at
    <2>3. Upto(Beyond(c, at), L) \in FileText
        BY <1>1, <2>2, RestText, UptoText
    <2>. QED  BY <1>6, <2>1, <2>3 DEF at
<1> HIDE DEF K, s
<1>13. s \in Seq(FileText) /\ Len(s) = m
    <2>1. s \in [1 .. m -> FileText]
        BY <1>10, <1>12
    <2>. QED  BY <1>4, <2>1, OnIndices
<1>14. CASE m = 0
    <2>1. s = <<>> /\ FlattenSeq(s) = s
        BY <1>13, <1>14 DEF FlattenSeq
    <2>2. Len(c) = 0
        BY <1>1, <1>4, <1>14
    <2>. QED  BY <1>11, <2>1, <2>2 DEF FileText
<1>15. CASE m # 0
    <2>1. PICK f : /\ FlattenSeq(s) = f[m]
                   /\ \A i \in 1 .. m : f[i] = IF i = 1 THEN s[i] ELSE f[i - 1] \o s[i]
        BY <1>13, <1>15, FlattenEach
    <2> DEFINE G == {i \in 1 .. m : f[i] = Upto(c, i * L)}
    <2>2. m \in Nat \ {0}
        BY <1>4, <1>15
    <2>3. 1 \in G
        <3>1. 1 \in 1 .. m /\ (1 - 1) * L = 0 /\ 1 * L = L
            BY <1>1, <2>2
        <3>2. f[1] = Upto(Beyond(c, 0), L)
            BY <1>6, <1>10, <2>1, <3>1
        <3>. QED  BY <3>1, <3>2, AllOfText
    <2>4. \A i \in 1 .. m - 1 : i \in G => i + 1 \in G
        <3> SUFFICES ASSUME NEW i \in 1 .. m - 1, i \in G, NEW j, j = i + 1 PROVE j \in G
            OBVIOUS
        <3>1. j \in 1 .. m /\ j # 1 /\ j - 1 = i /\ i \in Nat /\ i < m /\ j \in Nat \ {0}
            BY <2>2
        <3> DEFINE p == i * L
        <3>2. f[j] = Upto(c, p) \o Upto(Beyond(c, p), L)
            <4>1. f[j] = f[j - 1] \o s[j]
                BY <2>1, <3>1
            <4>2. s[j] = block(j)
                BY <1>10, <3>1
            <4>3. block(j) = Upto(Beyond(c, (j - 1) * L), L)
                BY <1>6, <3>1
            <4>4. f[i] = Upto(c, p)
                OBVIOUS
            <4>. QED  BY <3>1, <4>1, <4>2, <4>3, <4>4
        <3>3. p \in Nat /\ p <= Len(c)
            <4>1. p \in Nat /\ p < Len(c)
                BY <1>5, <3>1
            <4> HIDE DEF p
            <4>. QED  BY <1>1, <4>1
        <3>4. j * L = p + L
            BY <1>1, <3>1
        <3> HIDE DEF p
        <3>5. f[j] = Upto(c, p + L)
            BY <1>1, <3>2, <3>3, NextBlock
        <3>. QED  BY <3>1, <3>4, <3>5
    <2>5. m \in G
        <3> HIDE DEF G
        <3>1. \A i \in 1 .. m : i \in G
            BY <2>2, <2>3, <2>4, FromOneTo
        <3>. QED  BY <2>2, <3>1
    <2>6. m * L \in Nat
        BY <1>1, <1>4, TimesNat
    <2>. QED  BY <1>4, <1>11, <2>1, <2>5, <2>6, AllOfText
<1>. QED  BY <1>14, <1>15

\* What file_get_contents gives begins with what was asked of it.
LEMMA PartOfFileRead ==
    ASSUME NEW path, NEW c \in FileText, c = files[path], Len(c) <= MaxFile,
           NEW n \in 1 .. MaxFile, NEW offset \in 0 .. MaxFile
    PROVE  LET rest == Drop(c, offset)
               text == file_get_contents(path, offset, n)
           IN  IF rest = <<>> THEN text = No ELSE IsPrefix(Upto(rest, n), text)
<1> DEFINE rest == Drop(c, offset)
           chunk == IF n > 0 /\ n < LineChunk THEN n ELSE LineChunk
           S == {k \in 1 .. MaxFile + 1 : (n > 0 /\ k * chunk >= n) \/ k * chunk >= Len(rest)}
           whole == Min(S) * chunk
<1>1. MaxFile \in Nat /\ offset \in Nat /\ n \in Nat \ {0} /\ Len(c) \in Nat /\ chunk \in Nat \ {0}
    BY StreamsAssumption, TextLen
<1>2. Max({offset, 0}) = offset
    BY <1>1, MaxOfTwo
<1>3. file_get_contents(path, offset, n) = IF rest = <<>> THEN No ELSE Upto(rest, whole)
    BY <1>2 DEF file_get_contents
<1>4. rest \in FileText /\ Len(rest) \in Nat
    <2>1. CASE offset <= Len(c)
        BY <1>1, <2>1, DropText, TextLen
    <2>2. CASE ~(offset <= Len(c))
        <3>1. rest = <<>>
            BY <1>1, <2>2 DEF Drop, FileText
        <3>. QED  BY <3>1 DEF FileText
    <2>. QED  BY <2>1, <2>2
<1> HIDE DEF rest, chunk
<1>5. MaxFile + 1 \in S
    <2>1. MaxFile + 1 \in Nat /\ MaxFile + 1 \in 1 .. MaxFile + 1 /\ n <= MaxFile + 1
        BY <1>1
    <2>2. (MaxFile + 1) * chunk \in Nat /\ MaxFile + 1 <= (MaxFile + 1) * chunk
        BY <1>1, <2>1, TimesMore
    <2> DEFINE w == (MaxFile + 1) * chunk
    <2> HIDE DEF w
    <2>3. w >= n /\ n > 0
        BY <1>1, <2>1, <2>2 DEF w
    <2>. QED  BY <2>1, <2>3 DEF w
<1>6. Min(S) \in S
    <2>1. S \subseteq Nat
        BY <1>1
    <2> HIDE DEF S
    <2>. QED  BY <1>5, <2>1, MinIn
<1>7. whole \in Nat /\ (whole >= n \/ whole >= Len(rest))
    <2>1. Min(S) \in Nat
        BY <1>6
    <2>2. Min(S) * chunk >= n \/ Min(S) * chunk >= Len(rest)
        BY <1>6
    <2> DEFINE k == Min(S)
    <2> HIDE DEF k, S
    <2>. QED  BY <1>1, <2>1, <2>2, TimesNat DEF k
<1> HIDE DEF whole, S
<1>8. IsPrefix(Upto(rest, n), Upto(rest, whole))
    <2> DEFINE x == Upto(rest, n)  y == Upto(rest, whole)
    <2>1. /\ x \in FileText /\ Len(x) = (IF n <= Len(rest) THEN n ELSE Len(rest))
          /\ y \in FileText /\ Len(y) = (IF whole <= Len(rest) THEN whole ELSE Len(rest))
          /\ (\A i \in 1 .. Len(x) : x[i] = rest[i]) /\ (\A i \in 1 .. Len(y) : y[i] = rest[i])
        BY <1>1, <1>4, <1>7, UptoText
    <2> HIDE DEF x, y
    <2>2. Len(x) <= Len(y) /\ Len(x) \in Nat /\ Len(y) \in Nat
        BY <1>1, <1>4, <1>7, <2>1
    <2>3. \A i \in 1 .. Len(x) : x[i] = y[i]
        BY <2>1, <2>2
    <2>4. IsPrefix(x, y)
        BY <2>1, <2>2, <2>3, PrefixOf
    <2>. QED  BY <2>4 DEF x, y
<1>. QED  BY <1>3, <1>8 DEF rest

-----------------------------------------------------------------------------
(* The invariant, and the calls.                                             *)

\* Files hold texts that are not too long; handles are on files that exist, and
\* each one is in order with what its file holds.
FilesOK(F) ==
    /\ F \in [DOMAIN F -> FileText] /\ DOMAIN F \subseteq Paths
    /\ \A p \in DOMAIN F : Len(F[p]) <= MaxFile
StreamOK(st, F) == st \in Handle /\ st.path \in DOMAIN F /\ InOrder(st, F[st.path])
StreamsOK(sts, F) == \A s \in DOMAIN sts : StreamOK(sts[s], F)
IsFun(f) == f = [x \in DOMAIN f |-> f[x]]
StreamInv == FilesOK(files) /\ StreamsOK(streams, files) /\ IsFun(streams)

\* The file of a handle changes.
LEMMA OrderKept ==
    ASSUME NEW c \in FileText, NEW d \in FileText, NEW st \in Handle, InOrder(st, c),
           Upto(d, st.pos) = Upto(c, st.pos)
    PROVE  InOrder(st, d)
<1> SUFFICES ASSUME st.from # Torn PROVE Went(d, st.from, st.pos, st.got, st.buf)
    BY DEF InOrder
<1> DEFINE f == st.from  p == st.pos  got == st.got  buf == st.buf
<1>1. Went(c, f, p, got, buf)
    BY DEF InOrder
<1>2. f \in Nat /\ p \in Nat /\ Len(got) \in Nat /\ Len(buf) \in Nat /\ Upto(d, p) = Upto(c, p)
    BY TextLen DEF Handle
<1> HIDE DEF f, p, got, buf
<1>3. f <= p
    BY <1>1, <1>2 DEF Went
<1>4. CASE f = p
    <2>1. Span(d, f, p) = Span(c, f, p)
        BY <1>2, <1>4, NothingSpan
    <2>. QED  BY <1>1, <1>2, <1>4, <2>1 DEF Went, f, p, got, buf
<1>5. CASE f # p
    <2>1. f < p /\ p <= Len(c)
        BY <1>1, <1>2, <1>3, <1>5 DEF Went
    <2>2. p <= Len(d) /\ Span(d, f, p) = Span(c, f, p)
        BY <1>2, <1>3, <2>1, SpanOfPrefix
    <2>. QED  BY <1>1, <2>2 DEF Went, f, p, got, buf
<1>. QED  BY <1>4, <1>5

\* A handle that is torn off is in order with any text.
LEMMA TornOffOK ==
    ASSUME NEW st \in Handle, NEW c, NEW pos \in Nat
    PROVE  /\ TornOff(st) \in Handle /\ TornOff(st).path = st.path /\ InOrder(TornOff(st), c)
           /\ [TornOff(st) EXCEPT !.pos = pos] \in Handle
           /\ [TornOff(st) EXCEPT !.pos = pos].path = st.path
           /\ InOrder([TornOff(st) EXCEPT !.pos = pos], c)
<1>1. <<>> \in FileText
    BY DEF FileText
<1>. QED  BY <1>1 DEF TornOff, Handle, InOrder

\* A file is made, or holds another text: the handles stay in order.
LEMMA PutKeeps ==
    ASSUME StreamInv, NEW path \in Paths, NEW text \in FileText, Len(text) <= MaxFile
    PROVE  /\ FilesOK(Put(path, text)) /\ DOMAIN Put(path, text) = DOMAIN files \cup {path}
           /\ Put(path, text)[path] = text
           /\ StreamsOK(Changed(streams, path, text), Put(path, text))
           /\ IsFun(Changed(streams, path, text)) /\ DOMAIN Changed(streams, path, text) = DOMAIN streams
<1> DEFINE F == Put(path, text)  C == Changed(streams, path, text)
<1>1. F = [p \in DOMAIN files \cup {path} |-> IF p = path THEN text ELSE files[p]]
    BY DEF Put, With
<1>2. /\ DOMAIN F = DOMAIN files \cup {path} /\ F[path] = text
      /\ \A p \in DOMAIN files : F[p] = IF p = path THEN text ELSE files[p]
    BY <1>1
<1>3. FilesOK(F)
    BY <1>1 DEF StreamInv, FilesOK
<1>4. /\ DOMAIN C = DOMAIN streams /\ IsFun(C)
      /\ \A s \in DOMAIN streams :
             C[s] = IF streams[s].path = path /\ Upto(text, streams[s].pos) # Upto(files[path], streams[s].pos)
                    THEN TornOff(streams[s]) ELSE streams[s]
    BY DEF Changed, IsFun
<1> HIDE DEF F, C
<1>5. ASSUME NEW s \in DOMAIN streams PROVE StreamOK(C[s], F)
    <2> DEFINE st == streams[s]
    <2>1. st \in Handle /\ st.path \in DOMAIN files /\ InOrder(st, files[st.path])
        BY DEF StreamInv, StreamsOK, StreamOK
    <2>2. st.pos \in Nat
        BY <2>1 DEF Handle
    <2>3. C[s] = IF st.path = path /\ Upto(text, st.pos) # Upto(files[path], st.pos) THEN TornOff(st) ELSE st
        BY <1>4
    <2> HIDE DEF st
    <2>4. CASE st.path = path /\ Upto(text, st.pos) # Upto(files[path], st.pos)
        <3>1. C[s] = TornOff(st)
            BY <2>3, <2>4
        <3>2. TornOff(st) \in Handle /\ TornOff(st).path = st.path /\ InOrder(TornOff(st), F[st.path])
            BY <2>1, <2>2, TornOffOK
        <3>. QED  BY <1>2, <2>1, <3>1, <3>2 DEF StreamOK
    <2>5. CASE st.path # path
        <3>1. C[s] = st /\ F[st.path] = files[st.path]
            BY <1>2, <2>1, <2>3, <2>5
        <3>. QED  BY <1>2, <2>1, <3>1 DEF StreamOK
    <2>6. CASE st.path = path /\ Upto(text, st.pos) = Upto(files[path], st.pos)
        <3>1. C[s] = st /\ F[st.path] = text
            BY <1>2, <2>3, <2>6
        <3>2. files[path] \in FileText
            BY <2>1, <2>6 DEF StreamInv, FilesOK
        <3>3. InOrder(st, text)
            BY <2>1, <2>6, <3>2, OrderKept
        <3>. QED  BY <1>2, <2>1, <3>1, <3>3 DEF StreamOK
    <2>. QED  BY <2>4, <2>5, <2>6
<1>6. StreamsOK(C, F)
    BY <1>4, <1>5 DEF StreamsOK
<1>. QED  BY <1>2, <1>3, <1>4, <1>6 DEF F, C

\* One handle is replaced by one in order on the same file.
LEMMA OneHandle ==
    ASSUME NEW sts, NEW F, StreamsOK(sts, F), IsFun(sts), NEW s \in DOMAIN sts, NEW st, StreamOK(st, F)
    PROVE  StreamsOK([sts EXCEPT ![s] = st], F) /\ IsFun([sts EXCEPT ![s] = st])
BY DEF StreamsOK, IsFun

\* The handle gives what it has or reads, and stays in order.
LEMMA TakesKeeps ==
    ASSUME StreamInv, NEW s \in DOMAIN streams, NEW r, NEW t, Takes1(s, r), Reads(streams[s], t, r.st)
    PROVE  StreamInv'
<1> DEFINE st == streams[s]
<1>1. StreamOK(st, files) /\ files[st.path] \in FileText
    BY DEF StreamInv, FilesOK, StreamsOK, StreamOK
<1>2. r.st \in Handle /\ r.st.path = st.path /\ InOrder(r.st, Content(st))
    <2> HIDE DEF st
    <2>1. st \in Handle /\ Content(st) \in FileText /\ InOrder(st, Content(st))
        BY <1>1 DEF StreamOK, Content
    <2>2. Reads(st, t, r.st)
        BY DEF st
    <2>. QED  BY <2>1, <2>2, ReadingKeepsOrder
<1>3. StreamOK(r.st, files)
    BY <1>1, <1>2 DEF StreamOK, Content
<1>4. StreamsOK([streams EXCEPT ![s] = r.st], files) /\ IsFun([streams EXCEPT ![s] = r.st])
    BY <1>3, OneHandle DEF StreamInv
<1>5. streams' = [streams EXCEPT ![s] = r.st] /\ files' = files
    BY DEF Takes1
<1>. QED  BY <1>4, <1>5 DEF StreamInv

\* Whatever the script reads with.
LEMMA ReadKeeps ==
    ASSUME StreamInv, NEW s \in DOMAIN streams, Read(s) PROVE StreamInv'
<1> DEFINE st == streams[s]
<1>1. st \in Handle /\ Content(st) \in FileText /\ Len(Content(st)) <= MaxFile
    BY DEF StreamInv, FilesOK, StreamsOK, StreamOK, Content
<1>2. FeofChunk \in Nat /\ LineChunk \in Nat
    BY StreamsAssumption
<1>3. ASSUME NEW n \in Nat, Takes1(s, StreamRead(st, n)) PROVE StreamInv'
    BY <1>1, <1>3, StreamReadReads, TakesKeeps
<1>4. ASSUME NEW max \in Int, Takes1(s, StreamReadLine(st, max)) PROVE StreamInv'
    BY <1>1, <1>4, LineReads, TakesKeeps
<1>5. CASE Takes1(s, feof(st))
    BY <1>1, <1>5, FeofReads, TakesKeeps
<1>6. CASE Takes1(s, fgetc(st))
    BY <1>3, <1>6 DEF fgetc
<1>7. ASSUME NEW n \in 0 .. 2, Takes1(s, fread(st, n)) PROVE StreamInv'
    <2>1. (IF n < 1 THEN FeofChunk ELSE n) \in Nat
        BY <1>2
    <2>. QED  BY <1>3, <1>7, <2>1 DEF fread
<1>8. ASSUME NEW max \in {-1, 1, 2}, Takes1(s, fgets(st, max)) PROVE StreamInv'
    <2>1. max \in Int
        OBVIOUS
    <2>. QED  BY <1>4, <1>8, <2>1 DEF fgets
<1>9. CASE Takes1(s, fpassthru(st))
    BY <1>2, <1>3, <1>9 DEF fpassthru
<1>10. \/ Takes1(s, fgetc(st))
       \/ \E n \in 0 .. 2 : Takes1(s, fread(st, n))
       \/ \E max \in {-1, 1, 2} : Takes1(s, fgets(st, max))
       \/ Takes1(s, feof(st))
       \/ Takes1(s, fpassthru(st))
    BY DEF Read
<1> HIDE DEF st
<1>. QED  BY <1>5, <1>6, <1>7, <1>8, <1>9, <1>10

\* fclose() keeps the handles that stay open.
LEMMA FcloseKeeps ==
    ASSUME StreamInv, NEW s \in DOMAIN streams, Fclose(s) PROVE StreamInv'
<1>1. files' = files /\ streams' = [t \in DOMAIN streams \ {s} |-> streams[t]]
    BY DEF Fclose
<1>2. StreamsOK(streams', files) /\ IsFun(streams')
    BY <1>1 DEF StreamInv, StreamsOK, IsFun
<1>. QED  BY <1>1, <1>2 DEF StreamInv

\* fseek() and rewind() start over at the new place.
LEMMA FseekKeeps ==
    ASSUME StreamInv, NEW s \in DOMAIN streams, NEW offset, NEW whence, Fseek(s, offset, whence)
    PROVE  StreamInv'
<1> DEFINE st == streams[s]
<1>1. /\ st \in Handle /\ st.path \in Paths /\ st.flags \in SUBSET Flags
      /\ st.path \in DOMAIN files /\ Content(st) \in FileText
    BY DEF StreamInv, FilesOK, StreamsOK, StreamOK, Content, Handle
<1>2. PICK pos \in 0 .. Len(Content(st)) : streams' = [streams EXCEPT ![s] = ResetIOPrivate(st, pos)]
    BY DEF Fseek
<1>3. pos \in Nat /\ files' = files
    BY <1>1, TextLen DEF Fseek
<1> DEFINE new == ResetIOPrivate(st, pos)
<1>4. StreamOK(new, files)
    BY <1>1, <1>3, Opened DEF ResetIOPrivate, StreamOK
<1> HIDE DEF new
<1>5. StreamsOK([streams EXCEPT ![s] = new], files) /\ IsFun([streams EXCEPT ![s] = new])
    BY <1>4, OneHandle DEF StreamInv
<1>. QED  BY <1>2, <1>3, <1>5 DEF StreamInv, new

\* The file of a handle gets another text, and the handle a new place.
LEMMA PutAndMove ==
    ASSUME StreamInv, NEW s \in DOMAIN streams, NEW text \in FileText, Len(text) <= MaxFile,
           NEW new \in Handle, new.path = streams[s].path, InOrder(new, text),
           files' = Put(new.path, text),
           streams' = [Changed(streams, new.path, text) EXCEPT ![s] = new]
    PROVE  StreamInv'
<1> DEFINE path == new.path  C == Changed(streams, path, text)  F == Put(path, text)
<1>1. path \in Paths
    BY DEF Handle
<1>2. /\ FilesOK(F) /\ F[path] = text /\ path \in DOMAIN F
      /\ StreamsOK(C, F) /\ IsFun(C) /\ DOMAIN C = DOMAIN streams
    BY <1>1, PutKeeps
<1>3. files' = F /\ streams' = [C EXCEPT ![s] = new]
    OBVIOUS
<1> HIDE DEF F, C
<1>4. StreamOK(new, F)
    BY <1>2 DEF StreamOK
<1>5. StreamsOK([C EXCEPT ![s] = new], F) /\ IsFun([C EXCEPT ![s] = new])
    BY <1>2, <1>4, OneHandle
<1>. QED  BY <1>2, <1>3, <1>5 DEF StreamInv

\* fwrite(), fprintf() and fputcsv().
LEMMA WriteKeeps ==
    ASSUME StreamInv, NEW s \in DOMAIN streams, NEW piece \in FileText, Write(s, piece)
    PROVE  StreamInv'
<1> DEFINE st == streams[s]
           at == IF "append" \in st.flags THEN Len(Content(st)) ELSE st.pos
           text == WrittenOver(Content(st), at, piece)
           new == [TornOff(st) EXCEPT !.pos = at + Len(piece)]
<1>1. st \in Handle /\ Content(st) \in FileText /\ st.pos \in Nat
    BY DEF StreamInv, FilesOK, StreamsOK, StreamOK, Content, Handle
<1>2. at \in Nat /\ at + Len(piece) \in Nat
    BY <1>1, TextLen
<1>3. Len(text) <= MaxFile /\ files' = Put(st.path, text)
      /\ streams' = [Changed(streams, st.path, text) EXCEPT ![s] = new]
    BY DEF Write
<1> HIDE DEF at
<1>4. text \in FileText
    BY <1>1, <1>2, WrittenOverText
<1> HIDE DEF text
<1>5. new \in Handle /\ new.path = st.path /\ InOrder(new, text)
    <2> HIDE DEF st
    <2>. QED  BY <1>1, <1>2, TornOffOK
<1> HIDE DEF new
<1>6. new.path = streams[s].path /\ files' = Put(new.path, text)
      /\ streams' = [Changed(streams, new.path, text) EXCEPT ![s] = new]
    BY <1>3, <1>5
<1>. QED  BY <1>3, <1>4, <1>5, <1>6, PutAndMove

\* ftruncate() starts over where the handle is.
LEMMA FtruncateKeeps ==
    ASSUME StreamInv, NEW s \in DOMAIN streams, NEW n \in 0 .. 1, Ftruncate(s, n) PROVE StreamInv'
<1> DEFINE st == streams[s]
           text == Sized(Content(st), n)
           new == ResetIOPrivate(st, st.pos)
<1>1. /\ st \in Handle /\ st.path \in Paths /\ st.flags \in SUBSET Flags /\ st.pos \in Nat
      /\ Content(st) \in FileText
    BY DEF StreamInv, FilesOK, StreamsOK, StreamOK, Content, Handle
<1>2. files' = Put(st.path, text)
      /\ streams' = [Changed(streams, st.path, text) EXCEPT ![s] = new]
    BY DEF Ftruncate
<1>3. text \in FileText /\ Len(text) <= MaxFile
    <2>1. n \in Nat /\ n <= MaxFile
        BY StreamsAssumption
    <2>. QED  BY <1>1, <2>1, SizedText
<1> HIDE DEF text
<1>4. new \in Handle /\ new.path = st.path /\ InOrder(new, text)
    BY <1>1, Opened DEF ResetIOPrivate
<1> HIDE DEF new
<1>5. new.path = streams[s].path /\ files' = Put(new.path, text)
      /\ streams' = [Changed(streams, new.path, text) EXCEPT ![s] = new]
    BY <1>2, <1>4
<1>. QED  BY <1>3, <1>4, <1>5, PutAndMove

\* A file is written by its path (file_put_contents, copy).
LEMMA FilePutKeeps ==
    ASSUME StreamInv, NEW path \in Paths, NEW text \in FileText, FilePut(path, text)
    PROVE  StreamInv'
<1>1. /\ Len(text) <= MaxFile /\ files' = Put(path, text) /\ streams' = Changed(streams, path, text)
    BY DEF FilePut
<1>. QED  BY <1>1, PutKeeps DEF StreamInv

\* The flags of a mode.
LEMMA ModeFlags ==
    ASSUME NEW mode \in DOMAIN Modes PROVE Modes[mode] \in SUBSET Flags
BY DEF Modes, Flags

\* fopen() makes the file, cuts it, or takes it as it is.
LEMMA FopenKeeps ==
    ASSUME StreamInv, NEW s, NEW path \in Paths, NEW mode \in DOMAIN Modes, Fopen(s, path, mode)
    PROVE  StreamInv'
<1> DEFINE flags == Modes[mode]
           text == IF path \in DOMAIN files /\ "trunc" \notin flags THEN files[path] ELSE <<>>
           C == Changed(streams, path, text)  F == Put(path, text)
           new == InitIOPrivate(path, flags, 0)
<1>1. s \notin DOMAIN streams /\ files' = F /\ streams' = With(C, s, new)
    BY DEF Fopen
<1>2. flags \in SUBSET Flags
    BY ModeFlags
<1>3. text \in FileText /\ Len(text) <= MaxFile
    <2>1. <<>> \in FileText /\ Len(<<>>) <= MaxFile
        BY StreamsAssumption DEF FileText
    <2>2. path \in DOMAIN files => files[path] \in FileText /\ Len(files[path]) <= MaxFile
        BY DEF StreamInv, FilesOK
    <2>. QED  BY <2>1, <2>2
<1> HIDE DEF flags, text
<1>4. /\ FilesOK(F) /\ F[path] = text /\ path \in DOMAIN F
      /\ StreamsOK(C, F) /\ IsFun(C) /\ DOMAIN C = DOMAIN streams
    BY <1>3, PutKeeps
<1>5. StreamOK(new, F)
    BY <1>2, <1>4, Opened DEF StreamOK
<1> HIDE DEF new, C, F
<1> DEFINE G == With(C, s, new)
<1>6. IsFun(G) /\ \A t \in DOMAIN G : G[t] = new \/ (t \in DOMAIN C /\ G[t] = C[t])
    <2>1. G = [t \in DOMAIN C \cup {s} |-> IF t = s THEN new ELSE C[t]]
        BY DEF With
    <2>2. DOMAIN G = DOMAIN C \cup {s} /\ \A t \in DOMAIN C \cup {s} : G[t] = IF t = s THEN new ELSE C[t]
        BY <2>1
    <2>3. IsFun(G)
        BY <2>1 DEF IsFun
    <2> HIDE DEF G
    <2>. QED  BY <2>2, <2>3
<1> HIDE DEF G
<1>7. StreamsOK(G, F)
    BY <1>4, <1>5, <1>6 DEF StreamsOK
<1>. QED  BY <1>1, <1>4, <1>6, <1>7 DEF StreamInv, G

-----------------------------------------------------------------------------

\* Every call of the script keeps all handles in order.
LEMMA StreamInvHolds == StreamSpec => []StreamInv
<1>1. StreamInit => StreamInv
    BY DEF StreamInit, StreamInv, FilesOK, StreamsOK, IsFun
<1>2. StreamInv /\ [StreamNext]_streamVars => StreamInv'
    <2> SUFFICES ASSUME StreamInv, [StreamNext]_streamVars PROVE StreamInv'
        OBVIOUS
    <2>1. CASE UNCHANGED streamVars
        BY <2>1 DEF streamVars, StreamInv
    <2>2. ASSUME NEW o \in Openings, Fopen(o[1], o[2], o[3]) PROVE StreamInv'
        BY <2>2, OpeningsAssumption, FopenKeeps
    <2>3. ASSUME NEW s \in DOMAIN streams, Fclose(s) PROVE StreamInv'
        BY <2>3, FcloseKeeps
    <2>4. ASSUME NEW s \in DOMAIN streams, Read(s) PROVE StreamInv'
        BY <2>4, ReadKeeps
    <2>5. ASSUME NEW s \in DOMAIN streams, Fwrite(s) PROVE StreamInv'
        <3>1. PICK piece \in Writes : Write(s, piece)
            BY <2>5 DEF Fwrite
        <3>2. piece \in FileText
            BY WritesText
        <3>. QED  BY <3>1, <3>2, WriteKeeps
    <2>6. ASSUME NEW s \in DOMAIN streams, Fputcsv(s) PROVE StreamInv'
        <3> DEFINE c == [delim |-> ",", encl |-> "\""]
        <3>1. PICK row \in Rows : Write(s, CsvLine(row, c))
            BY <2>6 DEF Fputcsv
        <3>2. c.delim \in Character /\ c.encl \in Character
            BY DEF Character
        <3> HIDE DEF c
        <3>3. CsvLine(row, c) \in FileText
            BY <3>2, RowsText, CsvText
        <3>. QED  BY <3>1, <3>3, WriteKeeps
    <2>7. ASSUME NEW s \in DOMAIN streams, NEW offset, NEW whence, Fseek(s, offset, whence)
          PROVE  StreamInv'
        BY <2>7, FseekKeeps
    <2>8. ASSUME NEW s \in DOMAIN streams, NEW n \in 0 .. 1, Ftruncate(s, n) PROVE StreamInv'
        BY <2>8, FtruncateKeeps
    <2>9. ASSUME NEW path \in Paths, NEW piece \in Writes, NEW append, file_put_contents(path, piece, append)
          PROVE  StreamInv'
        <3> DEFINE text == IF append /\ path \in DOMAIN files THEN files[path] \o piece ELSE piece
        <3>1. piece \in FileText
            BY WritesText
        <3>2. path \in DOMAIN files => files[path] \o piece \in FileText
            <4>1. path \in DOMAIN files => files[path] \in FileText
                BY DEF StreamInv, FilesOK
            <4>. QED  BY <3>1, <4>1, TextLen
        <3>3. text \in FileText
            BY <3>1, <3>2
        <3>4. FilePut(path, text)
            BY <2>9 DEF file_put_contents
        <3> HIDE DEF text
        <3>. QED  BY <3>3, <3>4, FilePutKeeps
    <2>10. ASSUME NEW from \in Paths, NEW to \in Paths, copy(from, to) PROVE StreamInv'
        <3> DEFINE text == IF from = to THEN <<>> ELSE ReadWhole(from)
        <3>1. files[from] \in FileText /\ Len(files[from]) <= MaxFile
            BY <2>10 DEF copy, StreamInv, FilesOK
        <3>2. ReadWhole(from) \in FileText /\ <<>> \in FileText
            BY <3>1, WholeFileRead DEF FileText
        <3>3. text \in FileText
            BY <3>2
        <3>4. FilePut(to, text)
            BY <2>10 DEF copy
        <3> HIDE DEF text
        <3>. QED  BY <3>3, <3>4, FilePutKeeps
    <2>11. CASE StreamNext
        BY <2>2, <2>3, <2>4, <2>5, <2>6, <2>7, <2>8, <2>9, <2>10, <2>11, Zenon DEF StreamNext
    <2>. QED  BY <2>1, <2>11
<1>. QED  BY <1>1, <1>2, PTL DEF StreamSpec

\* However a script mixes the ways to read a file, and whatever it or other handles
\* write, what a handle has given since it was opened or moved and what it keeps is
\* the part of the file its device went over (io_private's buffer and the device's
\* offset): for any files, chunk sizes, texts and number of handles.
THEOREM StreamsReadInOrder == StreamSpec => []ReadsInOrder
<1>1. StreamInv => ReadsInOrder
    <2> SUFFICES ASSUME StreamInv, NEW s \in DOMAIN streams, streams[s].from # Torn
                 PROVE  LET st == streams[s]
                        IN  /\ st.from + Len(st.got) + Len(st.buf) = st.pos
                            /\ st.got \o st.buf = SubSeq(Content(st), st.from + 1, st.pos)
        BY DEF ReadsInOrder
    <2>1. InOrder(streams[s], Content(streams[s]))
        BY DEF StreamInv, StreamsOK, StreamOK, Content
    <2>. QED  BY <2>1 DEF InOrder, Went, Span
<1>. QED  BY <1>1, StreamInvHolds, PTL

\* Wherever a script has left a handle, whatever it has read, written or moved
\* before: feof, fgetc, fread and fgets begin at the first character that is unread,
\* a line is whole, the end is reported when nothing is left and not before; and what
\* reads a file at once (PH7_StreamReadWholeFile, file_get_contents) gives all of it,
\* or all that was asked for.
THEOREM StreamsSeeTheRest == StreamSpec => []SeesTheRest
<1>1. StreamInv => SeesTheRest
    <2> SUFFICES ASSUME StreamInv PROVE SeesTheRest
        OBVIOUS
    <2>1. ASSUME NEW s \in DOMAIN streams, NEW st, st = streams[s], NEW rest, rest = Unread(st),
                 "read" \in st.flags
          PROVE  /\ feof(st).eof <=> rest = <<>>
                 /\ fgetc(st).text = Upto(rest, 1)
                 /\ fgets(st, -1).text = GetLine(rest)
                 /\ \A n \in 1 .. MaxFile :
                       /\ fread(feof(st).st, n).text = Upto(rest, n)
                       /\ LET line == fgets(st, n).text
                          IN  IsPrefix(line, GetLine(rest)) /\ (Len(line) >= n \/ line = GetLine(rest))
                 /\ st.from # Torn /\ st.buf = <<>> => ftell(st) = st.from + Len(st.got)
        <3>1. st \in Handle /\ st.path \in DOMAIN files /\ InOrder(st, Content(st))
            BY <2>1 DEF StreamInv, StreamsOK, StreamOK, Content
        <3>2. Content(st) \in FileText /\ Len(Content(st)) <= MaxFile
            BY <3>1 DEF StreamInv, FilesOK, Content
        <3>3. ASSUME st.from # Torn, st.buf = <<>> PROVE ftell(st) = st.from + Len(st.got)
            <4>1. st.from + Len(st.got) + Len(st.buf) = st.pos
                BY <3>1, <3>3 DEF InOrder, Went
            <4>2. st.from \in Nat /\ st.got \in FileText /\ Len(st.buf) = 0
                BY <3>1, <3>3 DEF Handle
            <4> DEFINE f == st.from  g == Len(st.got)  l == Len(st.buf)
            <4>3. f \in Nat /\ g \in Nat /\ l = 0 /\ f + g + l = st.pos
                BY <4>1, <4>2, TextLen
            <4> HIDE DEF f, g, l
            <4>4. f + g = st.pos
                BY <4>3
            <4>. QED  BY <4>4 DEF ftell, f, g
        <3>. QED  BY <2>1, <3>1, <3>2, <3>3, HandleSees
    <2>2. ASSUME NEW path \in DOMAIN files
          PROVE  /\ ReadWhole(path) = files[path]
                 /\ \A n \in 1 .. MaxFile, offset \in 0 .. MaxFile :
                       LET rest == Drop(files[path], offset)
                           text == file_get_contents(path, offset, n)
                       IN  IF rest = <<>> THEN text = No ELSE IsPrefix(Upto(rest, n), text)
        <3>1. files[path] \in FileText /\ Len(files[path]) <= MaxFile
            BY DEF StreamInv, FilesOK
        <3>. QED  BY <3>1, WholeFileRead, PartOfFileRead
    <2>. QED  BY <2>1, <2>2 DEF SeesTheRest
<1>. QED  BY <1>1, StreamInvHolds, PTL
=============================================================================
