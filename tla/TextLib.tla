------------------------------ MODULE TextLib -------------------------------
(***************************************************************************)
(* The string functions of the language (builtin.c): what each makes of its *)
(* arguments.  A text is a sequence of characters of the ASCII set; letters  *)
(* come in two cases, paired by UpperOf.  A function that is not given       *)
(* enough arguments, or a wrong type, refuses; those cases are left out.     *)
(* An argument that may be missing is a sequence of at most one value.       *)
(***************************************************************************)
EXTENDS Values, SequencesExt

CONSTANT UpperOf     \* capital of each small letter in use

NotFound == -1           \* FALSE where a position is returned
No == <<"FALSE">>        \* FALSE or NULL where a text is returned
NoArray == <<No>>        \* FALSE where an array of texts is returned

Spaces == {" ", "\n", "\r", "\t"}
NewLine == <<"\n">>

Drop(s, n) == SubSeq(s, n + 1, Len(s))
Abs(n) == IF n < 0 THEN -n ELSE n
GivenOr(arg, default) == IF arg = <<>> THEN default ELSE arg[1]

SyToUpper(c) == IF c \in DOMAIN UpperOf THEN UpperOf[c] ELSE c
SyToLower(c) ==
    LET small == {l \in DOMAIN UpperOf : UpperOf[l] = c}
    IN  IF small = {} THEN c ELSE CHOOSE l \in small : TRUE

strtolower(s) == [i \in DOMAIN s |-> SyToLower(s[i])]
strtoupper(s) == [i \in DOMAIN s |-> SyToUpper(s[i])]
ucfirst(s) == [i \in DOMAIN s |-> IF i = 1 THEN SyToUpper(s[i]) ELSE s[i]]
lcfirst(s) == [i \in DOMAIN s |-> IF i = 1 THEN SyToLower(s[i]) ELSE s[i]]
ucwords(s) ==
    LET first(i) == i = 1 \/ s[i - 1] \in Spaces
    IN  IF s = <<>> THEN No
        ELSE [i \in DOMAIN s |-> IF first(i) THEN SyToUpper(s[i]) ELSE s[i]]

strlen(s) == Len(s)
strrev(s) == IF s = <<>> THEN No ELSE Reverse(s)
str_repeat(s, n) ==
    IF s = <<>> THEN No ELSE FlattenSeq([i \in 1 .. n |-> s])

-----------------------------------------------------------------------------
(* Comparison.                                                              *)

CodeAt(s, i) == IF i <= Len(s) THEN Code[s[i]] ELSE 0     \* 0 ends a C string

\* SyStrncmp; SyStrnicmp compares what strtolower makes of the texts.
SyStrncmp(s, t, n) ==
    LET differ == {i \in 1 .. n : CodeAt(s, i) # CodeAt(t, i)}
    IN  IF s = <<>> \/ t = <<>> THEN Sign(Len(s), Len(t))
        ELSE IF differ = {} THEN 0
        ELSE CodeAt(s, Min(differ)) - CodeAt(t, Min(differ))
SyStrnicmp(s, t, n) == SyStrncmp(strtolower(s), strtolower(t), n)

strcmp(s, t) == SyStrncmp(s, t, Max({Len(s), Len(t)}))
strcasecmp(s, t) == SyStrnicmp(s, t, Max({Len(s), Len(t)}))
strncmp(s, t, n) == IF n < 0 THEN -1 ELSE SyStrncmp(s, t, n)
strncasecmp(s, t, n) == IF n < 0 THEN -1 ELSE SyStrnicmp(s, t, n)

-----------------------------------------------------------------------------
(* Parts of a text and their positions, counted from 0.                     *)

Occurrences(s, p) == {i \in 0 .. Len(s) - Len(p) : SubSeq(s, i + 1, i + Len(p)) = p}

\* The two searches the functions share, and the one from the end.
SyBlobSearch(s, p) ==
    IF Occurrences(s, p) = {} THEN NotFound ELSE Min(Occurrences(s, p))
iPatternMatch(s, p) == SyBlobSearch(strtolower(s), strtolower(p))
SyByteFind2(s, c) ==
    LET found == {i \in DOMAIN s : s[i] = c} IN IF found = {} THEN NotFound ELSE Max(found) - 1

\* With fold, letters match whatever their case.
Match(s, p, fold) == IF fold THEN iPatternMatch(s, p) ELSE SyBlobSearch(s, p)

Part(s, p, before, fold) ==
    LET at == Match(s, p, fold)
    IN  IF s = <<>> \/ p = <<>> \/ at = NotFound THEN No
        ELSE IF before THEN SubSeq(s, 1, at) ELSE Drop(s, at)
strstr(s, p, before) == Part(s, p, before, FALSE)
stristr(s, p, before) == Part(s, p, before, TRUE)

\* A start at or past the end counts as 0.
StartIn(n, start) == IF Abs(start) >= n THEN 0 ELSE Abs(start)
Position(s, p, start, fold) ==
    LET from == StartIn(Len(s), start)
        at == Match(Drop(s, from), p, fold)
    IN  IF s = <<>> \/ p = <<>> \/ at = NotFound THEN NotFound ELSE at + from
strpos(s, p, start) == Position(s, p, start, FALSE)
stripos(s, p, start) == Position(s, p, start, TRUE)

\* The search goes backwards and stops before the first character it may look at.
strrpos(s, p, start) ==
    LET n == Len(s)
        low == IF start < 0 THEN 0 ELSE start
        high == IF start < 0 THEN n + start ELSE n
        found == {i \in Occurrences(SubSeq(s, 1, high), p) : i > low}
    IN  IF p = <<>> \/ Abs(start) >= n \/ found = {} THEN NotFound ELSE Max(found)
strripos(s, p, start) == strrpos(strtolower(s), strtolower(p), start)

strrchr(s, p) ==
    IF s = <<>> \/ p = <<>> \/ SyByteFind2(s, p[1]) = NotFound THEN No
    ELSE Drop(s, SyByteFind2(s, p[1]))

strpbrk(s, list) ==
    LET found == {i \in DOMAIN s : s[i] \in Range(list)}
    IN  IF found = {} THEN No ELSE Drop(s, Min(found) - 1)

\* Where a part begins, negative offsets counting from the end.
BeginsAt(s, offset) == IF offset < 0 THEN Len(s) + offset ELSE offset

\* A negative length leaves out the end, unless nothing would be left.
substr(s, offset, length) ==
    LET from == BeginsAt(s, offset)
        rest == Len(s) - from
        n == GivenOr(length, rest)
        taken == IF n >= 0 THEN Min({n, rest}) ELSE IF rest + n < 1 THEN rest ELSE rest + n
    IN  IF s = <<>> \/ from \notin 0 .. Len(s) - 1 THEN No
        ELSE SubSeq(s, from + 1, from + taken)

substr_compare(s, t, offset, length, fold) ==
    LET from == BeginsAt(s, offset)
        rest == Drop(s, from)
        n == Min({GivenOr(length, Len(rest)), Len(rest)})
    IN  IF t = <<>> \/ Len(t) > Len(s) \/ from \notin 0 .. Len(s) - 1 THEN <<>>
        ELSE IF n < 1 THEN <<1>>
        ELSE <<IF fold THEN SyStrnicmp(rest, t, n) ELSE SyStrncmp(rest, t, n)>>

\* Occurrences that do not overlap, from the left.
substr_count(s, p, offset, length) ==
    LET rest == Drop(s, offset)
        part == SubSeq(rest, 1, GivenOr(length, Len(rest)))
        found == Occurrences(part, p)
        count[i \in 0 .. Len(part)] ==
            LET later == {j \in found : j >= i}
            IN  IF later = {} THEN 0 ELSE 1 + count[Min(later) + Len(p)]
    IN  IF p = <<>> \/ Len(p) > Len(s) \/ offset \notin 0 .. Len(s)
            \/ GivenOr(length, 0) \notin 0 .. Len(rest)
        THEN 0 ELSE count[0]

-----------------------------------------------------------------------------
(* How long a prefix made of, or free of, some characters is: of the first   *)
(* word of the part of the text that is asked for.                           *)

Window(s, args) ==
    LET from == BeginsAt(s, args[1])
        rest == Drop(s, from)
    IN  CASE args = <<>> -> s
          [] from \notin 0 .. Len(s) - 1 \/ (args[1] < 0 /\ from = 0) -> <<>>
          [] Len(args) = 2 /\ args[2] \in 1 .. Len(rest) -> SubSeq(rest, 1, args[2])
          [] OTHER -> rest

ExtractNonSpaceToken(s) ==
    LET ink == {i \in DOMAIN s : s[i] \notin Spaces}
        ends == {i \in DOMAIN s : s[i] \in Spaces /\ \E j \in ink : j < i}
    IN  CASE ink = {} -> <<>>
          [] ends = {} -> Drop(s, Min(ink) - 1)
          [] OTHER -> SubSeq(s, Min(ink), Min(ends) - 1)

\* LongestStringMask, LongestStringMask2
LongestStringMask(s, stopAt) ==
    LET stops == {i \in DOMAIN s : s[i] \in stopAt} IN IF stops = {} THEN Len(s) ELSE Min(stops) - 1

strspn(s, mask, args) ==
    LongestStringMask(ExtractNonSpaceToken(Window(s, args)), Range(s) \ Range(mask))
strcspn(s, mask, args) ==
    IF mask = <<>> THEN Len(s)
    ELSE LongestStringMask(ExtractNonSpaceToken(Window(s, args)), Range(mask))

-----------------------------------------------------------------------------
(* Trimming.  The list of characters is an argument that may be missing.    *)

\* SyStringFullTrimSafe and its two halves.
LeftTrimmed(s, chars) ==
    LET left == {i \in DOMAIN s : s[i] \notin chars}
    IN  IF left = {} THEN <<>> ELSE Drop(s, Min(left) - 1)
RightTrimmed(s, chars) ==
    LET left == {i \in DOMAIN s : s[i] \notin chars}
    IN  IF left = {} THEN <<>> ELSE SubSeq(s, 1, Max(left))
Blank == Spaces \cup {"NUL"}

ltrim(s, list) == LeftTrimmed(s, Range(GivenOr(list, SetToSeq(Blank))))

\* With a list, the loop from the end stops at the first character, and a text
\* of one character that is left counts as none.
TrimmedFrom(s, chars) ==
    LET last == Max({1} \cup {i \in DOMAIN s : s[i] \notin chars})
    IN  IF last = 1 THEN <<>> ELSE SubSeq(s, 1, last)
rtrim(s, list) ==
    IF list = <<>> THEN RightTrimmed(s, Blank)
    ELSE IF list[1] = <<>> THEN s ELSE TrimmedFrom(s, Range(list[1]))
trim(s, list) ==
    IF list = <<>> THEN LeftTrimmed(RightTrimmed(s, Blank), Blank)
    ELSE IF list[1] = <<>> THEN s
    ELSE TrimmedFrom(LeftTrimmed(s, Range(list[1])), Range(list[1]))

-----------------------------------------------------------------------------
(* Taking apart.                                                            *)

\* Empty pieces are not kept, and do not count for the limit.
Exploded(p, s, limit) ==
    LET from[i \in 0 .. Len(s), made \in 0 .. Len(s)] ==
            LET rest == Drop(s, i)
                at == SyBlobSearch(rest, p)
                kept(t) == IF t = <<>> THEN <<>> ELSE <<t>>
                piece == kept(SubSeq(rest, 1, at))
            IN  IF at = NotFound \/ limit <= made THEN kept(rest)
                ELSE piece \o from[i + at + Len(p), made + Len(piece)]
    IN  from[0, 0]
explode(p, s, limit) ==
    IF p = <<>> \/ s = <<>> THEN NoArray
    ELSE Exploded(p, s, Max({Abs(GivenOr(limit, Len(s) + 2)), 1}) - 1)

\* The last chunk is what is left.
LastDropped(s, n) ==        \* mutant: only full chunks are made
    [i \in 1 .. Len(s) \div n |-> SubSeq(s, (i - 1) * n + 1, i * n)]
Chunks(s, n) ==
    [i \in 1 .. (Len(s) + n - 1) \div n |-> SubSeq(s, (i - 1) * n + 1, Min({i * n, Len(s)}))]
str_split(s, n) == IF s = <<>> \/ n < 1 THEN NoArray ELSE Chunks(s, n)
chunk_split(s, n, sep) ==
    LET end == IF sep = <<>> THEN <<"\r", "\n">> ELSE sep
        size == IF n < 1 THEN 76 ELSE n
    IN  IF size > Len(s) THEN s \o end
        ELSE FlattenSeq([i \in DOMAIN Chunks(s, size) |-> Chunks(s, size)[i] \o end])

\* The pad repeated and cut to n characters.
Padding(pad, n) == [i \in 1 .. n |-> pad[((i - 1) % Len(pad)) + 1]]
str_pad(s, n, pad, side) ==
    LET fill == IF pad = <<>> THEN <<" ">> ELSE pad
        missing == n - Len(s)
        k == Len(fill)
        whole == Min({(missing \div 2 + k - 1) \div k, (missing - 1) \div k}) * k
        left == CASE side = "left" -> missing [] side = "both" -> whole [] OTHER -> 0
    IN  IF missing < 1 THEN s
        ELSE Padding(fill, left) \o s \o Padding(fill, missing - left)

\* PH7_ProcessCsv, PH7_CsvConsumer: an escape lets the next character pass, which
\* may be the NUL after the text.  Empty fields are not kept.
CsvFields(s, c) ==
    LET t == Append(s, "NUL")
        stop[i \in 1 .. Len(s) + 2, enc \in BOOLEAN] ==
            IF i > Len(s) \/ (t[i] = c.delim /\ ~enc) THEN i
            ELSE IF t[i] = c.encl THEN stop[i + 1, ~enc]
            ELSE IF t[i] = c.escape THEN stop[i + 2, enc] ELSE stop[i + 1, enc]
        fields[at \in 1 .. Len(s)] ==
            LET end == stop[at, FALSE]
                field == IF t[at] = c.encl THEN SubSeq(t, at + 1, end - 2) ELSE SubSeq(t, at, end - 1)
                token == LeftTrimmed(RightTrimmed(field, Blank), Blank)
                next == {i \in end .. Len(s) : t[i] # c.delim}
            IN  (IF token = <<>> THEN <<>> ELSE <<token>>)
                \o (IF next = {} THEN <<>> ELSE fields[Min(next)])
    IN  fields[1]
str_getcsv(s, c) == IF s = <<>> THEN <<>> ELSE CsvFields(s, c)

-----------------------------------------------------------------------------
(* Replacing.                                                               *)

\* StringReplace is applied again and again behind what it put in.
Replaced(s, p, t, fold) ==
    LET from[i \in 0 .. Len(s)] ==
            LET rest == Drop(s, i)
                at == Match(rest, p, fold)
            IN  IF at = NotFound THEN rest
                ELSE SubSeq(rest, 1, at) \o t \o from[i + at + Len(p)]
    IN  from[0]

\* Searches for texts; an empty one is skipped and takes no replacement.  With
\* `same`, one replacement serves for all; else they are taken in turn, and
\* then nothing is put in.
str_replace(search, replace, same, s, fold) ==
    LET wanted == SelectSeq(search, LAMBDA p : p # <<>>)
        by(i) == CASE same -> replace[1] [] ~same /\ i <= Len(replace) -> replace[i]
                   [] OTHER -> <<>>
    IN  IF s = <<>> THEN <<>>
        ELSE FoldLeft(LAMBDA r, i : Replaced(r, wanted[i], by(i), fold),
                      s, [i \in DOMAIN wanted |-> i])

\* strtr with an array replaces the first occurrence of each key, in order.
StringReplaceWalker(s, pair) ==
    LET at == SyBlobSearch(s, pair[1])
    IN  IF pair[1] = <<>> \/ at = NotFound THEN s
        ELSE SubSeq(s, 1, at) \o pair[2] \o Drop(s, at + Len(pair[1]))
strtr_array(s, pairs) == IF s = <<>> THEN s ELSE FoldLeft(StringReplaceWalker, s, pairs)
strtr(s, from, to) ==
    LET place(c) == Min({i \in DOMAIN from : from[i] = c})
    IN  IF from = <<>> \/ to = <<>> THEN s
        ELSE [i \in DOMAIN s |-> IF s[i] \in Range(from) /\ place(s[i]) <= Len(to)
                                 THEN to[place(s[i])] ELSE s[i]]

Each(s, Form(_)) == FlattenSeq([i \in DOMAIN s |-> Form(i)])

nl2br(s, xhtml) ==
    LET break(i) == s[i] \in {"\n", "\r"}
        mark == IF xhtml THEN <<"<", "b", "r", ">">> ELSE <<"<", "b", "r", "/", ">">>
    IN  IF s = <<>> THEN No
        ELSE Each(s, LAMBDA i : IF break(i) /\ (i = 1 \/ ~break(i - 1))
                                THEN mark \o <<s[i]>> ELSE <<s[i]>>)

-----------------------------------------------------------------------------
(* Quoting, and back.                                                       *)

Slash == "\\"
Quotes == {"'", "\"", Slash}
Quoted(s, chars) == Each(s, LAMBDA i : IF s[i] \in chars THEN <<Slash, s[i]>> ELSE <<s[i]>>)
addslashes(s) == Quoted(s, Quotes)
addcslashes(s, mask) == Quoted(s, Range(mask))
quotemeta(s) ==
    Quoted(s, {".", Slash, "+", "*", "?", "[", "^", "]", "(", "$", ")"})

\* A backslash is not copied; the character after it is, if it is a quote.  A
\* backslash there is looked at again, and one before any other character is
\* never left: the call does not return.
Forever == "no return"
stripslashes(s) ==
    LET n == Len(s)
        from[i \in 1 .. n + 1] ==
            LET slashes == {j \in i .. n : s[j] = Slash}
                j == Min(slashes)
            IN  CASE slashes = {} -> SubSeq(s, i, n)
                  [] slashes # {} /\ j = n -> SubSeq(s, i, j - 1)
                  [] slashes # {} /\ j < n /\ s[j + 1] \in Quotes ->
                         SubSeq(s, i, j - 1) \o from[j + 1]
                  [] OTHER -> SubSeq(s, i, j - 1) \o <<Forever>>
    IN  from[1]

\* Entities; flags is the set of ENT_QUOTES ("quotes", 0x02) and ENT_NOQUOTES
\* ("noquotes", 0x04) that are on.
Entities == <<[of |-> "&", text |-> <<"&", "a", "m", "p", ";">>],
              [of |-> "<", text |-> <<"&", "l", "t", ";">>],
              [of |-> ">", text |-> <<"&", "g", "t", ";">>],
              [of |-> "\"", text |-> <<"&", "q", "u", "o", "t", ";">>],
              [of |-> "'", text |-> <<"&", "#", "0", "3", "9", ";">>]>>
InUse(e, flags) ==
    /\ e.of = "\"" => "noquotes" \notin flags
    /\ e.of = "'" => "quotes" \in flags
htmlspecialchars(s, flags) ==
    Each(s, LAMBDA i :
        LET e == SelectSeq(Entities, LAMBDA x : x.of = s[i] /\ InUse(x, flags))
        IN  IF e = <<>> THEN <<s[i]>> ELSE e[1].text)
htmlspecialchars_decode(s, flags) ==
    LET from[i \in 1 .. Len(s) + 1] ==
            LET here(x) == strtolower(SubSeq(s, i, i + Len(x.text) - 1)) = x.text
                e == SelectSeq(Entities,
                               LAMBDA x : i + Len(x.text) <= Len(s) + 1 /\ here(x))
            IN  CASE i > Len(s) -> <<>>
                  [] i <= Len(s) /\ e = <<>> -> <<s[i]>> \o from[i + 1]
                  [] OTHER -> (IF InUse(e[1], flags) THEN <<e[1].of>> ELSE e[1].text)
                              \o from[i + Len(e[1].text)]
    IN  from[1]

=============================================================================
