------------------------------ MODULE PathLib -------------------------------
(***************************************************************************)
(* The functions on the names of files (vfs.c): taking a path apart, and    *)
(* matching a name against a pattern.  Paths are texts of TextLib; the Unix *)
(* build is modelled, whose only separator is the slash.                    *)
(***************************************************************************)
EXTENDS TextLib

Sep == "/"
Dot == "."

LastSep(s) == SyByteFind2(s, Sep)      \* position from 0, or NotFound

\* PH7_ExtractDirName
dirname(s) ==
    CASE s = <<>> \/ LastSep(s) = NotFound -> <<Dot>>
      [] s # <<>> /\ LastSep(s) = 0 -> <<Sep>>
      [] OTHER -> SubSeq(s, 1, LastSep(s))

\* The first character is never taken away, not even a separator.  A suffix
\* longer than the name is left out.
basename(s, suffix) ==
    LET end == Max({1} \cup {i \in DOMAIN s : s[i] # Sep})
        begin == Max({1} \cup {i + 1 : i \in {j \in 2 .. end : s[j] = Sep}})
        base == SubSeq(s, begin, end)
        at == end - Len(suffix)
    IN  IF s = <<>> THEN <<>>
        ELSE IF suffix # <<>> /\ at > 0 /\ SubSeq(s, at + 1, end) = suffix
             THEN SubSeq(s, begin, at) ELSE base

\* ExtractPathInfo.  A dot that begins the name begins no extension.
ExtractPathInfo(s) ==
    LET cut == IF LastSep(s) <= 0 THEN 0 ELSE LastSep(s) + 1
        base == LeftTrimmed(Drop(s, cut), {Sep})
        dots == {i \in DOMAIN base : i > 1 /\ base[i] = Dot}
        ext == IF dots = {} THEN <<>> ELSE Drop(base, Max(dots))
    IN  IF s = <<Sep>> THEN [dirname |-> s, basename |-> <<>>, extension |-> <<>>, filename |-> <<>>]
        ELSE [dirname |-> IF cut = 0 /\ s[1] = Sep THEN <<Sep>>
                          ELSE RightTrimmed(SubSeq(s, 1, cut), {Sep}),
              basename |-> base,
              extension |-> ext,
              filename |-> IF dots = {} THEN base
                           ELSE SubSeq(base, 1, Len(base) - Len(ext) - 1)]

\* pathinfo(s, component): parts that are empty are missing from the array.
pathinfo(s) == IF s = <<>> THEN <<>> ELSE
    LET info == ExtractPathInfo(s)
    IN  [part \in {p \in DOMAIN info : info[p] # <<>>} |-> info[part]]

-----------------------------------------------------------------------------
(* Patterns.                                                                *)

Same(c, d, fold) == c = d \/ (fold /\ SyToLower(c) = SyToLower(d))

\* The members between the brackets, with ranges.
InSet(members, c) ==
    LET n == Len(members)
        from[i \in 1 .. n + 2, prior \in Range(members) \cup {""}] ==
            IF i > n THEN FALSE
            ELSE IF members[i] = "-" /\ i < n /\ prior # ""
            THEN Code[c] \in Code[prior] .. Code[members[i + 1]] \/ from[i + 2, ""]
            ELSE members[i] = c \/ from[i + 1, members[i]]
    IN  from[1, ""]

\* What is behind a star: how many characters the question marks there take, and
\* the place of the character to go on with, which a backslash may quote.
BehindStar(p, i, escapes) ==
    LET plain == {k \in i + 1 .. Len(p) : p[k] \notin {"*", "?"}}
        at == IF plain = {} THEN Len(p) + 1 ELSE Min(plain)
        quoted == at <= Len(p) /\ escapes /\ p[at] = Slash
    IN  [skip |-> Cardinality({k \in i + 1 .. at - 1 : p[k] = "?"}),
         at |-> IF quoted THEN at + 1 ELSE at,
         quoted |-> quoted]

\* A set between brackets: whether it is inverted, where it ends, what it holds.
\* A closing bracket that comes first is a member.
Bracket(p, i) ==
    LET invert == i < Len(p) /\ p[i + 1] = "^"
        first == IF invert THEN i + 2 ELSE i + 1
        member == first <= Len(p) /\ p[first] = "]"
        begin == IF member THEN first + 1 ELSE first
        ends == {k \in begin .. Len(p) : p[k] = "]"}
        end == IF ends = {} THEN 0 ELSE Min(ends)
    IN  [invert |-> invert, end |-> end,
         of |-> SubSeq(p, begin, end - 1), also |-> IF member THEN {"]"} ELSE {}]

\* patternCompare, from the places i of the pattern and j of the name.  With
\* escapes, a backslash takes away what the next character means - but not from
\* a bracket.  A bracket right behind a star matches nothing.
patternCompare(p, s, escapes, fold) ==
    LET m == Len(p)
        n == Len(s)
        matches[i \in 1 .. m + 1, j \in 1 .. n + 1, escaped \in BOOLEAN] ==
            LET star == BehindStar(p, i, escapes)
                set == Bracket(p, i)
            IN  CASE i > m -> j > n
                  [] i <= m /\ p[i] = "*" /\ ~escaped ->
                         /\ star.skip <= n + 1 - j
                         /\ \/ star.at > m /\ ~star.quoted
                            \/ /\ star.at <= m /\ (star.quoted \/ p[star.at] # "[")
                               /\ \E k \in j + star.skip .. n :
                                      /\ Same(p[star.at], s[k], fold)
                                      /\ matches[star.at + 1, k + 1, FALSE]
                  [] i <= m /\ p[i] = "?" /\ ~escaped -> j <= n /\ matches[i + 1, j + 1, FALSE]
                  [] i <= m /\ p[i] = "[" ->
                         /\ escapes /\ j <= n /\ set.end # 0
                         /\ (s[j] \in set.also \/ InSet(set.of, s[j])) # set.invert
                         /\ matches[set.end + 1, j + 1, escaped]
                  [] i <= m /\ p[i] = Slash /\ escapes /\ ~escaped -> matches[i + 1, j, TRUE]
                  [] OTHER -> j <= n /\ Same(p[i], s[j], fold) /\ matches[i + 1, j + 1, FALSE]
    IN  matches[1, 1, FALSE]

fnmatch(p, s, escapes, fold) == patternCompare(p, s, escapes, fold)
strglob(p, s) == fnmatch(p, s, TRUE, FALSE)

-----------------------------------------------------------------------------
(* What they promise.                                                       *)

\* The parts of a path make it again, and the functions agree on them - but for
\* a path of one separator, in front, which basename() does not take away.
PathsAgree(s) ==
    LET info == ExtractPathInfo(s)
        in(part, t) == part \in DOMAIN pathinfo(s) /\ pathinfo(s)[part] = t
    IN  s # <<>> /\ s[Len(s)] # Sep =>
            /\ LastSep(s) > 0 =>
                   /\ in("basename", basename(s, <<>>))
                   /\ dirname(s) \o <<Sep>> \o basename(s, <<>>) = s
                   /\ info.dirname = RightTrimmed(dirname(s), {Sep})
                          \/ Range(dirname(s)) = {Sep}
            /\ LastSep(s) = NotFound => basename(s, <<>>) = s /\ in("basename", s)
            /\ LastSep(s) = 0 => in("dirname", <<Sep>>) /\ in("basename", Tail(s))
            /\ LET base == info.basename
               IN  IF "extension" \in DOMAIN pathinfo(s)
                   THEN /\ info.filename \o <<Dot>> \o info.extension = base
                        /\ basename(s, <<Dot>> \o info.extension) \o <<Dot>> \o info.extension
                               = basename(s, <<>>)
                   ELSE info.filename = base \/ base[Len(base)] = Dot

\* The language of a pattern: how much of the name each piece of it takes.  A
\* piece is any number of characters, one, a given one, or one of a set.
Takes(piece, t) ==
    CASE piece.kind = "any" -> TRUE
      [] piece.kind = "one" -> Len(t) = 1
      [] OTHER -> Len(t) = 1 /\ t[1] \in Range(piece.of)
InLanguage(pieces, s) ==
    \E cut \in [0 .. Len(pieces) -> 0 .. Len(s)] :
        /\ cut[0] = 0 /\ cut[Len(pieces)] = Len(s)
        /\ \A i \in DOMAIN pieces : /\ cut[i - 1] <= cut[i]
                                    /\ Takes(pieces[i], SubSeq(s, cut[i - 1] + 1, cut[i]))
Spelled(piece) ==
    CASE piece.kind = "any" -> <<"*">>
      [] piece.kind = "one" -> <<"?">>
      [] piece.kind = "quoted" -> <<Slash>> \o piece.of
      [] piece.kind = "letter" -> piece.of
      [] OTHER -> <<"[">> \o piece.of \o <<"]">>

\* A name matches a pattern exactly if it is in its language.  Patterns with a set
\* behind a star are left out: the code finds nothing for them.
MatchesRight(pieces, s) ==
    LET p == FlattenSeq([i \in DOMAIN pieces |-> Spelled(pieces[i])])
        starred == \E i \in DOMAIN pieces : pieces[i].kind = "set" /\
                      \E j \in 1 .. i - 1 : pieces[j].kind = "any" /\
                          \A k \in j + 1 .. i - 1 : pieces[k].kind \in {"any", "one"}
    IN  /\ ~starred => (strglob(p, s) <=> InLanguage(pieces, s))
        /\ strglob(p, s) => fnmatch(p, strtoupper(s), TRUE, TRUE) \/ \E i \in DOMAIN pieces :
                                                                   pieces[i].kind = "set"

=============================================================================
