----------------------------- MODULE TextCalls ------------------------------
(***************************************************************************)
(* A script that works on texts.  It either assigns a text and calls the     *)
(* functions of TextLib on it, or takes texts apart with strtok, whose       *)
(* tokenisations are a stack kept with the function (its aux data) between   *)
(* one call and the next: strtok(text, mask) starts one above the others,    *)
(* strtok(mask) goes on with the top one.  The script runs its tokenisations *)
(* as nested loops,                                                          *)
(*     $t = strtok(text, mask); while($t != "") { ... $t = strtok(mask); }   *)
(* and may leave the innermost with strtok("").  Memory does not run out.    *)
(***************************************************************************)
EXTENDS PathLib

CONSTANTS
    Texts,       \* texts that are assigned
    MaxText,     \* length of the longest (bound)
    Names,       \* the texts among them that are also used as names of files
    Globs,       \* patterns for those, as sequences of pieces
    Patterns,    \* texts that are searched for, lists of characters, ...
    Masks,       \* separators of tokens
    Tokenised,   \* texts that are tokenised
    MaxLoops     \* depth of the nested loops (bound)

VARIABLES
    text,        \* the text assigned last
    aux,         \* what is left of each text on the stack of strtok, top last
    loops,       \* the loops of the script: what each set out with, and got
    ended,       \* the loop that has just ended, as a sequence of at most one
    mixed        \* a loop whose tokenisation was not above the outer one

textVars == <<text, aux, loops, ended, mixed>>

-----------------------------------------------------------------------------
(* The functions that put texts together: an array joined may hold arrays. *)

\* implode_callback: an item is a text or, with implode_recursive, an array.
\* Empty texts take no separator, an array takes one and starts afresh.
Text(s) == [array |-> FALSE, of |-> s]
Array(items) == [array |-> TRUE, of |-> items]
RECURSIVE Imploded(_, _, _)
Imploded(sep, items, state) ==
    FoldLeft(LAMBDA r, item :
                 LET lead == IF r.bFirst THEN r.out ELSE r.out \o sep
                 IN  CASE item.array ->
                              Imploded(sep, item.of, [out |-> lead, bFirst |-> TRUE])
                       [] ~item.array /\ item.of # <<>> ->
                              [out |-> lead \o item.of, bFirst |-> FALSE]
                       [] OTHER -> r,
             state, items)
implode_recursive(sep, items) == Imploded(sep, items, [out |-> <<>>, bFirst |-> TRUE]).out
implode(sep, texts) == implode_recursive(sep, [i \in DOMAIN texts |-> Text(texts[i])])

wordwrap(s, n, brk) ==
    implode(IF brk = <<>> THEN NewLine ELSE brk, Chunks(s, IF n < 1 THEN 75 ELSE n))

-----------------------------------------------------------------------------
(* The script.                                                             *)

NoText == <<"unset">>
TextInit == text = NoText /\ aux = <<>> /\ loops = <<>> /\ ended = <<>> /\ mixed = FALSE

AssignText(s) ==
    /\ loops = <<>> /\ aux = <<>> /\ ended = <<>>
    /\ text' = s
    /\ UNCHANGED <<aux, loops, ended, mixed>>

\* ExtractToken: the token and the text from the character that ended it, or
\* <<>> if nothing is left but characters of the mask.
ExtractToken(s, mask) ==
    LET begin == {i \in DOMAIN s : s[i] \notin mask}
        end == {i \in DOMAIN s : s[i] \in mask /\ i > Min(begin)}
        at == IF end = {} THEN Len(s) + 1 ELSE Min(end)
    IN  IF begin = {} THEN <<>> ELSE <<SubSeq(s, Min(begin), at - 1), Drop(s, at - 1)>>

Top(seq) == seq[Len(seq)]

\* strtok(s, mask): nothing is kept when the first token ends the text.
KeptRest(rest) == IF rest = <<>> THEN <<>> ELSE <<rest>>
StartLoop(s, mask) ==
    LET token == ExtractToken(s, mask)
    IN  /\ text = NoText /\ Len(loops) < MaxLoops
        /\ token # <<>>
        /\ aux' = aux \o KeptRest(token[2])
        /\ loops' = Append(loops, [of |-> s, mask |-> mask, got |-> <<token[1]>>])
        /\ mixed' = (mixed \/ (token[2] = <<>> /\ loops # <<>>))
        /\ ended' = <<>> /\ UNCHANGED text

\* The aux data is freed and popped.
NotPopped == aux                 \* mutant: the tokenisation stays
Popped == IF aux = <<>> THEN aux ELSE Front(aux)

\* strtok(mask) in the innermost loop: a token, or the end of the top
\* tokenisation, which ends the loop.
GoOn ==
    LET loop == Top(loops)
        token == IF aux = <<>> THEN <<>> ELSE ExtractToken(Top(aux), loop.mask)
    IN  /\ loops # <<>>
        /\ IF token # <<>>
           THEN /\ aux' = Append(Front(aux), token[2])
                /\ loops' = [loops EXCEPT ![Len(loops)].got = Append(@, token[1])]
                /\ ended' = <<>>
           ELSE /\ aux' = Popped
                /\ loops' = Front(loops)
                /\ ended' = <<loop>>
        /\ UNCHANGED <<text, mixed>>

\* strtok("") gives the top tokenisation up, and the script its loop.
Leave ==
    /\ loops # <<>>
    /\ aux' = Popped
    /\ loops' = Front(loops)
    /\ ended' = <<>>
    /\ UNCHANGED <<text, mixed>>

TextNext ==
    \/ \E s \in Texts : AssignText(s)
    \/ \E s \in Tokenised, mask \in Masks : StartLoop(s, mask)
    \/ GoOn
    \/ Leave

TextSpec == TextInit /\ [][TextNext]_textVars

-----------------------------------------------------------------------------
(* Properties.                                                              *)

\* The runs of characters outside the mask, in order.
Words(s, mask) ==
    LET begins == {i \in DOMAIN s : s[i] \notin mask /\ (i = 1 \/ s[i - 1] \in mask)}
        length(i) == Min({j \in i .. Len(s) + 1 : j > Len(s) \/ s[j] \in mask}) - i
    IN  [k \in 1 .. Cardinality(begins) |->
            LET i == CHOOSE j \in begins : Cardinality({b \in begins : b <= j}) = k
            IN  SubSeq(s, i, i + length(i) - 1)]

\* However the loops of the script nest and are left, each gets the words of its
\* own text, in order and without a gap, and ends after the last: an outer loop
\* goes on where it was.  Except after an inner loop over a text of one word
\* with nothing behind it: strtok keeps nothing for that one, and the inner loop
\* takes the words of the outer.
TokensInOrder ==
    ~mixed =>
        /\ \A i \in DOMAIN loops : IsPrefix(loops[i].got, Words(loops[i].of, loops[i].mask))
        /\ \A i \in DOMAIN ended : ended[i].got = Words(ended[i].of, ended[i].mask)

InPosition(s, p, at) == SubSeq(s, at + 1, at + Len(p)) = p
Found(s, p) == {i \in 0 .. Len(s) - Len(p) : InPosition(s, p, i)}

\* A search finds the first place there is, or the last, and the functions that
\* cut, count or replace agree with it on where a pattern is.  Left out is the
\* search for a last place that is the very beginning, which the code passes over.
SearchesRight(s, p) ==
    LET found == Found(s, p)
        none == found = {}
        without == str_replace(<<p>>, <<<<>>>>, TRUE, s, FALSE)
    IN  /\ strpos(s, p, 0) = IF none THEN NotFound ELSE Min(found)
        /\ found # {0} => strrpos(s, p, 0) = IF none THEN NotFound ELSE Max(found)
        /\ \A n \in 0 .. Len(s) : n > 0 /\ n < Len(s) =>
               strpos(s, p, n) = IF \A i \in found : i < n THEN NotFound
                                 ELSE Min({i \in found : i >= n})
        /\ ~none =>
               /\ strstr(s, p, TRUE) \o strstr(s, p, FALSE) = s
               /\ substr(s, Min(found), <<Len(p)>>) = p
               /\ substr_compare(s, p, Min(found), <<Len(p)>>, FALSE) = <<0>>
               /\ stripos(strtoupper(s), p, 0) <= strpos(s, p, 0)
        /\ stripos(s, p, 0) = strpos(strtolower(s), strtolower(p), 0)
        /\ strripos(s, p, 0) = strrpos(strtoupper(s), strtoupper(p), 0)
        /\ stristr(s, p, FALSE) = No <=> stripos(s, p, 0) = NotFound
        /\ Len(s) - Len(without) = substr_count(s, p, 0, <<>>) * Len(p)
        /\ Len(p) = 1 =>
               /\ substr_count(s, p, 0, <<>>) = Cardinality(found)
               /\ strrchr(s, p) = IF none THEN No ELSE Drop(s, Max(found))
               /\ strpbrk(s, p) = strstr(s, p, FALSE)
               /\ strcspn(s, p, <<>>) + strspn(s, p, <<>>) <= Len(s)
               /\ (Range(s) \cap Spaces) = {} => \A i \in found : strcspn(s, p, <<>>) <= i
        /\ strcmp(s, p) = 0 <=> s = p
        /\ Sign(strcmp(s, p), 0) = -Sign(strcmp(p, s), 0)
        /\ strncmp(s, p, Len(p)) = 0 /\ s # <<>> => Min(found) = 0
        /\ strcasecmp(s, strtoupper(s)) = 0 /\ strncasecmp(s, strtolower(s), MaxText) = 0

\* What is taken apart can be put together: at a separator, by the length, by the
\* fields of a table, padded, trimmed, replaced.  Whether empty pieces are kept, and
\* what strtr makes of a second place, is left out.
Rejoined(s, p) ==
    LET pieces == explode(p, s, <<>>)
        without == str_replace(<<p>>, <<<<>>>>, TRUE, s, FALSE)
        list == Range(p)
    IN  /\ s # <<>> => /\ implode(<<>>, pieces) = without
                       /\ \A i \in DOMAIN pieces : Found(pieces[i], p) = {}
                       /\ Len(explode(p, s, <<2>>)) <= 2
        /\ \A n \in 1 .. MaxText :
              /\ n <= Len(s) => chunk_split(s, n, p) = wordwrap(s, n, p) \o p
              /\ \A side \in {"left", "right", "both"} :
                    LET padded == str_pad(s, 2 * n, p, side)
                    IN  /\ Len(padded) = Max({2 * n, Len(s)})
                        /\ s = <<>> \/ Found(padded, s) # {}
        /\ list \cap Range(trim(s, <<p>>)) = {} \/ trim(s, <<p>>)[1] \notin list
        /\ Len(ltrim(s, <<p>>)) # 1 => trim(s, <<p>>) = rtrim(ltrim(s, <<p>>), <<p>>)
        /\ Cardinality(Found(s, p)) = 1 =>
               strtr_array(s, <<<<p, <<>>>>>>)
                   = strstr(s, p, TRUE) \o Drop(strstr(s, p, FALSE), strlen(p))
        /\ s # <<>> => str_replace(<<s>>, <<p>>, TRUE, str_repeat(strtoupper(s), 2), TRUE)
                           = p \o p
        /\ implode_recursive(<<",">>, <<Text(s), Array(<<Text(p)>>)>>) = implode(<<",">>, <<s, p>>)
        /\ LET fields == [delim |-> ",", encl |-> "~", escape |-> Slash]
           IN  pieces # NoArray /\ Range(s) \cap (Spaces \cup {Slash}) = {} =>
                   str_getcsv(implode(<<",">>, pieces), fields) = pieces

\* The same for what needs no pattern: entities, quotes, marks, case, pieces of
\* one length, the text reversed.  Which mark of a line nl2br makes is left out.
Restored(s) ==
    LET dots == strtr(s, <<"a", " ">>, <<".", "\n">>)
        marks == <<<<"<", "b", "r", ">">>, <<"<", "b", "r", "/", ">">>>>
        gone(q, t) == str_replace(<<<<>>, q>>, <<<<>>>>, FALSE, t, FALSE)
    IN  /\ s # <<>> => /\ strrev(strrev(s)) = s
                       /\ strtolower(ucwords(s)) = strtolower(s)
                       /\ \A xhtml \in BOOLEAN :
                             gone(marks[1], gone(marks[2], nl2br(dots, xhtml))) = dots
                       /\ \A n \in 1 .. MaxText :
                             /\ FlattenSeq(str_split(s, n)) = s
                             /\ \A i \in 1 .. Len(str_split(s, n)) - 1 :
                                    Len(str_split(s, n)[i]) = n
        /\ \A flags \in SUBSET {"quotes", "noquotes"} :
              htmlspecialchars_decode(htmlspecialchars(s, flags), flags) = s
        /\ Slash \notin Range(s) => stripslashes(addslashes(s)) = s
        /\ addcslashes(s, <<"'", "\"", Slash>>) = addslashes(s)
        /\ Dot \notin Range(s) => strtr(dots, <<".", "\n">>, <<"a", " ">>) = s
        /\ Range(s) \cap Quotes = {} => gone(<<Slash>>, quotemeta(dots)) = dots
        /\ {strtolower(ucfirst(s)), strtolower(lcfirst(s))} = {strtolower(s)}
        /\ ltrim(s, <<>>) = LeftTrimmed(s, Spaces)
        /\ trim(s, <<>>) = rtrim(ltrim(s, <<>>), <<>>)

\* Both, for every text, and for the names of files what PathLib promises.
TextsAgree ==
    text # NoText =>
        /\ \A p \in Patterns : SearchesRight(text, p) /\ Rejoined(text, p)
        /\ Restored(text)
        /\ text \in Names => PathsAgree(text) /\ \A glob \in Globs : MatchesRight(glob, text)

=============================================================================
