----------------------------- MODULE MCLibrary -----------------------------
(* A small instance of Library for TLC: texts with two cases of a letter    *)
(* and spaces, with the characters that quoting and entities replace, and   *)
(* with those that names of files are made of; a reader and a writer of one *)
(* file of lines.                                                           *)
EXTENDS Library

MCCode == "a" :> 97 @@ "A" :> 65 @@ "1" :> 49 @@ "0" :> 48 @@ "2" :> 50 @@ " " :> 32
             @@ "'" :> 39 @@ "&" :> 38 @@ "\"" :> 34 @@ "\\" :> 92 @@ "/" :> 47 @@ "." :> 46

Over(letters, n) == UNION {[1 .. k -> letters] : k \in 0 .. n}
MCNames == Over({"a", "/", "."}, 3) \cup {s \in Over({"a", "/", "."}, 4) : Len(s) = 4 /\ s[2] = "/"}
MCTexts == Over({"a", "A", " "}, 3) \cup Over({"a", "'", "\"", "&"}, 3) \cup MCNames
MCUpperOf == "a" :> "A"
MCPatterns == {<<"a">>, <<"A">>, <<" ">>, <<"'", "a">>, <<"a", "a">>, <<"a", "A">>}
MCMasks == {{" "}, {"A", " "}}
MCTokenised == UNION {[1 .. k -> {"a", "A", " "}] : k \in 1 .. 3}

Piece(kind, of) == [kind |-> kind, of |-> of]
MCPieceKinds == {Piece("any", <<>>), Piece("one", <<>>), Piece("letter", <<"a">>),
                 Piece("quoted", <<".">>), Piece("set", <<"/", "a">>), Piece("set", <<".", "-", "/">>)}
MCGlobs == UNION {[1 .. k -> MCPieceKinds] : k \in 0 .. 2}

MCOpenings == {<<1, "p", "r">>, <<1, "p", "aplus">>, <<2, "p", "rplus">>, <<2, "p", "w">>}
MCWrites == {<<"\n", "a">>}
MCRows == {<<<<"a">>, <<"1">>>>}
=============================================================================
