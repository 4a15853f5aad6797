---------------------------- MODULE MCExpressions ----------------------------
(* Expressions of up to three operands.                                      *)
EXTENDS Expressions

MCVariables == {"$a", "$b", "$m", "$s", "$r", "$xs"}
MCIdentifiers == {"f", "int", "string"}
MCTexts == {"'x'", "'a$b'", "'$a'"}
Piece(literal, tok) == [literal |-> literal, toks |-> <<tok>>]
MCLiterals == [t \in {"0", "1", "2", "5", "9", "'x'", "1.5", "null", "v", "f", "int", "string"} |->
    CASE t = "0" -> Num(0) [] t = "1" -> Num(1) [] t = "2" -> Num(2) [] t = "5" -> Num(5)
      [] t = "9" -> Num(9) [] t = "'x'" -> Str("x") [] t = "1.5" -> Real(3) [] t = "v" -> Str("v")
      [] t = "null" -> Null [] OTHER -> Str(t)]
MCTemplates == [t \in {"'v$b'", "'$a'"} |->
    IF t = "'$a'" THEN <<Piece(FALSE, "$a")>> ELSE <<Piece(TRUE, "v"), Piece(FALSE, "$b")>>]
El(key, val) == [key |-> key, val |-> <<val>>]
MCArrayLiterals == [t \in {"{4,7}", "{1,'x'}", "{2=>$r}", "{}"} |->
    CASE t = "{4,7}" -> <<El(<<>>, "5"), El(<<>>, "9")>>
      [] t = "{1,'x'}" -> <<El(<<>>, "1"), El(<<>>, "'x'")>>
      [] t = "{}" -> <<>>
      [] OTHER -> <<El(<<"2">>, "$r")>>]
MCTypeOfName == [t \in {"int", "string"} |-> t]
MCHostCall(f, args) == IF Len(args) < 2 THEN Error
                       ELSE Num(2 * IntValue(args[1]) + IntValue(args[2]))
MCCode == [c \in {"1", "2", "5", "9", "0", "x", "v", "-", "."} |->
    CASE c = "0" -> 48 [] c = "1" -> 49 [] c = "2" -> 50 [] c = "5" -> 53 [] c = "9" -> 57
      [] c = "x" -> 120 [] c = "v" -> 118 [] c = "-" -> 45 [] OTHER -> 46]

Declared(type, name, init) == [type |-> type, name |-> name, init |-> init]
MCDeclarations == <<
    Declared(<<"int">>, "$a", <<"2">>), Declared(<<"int">>, "$b", <<>>),
    Declared(<<"mixed">>, "$m", <<"5">>), Declared(<<"string">>, "$s", <<"'x'">>),
    Declared(<<"real">>, "$r", <<"1.5">>), Declared(<<"array", "int">>, "$xs", <<"{4,7}">>)>>

\* Every operator between operands of every kind; then three operands.
Infix2 == InfixOps \ {"?", "is"}
Atoms2 == {<<"$a">>, <<"-", "$b">>, <<"$m">>, <<"++", "$a">>, <<"$a", "--">>, <<"$xs", "[", "1", "]">>,
           <<"$s">>, <<"1.5">>, <<"'v$b'">>, <<"$xs">>, <<"!", "$s">>, <<"(int)", "$r">>,
           <<"f", "(", "$a", ",", "2", ")">>, <<"(", "$a", "=", "1", ")">>, <<"{2=>$r}">>, <<"null">>}
Infix3 == {"-", "*", "<<", "<", "==", "&", "&&", "||", "??", "=", "+="}
Atoms3 == {<<"$a">>, <<"-", "$m">>, <<"$b", "++">>}
Odd == {<<"$a", "is", "int">>, <<"$xs", "is", "int", "[", "]">>, <<"$m", "is", "string">>,
        <<"$a", "?", "$b", "++", ":", "$a", "++">>, <<"$b", "?", "1", ":", "$a", "?", "2", ":", "5">>,
        <<"$b", "?", "1", ":", "$a", "=", "5">>, <<"$s", "[", "0", "]", "=", "'v$b'">>,
        <<"$s", "[", "5", "]", "=", "'v$b'">>, <<"$xs", "[", "9", "]">>, <<"(", "$a", "+", "2", ")", "*", "5">>,
        <<"$xs", "[", "9", "]", "=", "$b">>, <<"$xs", "[", "]", "=", "$r">>, <<"$xs", "[", "]", "=", "$a", "++">>}
Converting == {<<c, x>> : c \in Casts \cup {"~", "+"}, x \in MCVariables}
Pairs == {x \o <<o>> \o y : x \in Atoms2, o \in Infix2, y \in Atoms2}
Triples == {x \o <<o>> \o y \o <<p>> \o z :
                x \in Atoms3, y \in Atoms3, z \in Atoms3, o \in Infix3, p \in Infix3}
\* An array stored in a variable of another element type.
ArrayDeclarations == <<Declared(<<"array", "int">>, "$xs", <<"{4,7}">>),
                       Declared(<<"array", "real">>, "$r", <<>>)>>
ArrayStores == {<<"$r", "=", "$xs">>, <<"$xs", "=", "$r">>}
MCSources == Pairs \cup Triples \cup Odd \cup Converting

=============================================================================
