------------------------------ MODULE ExprTree ------------------------------
(***************************************************************************)
(* The expression parser (parser.c).  The nodes of an expression start as   *)
(* its tokens; one pass per precedence level replaces an operator and its   *)
(* operands with a tree, until one node is left.  A slot the passes empty   *)
(* is dropped from the sequence here.  An array literal is one token.       *)
(* Member access, new, clone, closures and the comma operator are left out. *)
(***************************************************************************)
EXTENDS Integers, FiniteSets, SequencesExt

CONSTANTS
    Variables,      \* tokens compiled by PH7_CompileVariable
    Identifiers,    \* names: of functions and of types (PH7_CompileLiteral)
    Texts           \* quoted texts (PH7_CompileSimpleString)

Casts == {"(int)", "(bool)", "(char)", "(string)", "(float)", "(callback)", "(resource)",
          "(void)"}
Prefix == {"neg", "pos", "~", "!"} \cup Casts
Assignments == {"=", "+=", "-=", "*=", "/=", "%=", "&=", "|=", "^=", "<<=", ">>="}

\* aOpTable and sFCallOp, by precedence
Levels == <<{"new", "clone"}, {"[", "call"}, {"++", "--"}, Prefix, {}, {"is"},
            {"*", "/", "%"}, {"+", "-"}, {"<<", ">>"}, {"<", ">", "<=", ">=", "<>"},
            {"==", "!="}, {"&"}, {"^"}, {"|"}, {"&&"}, {"^^"}, {"||"}, {"??"}, {"?"},
            Assignments>>
Operators == UNION {Levels[p] : p \in DOMAIN Levels}
Prec == [op \in Operators |-> CHOOSE p \in DOMAIN Levels : op \in Levels[p]]
HasPrec(tok, p) == tok \in Operators /\ Prec[tok] = p

Openers == {"(", "call", "[", "{"}
Closers == {")", "]", "}"}

-----------------------------------------------------------------------------
(* From tokens to nodes.                                                    *)

\* PH7_ExprExtractOperator: a sign is unary after what cannot end an operand.
SignIsUnary(toks, i) ==
    \/ i = 1
    \/ toks[i-1] \in {"(", "[", ":", ",", "-", "+"}
    \/ toks[i-1] \in Operators \ {"++", "--"}

\* ExprVerifyNodes: a parenthesis after what can be called starts a call.
StartsCall(toks, i) ==
    i > 1 /\ toks[i-1] \in Variables \cup Identifiers \cup Texts \cup Closers

Named(toks, i) ==
    CASE toks[i] = "-" /\ SignIsUnary(toks, i) -> "neg"
      [] toks[i] = "+" /\ SignIsUnary(toks, i) -> "pos"
      [] toks[i] = "(" /\ StartsCall(toks, i) -> "call"
      [] OTHER -> toks[i]

Leaf(tok) == [tok |-> tok, kids |-> <<>>, pre |-> FALSE]
Nodes(toks) == [i \in DOMAIN toks |-> Leaf(Named(toks, i))]

Count(toks, S, i) == Cardinality({k \in 1 .. i : toks[k] \in S})
\* ExprVerifyNodes: no closing token comes too early, none is missing.
Balanced(toks) ==
    \A p \in {<<"(", ")">>, <<"[", "]">>, <<"?", ":">>} :
        /\ \A i \in DOMAIN toks : Count(toks, {p[2]}, i) <= Count(toks, {p[1]}, i)
        /\ Count(toks, {p[1]}, Len(toks)) = Count(toks, {p[2]}, Len(toks))

-----------------------------------------------------------------------------
(* Nodes and trees.  The kids of a tree are pLeft, pRight and pCond; those  *)
(* of a call are the function and its arguments, of a subscript the array   *)
(* and the index.                                                           *)
Tree(n, kids) == [n EXCEPT !.kids = kids]
IsOperator(n) == n.tok \in Operators
Pending(n, p) == HasPrec(n.tok, p) /\ n.kids = <<>>
\* NODE_ISTERM
IsTerm(n) == ~IsOperator(n) \/ n.kids # <<>>
\* What a call, a subscript, ++ and -- apply to.
IsPrimary(n) == n.tok \in Variables \/ (HasPrec(n.tok, 2) /\ n.kids # <<>>)
\* ExprIsModifiableValue
RECURSIVE IsModifiable(_)
IsModifiable(n) ==
    \/ n.tok \in Variables
    \/ n.tok = "[" /\ n.kids # <<>> /\ (n.kids[1].tok = "[" \/ n.kids[1].tok \in Variables)
                   /\ IsModifiable(n.kids[1])

\* Nesting of nodes i to j.  A tree counts like the token it was made from.
Nesting(nodes, i, j, opens, closes) ==
    Cardinality({k \in i .. j : nodes[k].tok \in opens})
    - Cardinality({k \in i .. j : nodes[k].tok \in closes})
Matches(nodes, i, opens, closes) ==
    {j \in i + 1 .. Len(nodes) : nodes[j].tok \in closes /\ Nesting(nodes, i, j, opens, closes) <= 0}
Closing(nodes, i, opens, closes) == Min(Matches(nodes, i, opens, closes))

Replace(nodes, i, j, new) == SubSeq(nodes, 1, i - 1) \o new \o SubSeq(nodes, j + 1, Len(nodes))

-----------------------------------------------------------------------------
(* The passes over operators that need no bracket matching.                 *)

\* Postfix ++ and --: the operand stands before.
Postfix(nodes) ==
    FoldLeft(LAMBDA done, x :
                 IF Pending(x, 3) /\ done # <<>> /\ IsPrimary(Last(done))
                 THEN Append(Front(done), Tree(x, <<Last(done)>>))
                 ELSE Append(done, x), <<>>, nodes)

Unmarked(nodes) ==      \* mutant: a prefix operator is not told from a postfix one
    FoldRight(LAMBDA x, done :
                  IF Pending(x, 3) /\ done # <<>> /\ IsPrimary(Head(done))
                  THEN <<Tree(x, <<Head(done)>>)>> \o Tail(done)
                  ELSE <<x>> \o done, nodes, <<>>)
\* Prefix ++ and --: right to left, marked EXPR_NODE_PRE_INCR.
PreIncr(nodes) ==
    FoldRight(LAMBDA x, done :
                  IF Pending(x, 3) /\ done # <<>> /\ IsPrimary(Head(done))
                  THEN <<[Tree(x, <<Head(done)>>) EXCEPT !.pre = TRUE]>> \o Tail(done)
                  ELSE <<x>> \o done, nodes, <<>>)

\* Signs, casts, ! and ~: right to left.
Unary(nodes) ==
    FoldRight(LAMBDA x, done :
                  IF Pending(x, 4) /\ done # <<>> /\ IsTerm(Head(done))
                  THEN <<Tree(x, <<Head(done)>>)>> \o Tail(done)
                  ELSE <<x>> \o done, nodes, <<>>)

\* A binary operator between two terms, left to right.
Binary(nodes, p) ==
    FoldLeft(LAMBDA done, x :
                 LET n == Len(done)
                 IN  IF n >= 2 /\ Pending(done[n], p) /\ IsTerm(done[n-1]) /\ IsTerm(x)
                     THEN Append(SubSeq(done, 1, n - 2), Tree(done[n], <<done[n-1], x>>))
                     ELSE Append(done, x), <<>>, nodes)

\* ?? and the assignments, right to left: their left kid is the operand on
\* the right.  Only a plain assignment asks for a modifiable target.
RightAssoc(nodes, p) ==
    FoldRight(LAMBDA x, done :
                  IF /\ Len(done) >= 2 /\ Pending(done[1], p) /\ IsTerm(x) /\ IsTerm(done[2])
                     /\ done[1].tok = "=" => IsModifiable(x)
                  THEN <<Tree(done[1], <<done[2], x>>)>> \o SubSeq(done, 3, Len(done))
                  ELSE <<x>> \o done, nodes, <<>>)

-----------------------------------------------------------------------------
(* ExprMakeTree.                                                            *)
RECURSIVE MakeTree(_), Grouped(_), Arguments(_), Primaries(_, _)

\* Parentheses: the first group is replaced with its tree, then the others.
Grouped(nodes) ==
    LET open == {i \in DOMAIN nodes : nodes[i].tok = "(" /\ nodes[i].kids = <<>>}
        i == Min(open)
        j == Closing(nodes, i, {"(", "call"}, {")"})
    IN  IF open = {} \/ Matches(nodes, i, {"(", "call"}, {")"}) = {} THEN nodes
        ELSE Grouped(Replace(nodes, i, j, MakeTree(SubSeq(nodes, i + 1, j - 1))))

\* ExprProcessFuncArguments: cut at the commas outside brackets.
Arguments(nodes) ==
    LET commas == {i \in DOMAIN nodes : nodes[i].tok = "," /\ Nesting(nodes, 1, i, Openers, Closers) <= 0}
        cut == Min(commas)
    IN  IF nodes = <<>> THEN <<>>
        ELSE IF commas = {} THEN MakeTree(nodes)
        ELSE MakeTree(SubSeq(nodes, 1, cut - 1)) \o Arguments(SubSeq(nodes, cut + 1, Len(nodes)))

\* Calls and subscripts, left to right from node i.
Primaries(nodes, i) ==
    LET call == nodes[i].tok = "call"
        opens == IF call THEN {"(", "call"} ELSE {"["}
        closes == IF call THEN {")"} ELSE {"]"}
        j == Closing(nodes, i, opens, closes)
        inner == SubSeq(nodes, i + 1, j - 1)
        parts == <<nodes[i-1]>> \o (IF call THEN Arguments(inner) ELSE MakeTree(inner))
    IN  IF i > Len(nodes) THEN nodes
        ELSE IF /\ Pending(nodes[i], 2) /\ i > 1
                /\ IF call THEN IsTerm(nodes[i-1])
                   ELSE \/ IsPrimary(nodes[i-1]) \/ nodes[i-1].tok \in Texts
                        \/ nodes[i-1].tok \in Identifiers /\ inner = <<>>
                /\ Matches(nodes, i, opens, closes) # {}
        THEN Primaries(Replace(nodes, i - 1, j, <<Tree(nodes[i], parts)>>), i)
        ELSE Primaries(nodes, i + 1)

\* The first ?: what follows its colon is the else part, to the very end.
Ternary(nodes) ==
    LET questions == {i \in DOMAIN nodes : Pending(nodes[i], 19)}
        i == Min(questions)
        depth(k) == Cardinality({q \in questions : q \in i .. k})
                    - Cardinality({q \in i .. k : nodes[q].tok = ":"})
        colons == {k \in i .. Len(nodes) : nodes[k].tok = ":" /\ depth(k) <= 0}
        j == Min(colons)
        then == MakeTree(SubSeq(nodes, i + 1, j - 1))
        else == MakeTree(SubSeq(nodes, j + 1, Len(nodes)))
    IN  IF questions = {} \/ i = 1 \/ ~IsTerm(nodes[i-1]) \/ colons = {} THEN nodes
        ELSE Append(SubSeq(nodes, 1, i - 2), Tree(nodes[i], then \o else \o <<nodes[i-1]>>))

BinaryLevels(nodes) == FoldLeft(Binary, nodes, [k \in 1 .. 12 |-> k + 5])

MakeTree(nodes) ==
    IF Len(nodes) = 1 /\ ~IsOperator(nodes[1]) THEN nodes
    ELSE LET operands == Unary(PreIncr(Postfix(Primaries(Grouped(nodes), 1))))
         IN  RightAssoc(Ternary(RightAssoc(BinaryLevels(operands), 18)), 20)

\* The passes leave one tree whose operators all have their operands.
RECURSIVE Complete(_)
Complete(n) ==
    /\ n.tok \notin Openers \ {"call", "["} /\ n.tok \notin Closers \cup {":", ","}
    /\ IsTerm(n)
    /\ n.tok = "?" => Len(n.kids) = 3
    /\ \A i \in DOMAIN n.kids : Complete(n.kids[i])

\* PH7_ExprMakeTree
Parsed(toks) == MakeTree(Nodes(toks))
Accepted(toks) ==
    Balanced(toks) /\ \A trees \in {Parsed(toks)} : Len(trees) = 1 /\ Complete(trees[1])
ParseTree(toks) == Parsed(toks)[1]

=============================================================================
