------------------------------ MODULE ExprCode ------------------------------
(***************************************************************************)
(* Code generation for expressions and declarations (compiler.c): from the  *)
(* tree of an expression to instructions.  An instruction has its operation *)
(* and its operands p1 and p2, and p3, a name or a literal.  A jump goes to *)
(* the number of an instruction, counted from 1.                            *)
(***************************************************************************)
EXTENDS ExprTree

CONSTANTS
    Literals,       \* function: the value of a number, a text or a name
    ArrayLiterals,  \* function: the entries of an array literal, as tokens
    Templates,      \* function: the pieces of a quoted text with variables
    TypeOfName      \* function: the value type a type name stands for

Instr(op, p1, p2, p3) == [op |-> op, p1 |-> p1, p2 |-> p2, p3 |-> p3]

\* aOpTable: the instruction of an operator
OpCode(tok) ==
    CASE tok = "(int)" -> "CVT_INT"     [] tok = "(bool)" -> "CVT_BOOL"
      [] tok = "(char)" -> "CVT_CHAR"   [] tok = "(string)" -> "CVT_STR"
      [] tok = "(float)" -> "CVT_REAL"  [] tok = "(callback)" -> "CVT_CALL"
      [] tok = "(resource)" -> "CVT_RES" [] tok = "(void)" -> "CVT_VOID"
      [] tok = "neg" -> "UMINUS"        [] tok = "pos" -> "UPLUS"
      [] tok = "!" -> "LNOT"            [] tok = "~" -> "BITNOT"
      [] tok = "++" -> "INCR"           [] tok = "--" -> "DECR"
      [] tok = "<>" -> "!="             [] tok = "=" -> "STORE"
      [] tok = "call" -> "CALL"         [] tok = "[" -> "LOAD_IDX"
      [] tok = "is" -> "IS"             [] OTHER -> tok

-----------------------------------------------------------------------------
(* PH7_GenStateEmitExprCode.  at is the number of the next instruction; idx *)
(* is EXPR_FLAG_LOAD_IDX_STORE: subscripts create what they do not find.    *)
RECURSIVE Emit(_, _, _), EmitAll(_, _, _), EmitArray(_, _), EmitTemplate(_, _)

\* Trees one after the other.
EmitAll(trees, at, idx) ==
    FoldLeft(LAMBDA code, t : code \o Emit(t, at + Len(code), idx), <<>>, trees)

\* PH7_CompileArray: a key, or NULL where there is none, then the value.
EmitArray(entries, at) ==
    LET step(code, e) ==
            LET key == IF e.key = <<>> THEN <<Instr("LOADC", 0, 0, Literals["null"])>>
                       ELSE Emit(ParseTree(e.key), at + Len(code), FALSE)
                next == at + Len(code) + Len(key)
            IN  code \o key \o Emit(ParseTree(e.val), next, FALSE)
    IN  FoldLeft(step, <<>>, entries) \o <<Instr("LOAD_MAP", 2 * Len(entries), 0, "")>>

\* PH7_GenStateCompileString: a piece is a literal text or an expression.  One
\* piece alone is loaded as it is.
EmitTemplate(pieces, at) ==
    LET step(code, piece) ==
            code \o IF piece.literal THEN <<Instr("LOADC", 0, 0, Literals[piece.toks[1]])>>
                    ELSE Emit(ParseTree(piece.toks), at + Len(code), FALSE)
        loads == FoldLeft(step, <<>>, pieces)
    IN  IF Len(pieces) > 1 THEN Append(loads, Instr("+", Len(pieces), 1, "")) ELSE loads

\* The leaves: PH7_CompileVariable, PH7_GenStateLoadLiteral, PH7_CompileArray
EmitLeaf(tok, at) ==
    CASE tok \in Variables -> <<Instr("LOADV", 0, 0, tok)>>
      [] tok \in DOMAIN ArrayLiterals -> EmitArray(ArrayLiterals[tok], at)
      [] tok \in DOMAIN Templates -> EmitTemplate(Templates[tok], at)
      [] tok \in Identifiers -> <<Instr("LOADC", 1, 0, Literals[tok])>>
      [] OTHER -> <<Instr("LOADC", 0, 0, Literals[tok])>>

\* c ? x : y
EmitTernary(n, at, idx) ==
    LET cond == Emit(n.kids[3], at, idx)
        jz == at + Len(cond)
        then == Emit(n.kids[1], jz + 1, idx)
        jmp == jz + 1 + Len(then)
        else == Emit(n.kids[2], jmp + 1, idx)
    IN  cond \o <<Instr("JMPZ", 0, jmp + 1, "")>> \o then
             \o <<Instr("JMP", 0, jmp + 1 + Len(else), "")>> \o else

\* The arguments of a call come before the function, whose name is not
\* looked up as a constant.
EmitCall(n, at, idx) ==
    LET args == EmitAll(Tail(n.kids), at, FALSE)
        callee == Emit(n.kids[1], at + Len(args), idx)
        last == [Last(callee) EXCEPT !.p1 = IF Last(callee).op = "LOADC" THEN 0 ELSE @]
    IN  args \o Front(callee) \o <<last, Instr("CALL", Len(n.kids) - 1, 0, "")>>

EmitIndex(n, at, idx) ==
    LET base == Emit(n.kids[1], at, idx)
        index == EmitAll(Tail(n.kids), at + Len(base), FALSE)
    IN  base \o index \o <<Instr("LOAD_IDX", Len(n.kids) - 1, IF idx THEN 1 ELSE 0, "")>>

\* && and || jump over their right operand, keeping the value of the left.
EmitEager(n, at, idx) ==       \* mutant: the right operand is always evaluated
    EmitAll(n.kids, at, idx) \o <<Instr(n.tok, 0, 0, "")>>
EmitLogical(n, at, idx) ==
    LET left == Emit(n.kids[1], at, idx)
        jump == at + Len(left)
        right == Emit(n.kids[2], jump + 1, idx)
        op == IF n.tok = "&&" THEN "JMPZ" ELSE "JMPNZ"
    IN  left \o <<Instr(op, 1, jump + 2 + Len(right), "")>> \o right
             \o <<Instr(n.tok, 0, 0, "")>>

\* The value, then the target, whose last instruction is taken back: the
\* store names the variable, or takes over the index of the element.
EmitStore(n, at, idx) ==
    LET value == Emit(n.kids[1], at, idx)
        target == Emit(n.kids[2], at + Len(value), idx)
        store == IF Last(target).op = "LOAD_IDX" THEN Instr("STORE_IDX", Last(target).p1, 0, "")
                 ELSE Instr("STORE", 0, 0, Last(target).p3)
    IN  value \o Front(target) \o <<store>>

\* value is type, and value is type[]
EmitIs(n, at, idx) ==
    LET value == Emit(n.kids[1], at, idx)
        name == n.kids[2]
        type == IF name.tok = "[" THEN <<"array", TypeOfName[name.kids[1].tok]>>
                ELSE <<TypeOfName[name.tok]>>
    IN  value \o Emit(IF name.tok = "[" THEN name.kids[1] ELSE name, at + Len(value), idx)
              \o <<Instr("IS", 0, type, "")>>

\* The flag that makes subscripts create elements is set for precedence 18.
EmitOther(n, at, idx) ==
    LET left == Emit(n.kids[1], at, idx)
        right == IF Len(n.kids) = 1 THEN <<>>
                 ELSE Emit(n.kids[2], at + Len(left), idx \/ HasPrec(n.tok, 18))
    IN  left \o right \o <<Instr(OpCode(n.tok), IF n.pre THEN 1 ELSE 0, 0, "")>>

Emit(n, at, idx) ==
    CASE n.kids = <<>> -> EmitLeaf(n.tok, at)
      [] n.tok = "?" -> EmitTernary(n, at, idx)
      [] n.tok = "call" -> EmitCall(n, at, idx)
      [] n.tok = "[" -> EmitIndex(n, at, idx)
      [] n.tok \in {"&&", "||"} -> EmitLogical(n, at, idx)
      [] n.tok = "=" -> EmitStore(n, at, idx)
      [] n.tok = "is" -> EmitIs(n, at, idx)
      [] OTHER -> EmitOther(n, at, idx)

\* A statement made of an expression: its value is dropped.
ExpressionCode(toks, at) ==
    Append(Emit(ParseTree(toks), at, FALSE), Instr("POP", 1, 0, ""))

\* PH7_CompileVar: type $name = initializer;
DeclarationCode(d, at) ==
    LET declare == <<Instr("DECLARE", 0, d.type, d.name), Instr("POP", 1, 0, "")>>
    IN  IF d.init = <<>> THEN declare
        ELSE declare \o ExpressionCode(<<d.name, "=">> \o d.init, at + 2)

=============================================================================
