------------------------------ MODULE CodeGen ------------------------------
(***************************************************************************)
(* The code generator for statements (engine/compiler.c): the stack of     *)
(* compiled blocks, the jump fixup tables and the byte code every control  *)
(* statement turns into.                                                   *)
(*                                                                         *)
(* A program maps function names to bodies, a body is a sequence of        *)
(* statements, a statement a record whose field s names its kind.          *)
(* Expressions are abstracted: a condition is evaluated by the jump that   *)
(* follows it, and an expression statement is one ECHO instruction.       *)
(* Instructions are numbered from 0, as in the code.                       *)
(*                                                                         *)
(* Every instruction carries a ghost, nest: the loop frames (0) and the    *)
(* exception frames (the number of the try statement) that the statement   *)
(* it belongs to is nested in, within its byte-code container.             *)
(***************************************************************************)
EXTENDS Integers, Sequences, FiniteSets, TLC, SequencesExt

\* The compilation state (ph7_gen_state): byte code per container, the
\* container in use, the stack of blocks, where in it the container starts,
\* try statements, switch tables, gotos and labels of the function, errors.
NewGenState ==
    [code |-> <<>>, cur |-> <<>>, blocks |-> <<>>, base |-> 0, exc |-> <<>>,
     switch |-> <<>>, gotos |-> {}, labels |-> {}, err |-> FALSE]

Here(g) == Len(g.code[g.cur])      \* PH7_VmInstrLength
Error(g) == [g EXCEPT !.err = TRUE]

\* The frames in which the statement being compiled will run.
Nest(g) ==
    LET inner  == SubSeq(g.blocks, g.base + 1, Len(g.blocks))
        framed == SelectSeq(inner, LAMBDA b : b.try # 0 \/ b.flags = {"LOOP"})
    IN  [i \in DOMAIN framed |-> framed[i].try]

Emit(g, op, p1, p2, p3) ==
    [g EXCEPT !.code[g.cur] =
        Append(@, [op |-> op, p1 |-> p1, p2 |-> p2, p3 |-> p3, nest |-> Nest(g)])]

SetContainer(g, c) == [g EXCEPT !.cur = c, !.base = Len(g.blocks),
                                !.code = IF c \in DOMAIN @ THEN @ ELSE @ @@ (c :> <<>>)]

EnterBlock(g, flags, post, try) ==
    [g EXCEPT !.blocks = Append(@, [flags |-> flags, nFirstInstr |-> Here(g),
                                    bPostContinue |-> post, try |-> try,
                                    aJumpFix |-> {}, aPostContFix |-> {}])]
LeaveBlock(g) == [g EXCEPT !.blocks = Front(@)]

\* The innermost block with one of the flags, or 0.  The search goes no
\* further than the block below a function's.
FetchBlock(g, flags) ==
    LET n    == Len(g.blocks)
        hits == {i \in 1 .. n : /\ g.blocks[i].flags \cap flags # {}
                                /\ \A j \in i .. n - 1 : "FUNC" \notin g.blocks[j].flags}
    IN  IF hits = {} THEN 0 ELSE Max(hits)

NewJumpFixup(g, b, type, idx) ==
    [g EXCEPT !.blocks[b].aJumpFix = @ \cup {<<type, idx>>}]

Patched(instrs, idxs, dest) ==
    [i \in DOMAIN instrs |-> IF i - 1 \in idxs THEN [instrs[i] EXCEPT !.p2 = dest]
                             ELSE instrs[i]]

\* The recorded indexes are looked up in the container in use now.
AllTypes == {"JMP", "JMPZ", "THROW", "LOAD_EXCEPTION", "FOREACH_INIT", "FOREACH_STEP"}
FixJumps(g, b, types, dest) ==
    LET hits == {f \in g.blocks[b].aJumpFix : f[1] \in types /\ f[2] < Here(g)}
    IN  [g EXCEPT !.blocks[b].aJumpFix = @ \ hits,
                  !.code[g.cur] = Patched(@, {f[2] : f \in hits}, dest)]
FixAll(g, b) == FixJumps(g, b, AllTypes, Here(g))

\* Emit an instruction and record it in the fixup table of block b.
EmitFix(g, b, op, p3) == NewJumpFixup(Emit(g, op, 0, 0, p3), b, op, Here(g))

RECURSIVE CompileBlock(_, _), CompileStatements(_, _)

CompileContinue(g) ==
    LET b == FetchBlock(g, {"LOOP"})
    IN  IF b = 0 \/ "SWITCH" \in g.blocks[b].flags THEN Error(g)
        ELSE IF g.blocks[b].bPostContinue
             THEN [Emit(g, "JMP", 0, g.blocks[b].nFirstInstr, 0) EXCEPT
                      !.blocks[b].aPostContFix = @ \cup {Here(g)}]
             ELSE Emit(Emit(g, "LF_STOP", 0, 0, 0), "JMP", 0, g.blocks[b].nFirstInstr, 0)

\* The jumps of continue, once the part after the body is reached.
KeepContinue(g, b) == g     \* mutant: they stay on the loop's first instruction
FixContinue(g, b) ==
    [g EXCEPT !.code[g.cur] = Patched(@, g.blocks[b].aPostContFix, Here(g))]

BreakPlain(g, b) == EmitFix(g, b, "JMP", 0)     \* mutant: the loop frame is kept
BreakTo(g, b) ==
    EmitFix(IF "SWITCH" \in g.blocks[b].flags THEN g ELSE Emit(g, "LF_STOP", 0, 0, 0),
            b, "JMP", 0)
CompileBreak(g) ==
    LET b == FetchBlock(g, {"LOOP"}) IN IF b = 0 THEN Error(g) ELSE BreakTo(g, b)

CompileLabel(g, l) ==
    IF FetchBlock(g, {"LOOP", "EXC"}) # 0 \/ \E x \in g.labels : x[1] = l
    THEN Error(g)
    ELSE [g EXCEPT !.labels = @ \cup {<<l, Here(g)>>}]

\* One LF_STOP, however many loops the goto leaves.
CompileGoto(g, l) ==
    LET blocks == {i \in DOMAIN g.blocks : g.blocks[i].flags \cap {"FUNC", "EXC"} # {}}
        jump   == Emit(Emit(g, "LF_STOP", 0, 0, 0), "JMP", 0, 0, 0)
    IN  IF "EXC" \in g.blocks[Max(blocks)].flags THEN Error(g)
        ELSE [jump EXCEPT !.gotos = @ \cup {<<l, Here(g) + 1>>}]

FixGoto(g) ==
    IF \E x \in g.gotos : \A y \in g.labels : y[1] # x[1] THEN Error(g)
    ELSE [g EXCEPT !.code[g.cur] =
            [i \in DOMAIN @ |->
                IF \E x \in g.gotos : x[2] = i - 1
                THEN LET x == CHOOSE x \in g.gotos : x[2] = i - 1
                         y == CHOOSE y \in g.labels : y[1] = x[1]
                     IN  [@[i] EXCEPT !.p2 = y[2]]
                ELSE @[i]]]

BackAlways(g, b, jump) ==     \* mutant: a do-while that does not test its condition
    LET end == Emit(Emit(g, "LF_STOP", 0, 0, 0), "JMP", 0, g.blocks[b].nFirstInstr, 0)
    IN  LeaveBlock(FixAll(end, b))
\* The end of a loop: leave the frame, jump back, fix the jumps out of it.
EndLoop(g, b, jump) ==
    LET end == Emit(Emit(g, "LF_STOP", 0, 0, 0), jump, 0, g.blocks[b].nFirstInstr, 0)
    IN  LeaveBlock(FixAll(end, b))

CompileWhile(g, body) ==
    LET b == Len(g.blocks) + 1
        test == EmitFix(EnterBlock(g, {"LOOP"}, FALSE, 0), b, "JMPZ", 0)
    IN  EndLoop(CompileBlock(Emit(test, "LF_START", 0, 0, 0), body), b, "JMP")

CompileDoWhile(g, body) ==
    LET b     == Len(g.blocks) + 1
        start == Emit(EnterBlock(g, {"LOOP"}, TRUE, 0), "LF_START", 0, 0, 0)
    IN  EndLoop(FixContinue(CompileBlock(start, body), b), b, "JMPNZ")

CompileFor(g, body, post) ==
    LET b    == Len(g.blocks) + 1
        test == EmitFix(EnterBlock(g, {"LOOP"}, TRUE, 0), b, "JMPZ", 0)
        loop == FixContinue(CompileBlock(Emit(test, "LF_START", 0, 0, 0), body), b)
    IN  EndLoop(CompileStatements(loop, post), b, "JMP")

CompileForeach(g, body) ==
    LET b    == Len(g.blocks) + 1
        init == EmitFix(EnterBlock(g, {"LOOP"}, FALSE, 0), b, "FOREACH_INIT", 0)
        step == EmitFix([init EXCEPT !.blocks[b].nFirstInstr = Here(init)],
                        b, "FOREACH_STEP", 0)
    IN  EndLoop(CompileBlock(Emit(step, "LF_START", 0, 0, 0), body), b, "JMP")

\* if, else if ..., else: each false jump is fixed before the next test.
CompileIf(g, bodies, else) ==
    LET b == Len(g.blocks) + 1
        n == Len(bodies)
        Clause(h, i) ==
            LET fixed == FixJumps(h, b, {"JMPZ"}, Here(h))
                done  == CompileBlock(EmitFix(fixed, b, "JMPZ", 0), bodies[i])
            IN  IF i < n \/ else # <<>> THEN EmitFix(done, b, "JMP", 0) ELSE done
        tests == FoldLeftDomain(Clause, EnterBlock(g, {"COND"}, FALSE, 0), bodies)
        last  == FixJumps(tests, b, {"JMPZ"}, Here(tests))
        all   == IF else # <<>> THEN CompileBlock(last, else) ELSE last
    IN  LeaveBlock(FixJumps(all, b, {"JMP"}, Here(all)))

\* throw new E(): to the innermost try, catch, finally or function block
CompileThrow(g, class) ==
    LET blocks == {i \in DOMAIN g.blocks : g.blocks[i].flags \cap {"EXC", "FUNC"} # {}}
    IN  EmitFix(Emit(g, "NEW", 0, 0, class), Max(blocks), "THROW", class)

\* A catch or finally block, in a container of its own.
CompileHandler(g, container, body) ==
    LET b     == Len(g.blocks) + 1
        block == CompileBlock(SetContainer(EnterBlock(g, {"EXC"}, FALSE, 0), container), body)
        done  == LeaveBlock(Emit(FixAll(block, b), "DONE", 0, 0, 0))
    IN  [SetContainer(done, g.cur) EXCEPT !.base = g.base]

CompileTry(g, s) ==
    LET e     == Len(g.exc) + 1
        b     == Len(g.blocks) + 1
        start == EnterBlock([g EXCEPT !.exc = Append(@, [classes |-> <<>>, finally |-> FALSE])],
                            {"EXC"}, FALSE, e)
        body  == CompileBlock(EmitFix(start, b, "LOAD_EXCEPTION", e), s.body)
        pop   == LeaveBlock(Emit(FixAll(body, b), "POP_EXCEPTION", 0, 0, e))
        Catch(h, i) ==
            [CompileHandler(h, <<"catch", e, i>>, s.catches[i].body) EXCEPT
                !.exc[e].classes = Append(@, s.catches[i].class)]
        caught == FoldLeftDomain(Catch, pop, s.catches)
    IN  IF s.catches = <<>> /\ s.finally = <<>> THEN Error(g)
        ELSE IF s.finally = <<>> THEN caught
        ELSE [CompileHandler(caught, <<"finally", e, 0>>, s.finally) EXCEPT
                !.exc[e].finally = TRUE]

CompileSwitch(g, cases) ==
    LET n == Len(g.switch) + 1
        b == Len(g.blocks) + 1
        start == EnterBlock([g EXCEPT !.switch =
                                Append(@, [aCaseExpr |-> <<>>, nDefault |-> 0, nOut |-> 0])],
                            {"LOOP", "SWITCH"}, FALSE, 0)
        Case(h, i) ==
            CompileStatements(
                IF cases[i].default THEN [h EXCEPT !.switch[n].nDefault = Here(h)]
                ELSE [h EXCEPT !.switch[n].aCaseExpr = Append(@, Here(h))], cases[i].body)
        body == FoldLeftDomain(Case, Emit(start, "SWITCH", 0, 0, n), cases)
    IN  LeaveBlock(FixAll([body EXCEPT !.switch[n].nOut = Here(body)], b))

CompileStatement(g, s) ==
    CASE g.err            -> g
      [] s.s = "print"    -> Emit(g, "ECHO", 0, 0, s.k)
      [] s.s = "if"       -> CompileIf(g, s.bodies, s.else)
      [] s.s = "while"    -> CompileWhile(g, s.body)
      [] s.s = "dowhile"  -> CompileDoWhile(g, s.body)
      [] s.s = "for"      -> CompileFor(g, s.body, s.post)
      [] s.s = "foreach"  -> CompileForeach(g, s.body)
      [] s.s = "switch"   -> CompileSwitch(g, s.cases)
      [] s.s = "continue" -> CompileContinue(g)
      [] s.s = "break"    -> CompileBreak(g)
      [] s.s = "label"    -> CompileLabel(g, s.l)
      [] s.s = "goto"     -> CompileGoto(g, s.l)
      [] s.s = "return"   -> Emit(g, "DONE", s.value, 0, 0)
      [] s.s = "exit"     -> Emit(g, "HALT", 0, 0, 0)
      [] s.s = "call"     -> Emit(g, "CALL", 0, 0, s.f)
      [] s.s = "throw"    -> CompileThrow(g, s.class)
      [] s.s = "try"      -> CompileTry(g, s)

CompileStatements(g, body) == FoldLeft(CompileStatement, g, body)
CompileBlock(g, body) ==
    LeaveBlock(CompileStatements(EnterBlock(g, {"STD"}, FALSE, 0), body))

Function(f) == <<f, 0, 0>>     \* the container of a function's byte code

\* The end of a function: the implicit return, then the gotos.
NoReturn(g) == [LeaveBlock(FixGoto(g)) EXCEPT !.gotos = {}, !.labels = {}]     \* mutant
EndFunc(g) ==
    [LeaveBlock(FixGoto(Emit(g, "DONE", 0, 0, 0))) EXCEPT !.gotos = {}, !.labels = {}]

CompileFuncBody(g, f, body) ==
    LET start == SetContainer(EnterBlock([g EXCEPT !.cur = Function(f),
                                                   !.code = @ @@ (Function(f) :> <<>>)],
                                         {"FUNC"}, FALSE, 0), Function(f))
        block == CompileBlock(start, body)
    IN  EndFunc(FixJumps(block, 1, {"THROW"}, Here(block)))

Compile(program) ==
    FoldLeft(LAMBDA g, f : CompileFuncBody(g, f, program[f]), NewGenState,
             SetToSeq(DOMAIN program))
=============================================================================
