----------------------------- MODULE VmControl -----------------------------
(***************************************************************************)
(* How the virtual machine (engine/vm.c) runs the byte code of CodeGen:    *)
(* jumps, loop frames, calls, exceptions and their catch and finally       *)
(* blocks.  VmByteCodeExec calls itself for each of these; an activation   *)
(* is one such call and acts is the C stack.                               *)
(*                                                                         *)
(* Conditions, case comparisons and foreach steps are answered either way  *)
(* (asked records how), at most MaxAsked of them with TRUE or FALSE and    *)
(* all later ones with FALSE.  Operand stacks are left out, and frames are *)
(* identified with their depth.  No exception handler is set, and the      *)
(* constructors of exceptions return normally.                             *)
(***************************************************************************)
EXTENDS CodeGen

CONSTANTS Programs,     \* the programs, as a sequence
          MaxAsked      \* bound on the answers that may be TRUE

Semantics == INSTANCE ScriptSemantics

VARIABLES
    prog,        \* the program that runs
    gen,         \* what the code generator left of it: byte code and tables
    frames,      \* pVm->pFrame and its parents, the global frame first
    acts,        \* activations of VmByteCodeExec, innermost last
    aException,  \* pVm->aException: the try statements entered
    pFrame,      \* pException->pFrame, as a depth; 0 is no frame
    released,    \* try statements whose sFinally was released
    out,         \* what the script printed
    asked,       \* the answers given so far
    status       \* "run", or how the program ended

vars == <<prog, gen, frames, acts, aException, pFrame, released, out, asked, status>>
machine == <<prog, gen, out, asked, status>>
handlers == <<aException, pFrame, released>>

Act == Last(acts)
Caller == acts[Len(acts) - 1]
InstrOf(a) == gen.code[a.code][a.pc + 1]
Instr == InstrOf(Act)

\* VmByteCodeExec from the first instruction of a container.  frame is the
\* frame entered for it, exc the try statement a catch or finally block
\* belongs to, rcc what the catch block before it returned.
Activation(kind, code, frame, exc, rcc) ==
    [kind |-> kind, code |-> code, pc |-> 0, frame |-> frame, exc |-> exc,
     rcc |-> rcc, rc |-> "run"]

Frame(flags, jump) == [flags |-> flags, jump |-> jump]
Has(fs, d, flag) == d \in DOMAIN fs /\ flag \in fs[d].flags
Flag(fs, flag) == Has(fs, Len(fs), flag)

Init ==
    /\ prog \in DOMAIN Programs
    /\ gen = Compile(Programs[prog])
    /\ ~gen.err
    /\ frames = <<Frame({}, 0), Frame({"ACTIVE"}, 0)>>
    /\ acts = <<Activation("main", Function("main"), 2, 0, "OK")>>
    /\ aException = <<>>
    /\ pFrame = [e \in DOMAIN gen.exc |-> 0]
    /\ released = {}
    /\ out = <<>> /\ asked = <<>>
    /\ status = "run"

Leave(fs) == IF fs = <<>> THEN fs ELSE Front(fs)     \* VmLeaveFrame

\* The frames below which a frame is not an exception frame.
SkipExceptions(fs) ==
    Max({d \in DOMAIN fs : d = 1 \/ "EXCEPTION" \notin fs[d].flags})

\* OP_DONE with a result, in the top frame: leave all loops of the function.
KeepLoops(fs) == fs     \* mutant: the unwinding is left out
LeaveLoops(fs) ==
    IF ~Flag(fs, "LOOP") THEN fs
    ELSE SubSeq(fs, 1, Max({d \in DOMAIN fs : d = 1 \/ "ACTIVE" \in fs[d].flags}))

SetPc(pc) == acts' = [acts EXCEPT ![Len(acts)].pc = pc]
Step == SetPc(Act.pc + 1)
Running(op) == status = "run" /\ Act.rc = "run" /\ frames # <<>> /\ Instr.op = op
EndAct(rc) == acts' = [acts EXCEPT ![Len(acts)].rc = rc]

\* Answers to conditions, case comparisons and foreach steps, in order.
Answers(bs) ==
    /\ \A i \in DOMAIN bs : bs[i] => Len(asked) + i <= MaxAsked
    /\ asked' = SubSeq(asked \o bs, 1, Min({MaxAsked, Len(asked) + Len(bs)}))

\* A call of a function that only prints.
Echo ==
    /\ Running("ECHO")
    /\ out' = Append(out, Instr.p3)
    /\ Step
    /\ UNCHANGED <<prog, gen, frames, handlers, asked, status>>

Jmp ==
    /\ Running("JMP")
    /\ SetPc(Instr.p2)
    /\ UNCHANGED <<machine, frames, handlers>>

\* JMPZ, JMPNZ
JumpIf(op, b) ==
    /\ Running(op)
    /\ Answers(<<b>>)
    /\ IF b = (op = "JMPNZ") THEN SetPc(Instr.p2) ELSE Step
    /\ UNCHANGED <<prog, gen, out, status, frames, handlers>>

LfStart ==
    /\ Running("LF_START")
    /\ frames' = Append(frames, Frame({"LOOP"}, 0))
    /\ Step
    /\ UNCHANGED <<machine, handlers>>

LfStop ==
    /\ Running("LF_STOP")
    /\ frames' = IF Flag(frames, "LOOP") THEN Leave(frames) ELSE frames
    /\ Step
    /\ UNCHANGED <<machine, handlers>>

\* The value is an array; FOREACH_STEP tells whether there is another entry.
ForeachInit ==
    /\ Running("FOREACH_INIT")
    /\ Step
    /\ UNCHANGED <<machine, frames, handlers>>

ForeachStep(b) ==
    /\ Running("FOREACH_STEP")
    /\ Answers(<<b>>)
    /\ IF b THEN Step ELSE SetPc(Instr.p2)
    /\ UNCHANGED <<prog, gen, out, status, frames, handlers>>

\* OP_SWITCH: the n-th case is the first that compares equal.  Every case
\* expression compared is byte code that ends in OP_DONE with a result.
Switch(n) ==
    /\ Running("SWITCH")
    /\ LET table == gen.switch[Instr.p3]
           cases == Len(table.aCaseExpr)
       IN  /\ n \in 1 .. cases + 1
           /\ Answers([i \in 1 .. Min({n, cases}) |-> i = n])
           /\ SetPc(IF n <= cases THEN table.aCaseExpr[n]
                    ELSE IF table.nDefault > 0 THEN table.nDefault ELSE table.nOut)
           /\ frames' = IF cases > 0 THEN LeaveLoops(frames) ELSE frames
    /\ UNCHANGED <<prog, gen, out, status, handlers>>

\* new Exception(): the default values of the attributes are byte code that
\* ends in OP_DONE with a result, too.
New ==
    /\ Running("NEW")
    /\ frames' = LeaveLoops(frames)
    /\ Step
    /\ UNCHANGED <<machine, handlers>>

Call ==
    /\ Running("CALL")
    /\ frames' = Append(frames, Frame({"ACTIVE"}, 0))
    /\ acts' = Append(acts, Activation("call", Function(Instr.p3), Len(frames) + 1, 0, "OK"))
    /\ UNCHANGED <<machine, handlers>>

Done ==
    /\ Running("DONE")
    /\ frames' = IF Instr.p1 # 0 THEN LeaveLoops(frames) ELSE frames
    /\ EndAct("OK")
    /\ UNCHANGED <<machine, handlers>>

Halt ==
    /\ Running("HALT")
    /\ EndAct("ABORT")
    /\ UNCHANGED <<machine, frames, handlers>>

LoadException ==
    /\ Running("LOAD_EXCEPTION")
    /\ aException' = Append(aException, Instr.p3)
    /\ frames' = Append(frames, Frame({"EXCEPTION"}, Instr.p2))
    /\ pFrame' = [pFrame EXCEPT ![Instr.p3] = SkipExceptions(frames)]
    /\ Step
    /\ UNCHANGED <<machine, released>>

HasFinally(e) == gen.exc[e].finally /\ e \notin released

\* VmExecFinallyBlock, entered with the frames fs and the activations as.
EnterFinally(fs, as, kind, e, rcc) ==
    /\ frames' = Append(fs, Frame({"FINALLY"}, 0))
    /\ acts' = Append(as, Activation(kind, <<"finally", e, 0>>, Len(fs) + 1, e, rcc))

KeepTop == aException     \* mutant: the try statement is not popped
PopTop == Leave(aException)

PopException ==
    /\ Running("POP_EXCEPTION")
    /\ LET e == Instr.p3
           top == aException # <<>> /\ Last(aException) = e
       IN  IF top /\ HasFinally(e)
           THEN /\ EnterFinally(frames, acts, "pop_finally", e, "OK")
                /\ UNCHANGED <<aException, pFrame>>
           ELSE /\ aException' = IF top THEN PopTop ELSE aException
                /\ pFrame' = [pFrame EXCEPT ![e] = 0]
                /\ frames' = Leave(frames)
                /\ Step
    /\ UNCHANGED <<machine, released>>

\* The class of a thrown object is a class the script derives from Exception.
InstanceOf(class, base) == class = base \/ base = "Exception"

AnyClass(e, class) == DOMAIN gen.exc[e].classes     \* mutant: the class is ignored
CatchesOf(e, class) ==
    {j \in DOMAIN gen.exc[e].classes : InstanceOf(class, gen.exc[e].classes[j])}

\* VmThrowException leaves the rest of the work to EndCatch and EndFinally.
KeepThrow(fs, f, e) == fs     \* mutant: the flag of a caught exception stays
ClearThrow(fs, f, e) ==
    IF pFrame[e] = f THEN [fs EXCEPT ![f].flags = @ \ {"THROW"}] ELSE fs

Throw ==
    /\ Running("THROW")
    /\ LET f      == SkipExceptions(frames)
           thrown == [frames EXCEPT ![f].flags = @ \cup {"THROW"}]
           e      == Last(aException)
           hits   == CatchesOf(e, Instr.p3)
           caught == ClearThrow(thrown, f, e)
       IN  IF aException = <<>>
           THEN /\ status' = "uncaught"
                /\ frames' = thrown
                /\ UNCHANGED <<acts, aException>>
           ELSE /\ aException' = Front(aException)
                /\ IF hits # {}
                   THEN /\ frames' = Append(caught, Frame({"CATCH"}, 0))
                        /\ acts' = Append(acts, Activation("catch", <<"catch", e, Min(hits)>>,
                                                           Len(frames) + 1, e, "OK"))
                        /\ UNCHANGED status
                   ELSE IF HasFinally(e)
                   THEN /\ EnterFinally(thrown, acts, "throw_finally", e, "UNCAUGHT")
                        /\ UNCHANGED status
                   ELSE /\ status' = "uncaught"
                        /\ frames' = thrown
                        /\ UNCHANGED acts
    /\ UNCHANGED <<prog, gen, pFrame, released, out, asked>>

\* An activation ends: its caller goes on at pc, or ends as well.
Resume(rc, pc) ==
    LET below == Front(acts)
        n     == Len(below)
    IN  acts' = IF rc = "OK" THEN [below EXCEPT ![n].pc = pc] ELSE [below EXCEPT ![n].rc = rc]
Ended(kind) == status = "run" /\ Act.kind = kind /\ Act.rc # "run"

\* The rest of OP_THROW: only an abort ends the activation that threw.
FinishThrow(rc) == Resume(IF rc = "ABORT" THEN rc ELSE "OK", InstrOf(Caller).p2)

EndCatch ==
    /\ Ended("catch")
    /\ IF HasFinally(Act.exc)
       THEN EnterFinally(Leave(frames), Front(acts), "throw_finally", Act.exc, Act.rc)
       ELSE frames' = Leave(frames) /\ FinishThrow(Act.rc)
    /\ UNCHANGED <<machine, handlers>>

\* rcc | rcf, of two results that are negative numbers unless they are OK
Combined(rcc, rcf) ==
    IF rcc = "OK" \/ rcc = rcf THEN rcf ELSE IF rcf = "OK" THEN rcc ELSE "neither"

EndThrowFinally ==
    /\ Ended("throw_finally")
    /\ frames' = Leave(frames)
    /\ released' = released \cup {Act.exc}
    /\ IF Act.rcc = "UNCAUGHT" THEN status' = "uncaught" /\ UNCHANGED acts
       ELSE FinishThrow(Combined(Act.rcc, Act.rc)) /\ UNCHANGED status
    /\ UNCHANGED <<prog, gen, aException, pFrame, out, asked>>

EndPopFinally ==
    /\ Ended("pop_finally")
    /\ IF Act.rc = "ABORT"
       THEN /\ frames' = Leave(frames)
            /\ Resume("ABORT", 0)
            /\ UNCHANGED <<aException, pFrame>>
       ELSE /\ frames' = Leave(Leave(frames))
            /\ aException' = PopTop
            /\ pFrame' = [pFrame EXCEPT ![Act.exc] = 0]
            /\ Resume("OK", Caller.pc + 1)
    /\ UNCHANGED <<machine, released>>

\* OP_CALL after the body.  The callee's frame may have been left already;
\* the flag read from it is then whatever its memory holds.
EndCall(flag) ==
    /\ Ended("call")
    /\ flag \in IF Act.frame \in DOMAIN frames THEN {Has(frames, Act.frame, "THROW")}
                ELSE BOOLEAN
    /\ LET parent == Act.frame - 1
           thrown == Act.rc # "ABORT" /\ (flag \/ Act.rc = "EXCEPTION")
           jump   == /\ thrown /\ parent > 1
                     /\ Has(frames, parent, "EXCEPTION") /\ frames[parent].jump > 0
       IN  Resume(IF jump \/ (thrown /\ parent <= 1) THEN "OK"
                  ELSE IF thrown THEN "EXCEPTION" ELSE Act.rc,
                  IF jump THEN frames[parent].jump ELSE Caller.pc + 1)
    /\ frames' = Leave(frames)
    /\ UNCHANGED <<machine, handlers>>

EndMain ==
    /\ Ended("main")
    /\ frames' = Leave(frames)
    /\ acts' = <<>>
    /\ status' = IF Act.rc = "ABORT" THEN "exit" ELSE "done"
    /\ UNCHANGED <<prog, gen, handlers, out, asked>>

\* The program has ended.
Stopped == status # "run" /\ UNCHANGED vars

Next ==
    \/ Echo \/ Jmp \/ LfStart \/ LfStop \/ ForeachInit \/ New \/ Call \/ Done \/ Halt
    \/ \E op \in {"JMPZ", "JMPNZ"}, b \in BOOLEAN : JumpIf(op, b)
    \/ \E b \in BOOLEAN : ForeachStep(b)
    \/ \E n \in 1 .. 4 : Switch(n)
    \/ LoadException \/ PopException \/ Throw
    \/ EndCatch \/ EndThrowFinally \/ EndPopFinally
    \/ \E flag \in BOOLEAN : EndCall(flag)
    \/ EndMain
    \/ Stopped

\* One thread runs the byte code without waiting for anything.
Spec == Init /\ [][Next]_vars /\ WF_vars(Next)

(***************************************************************************)
(* Properties.                                                             *)
(***************************************************************************)
Flags == {"ACTIVE", "LOOP", "EXCEPTION", "THROW", "CATCH", "FINALLY"}

\* Every variable has its type, and every activation stands on an instruction
\* of its container: no jump and no fall-through runs off the byte code
\* (PH7_VmEmitInstr, PH7_GenStateFixJumps, VmByteCodeExec).
TypeOK ==
    /\ prog \in DOMAIN Programs
    /\ \A d \in DOMAIN frames : frames[d].flags \subseteq Flags /\ frames[d].jump \in Nat
    /\ \A i \in DOMAIN acts :
          /\ acts[i].code \in DOMAIN gen.code
          /\ acts[i].pc \in 0 .. Len(gen.code[acts[i].code]) - 1
          /\ acts[i].rc \in {"run", "OK", "ABORT", "EXCEPTION", "neither"}
    /\ \A i \in DOMAIN aException : aException[i] \in DOMAIN gen.exc
    /\ \A e \in DOMAIN pFrame : pFrame[e] \in Nat
    /\ released \subseteq DOMAIN gen.exc
    /\ \A i \in DOMAIN asked : asked[i] \in BOOLEAN
    /\ status \in {"run", "done", "exit", "uncaught"}

\* The frames an activation accounts for: its own and those of the loops and
\* try blocks around the statement it runs.
KindOf(act) == CASE act.kind \in {"main", "call"} -> "ACTIVE" [] act.kind = "catch" -> "CATCH"
                 [] OTHER -> "FINALLY"
FramesOf(act) ==
    <<KindOf(act)>> \o [i \in DOMAIN InstrOf(act).nest |->
                          IF InstrOf(act).nest[i] = 0 THEN "LOOP" ELSE "EXCEPTION"]

\* Whatever was jumped, broken, returned or thrown out of before, a statement
\* runs in exactly the frames that the functions, loops and try blocks around
\* it created (OP_LF_START, OP_LF_STOP, OP_DONE, OP_POP_EXCEPTION, OP_CALL).
FramesMatch ==
    Running("ECHO") =>
        LET expected == FlattenSeq([i \in DOMAIN acts |-> FramesOf(acts[i])])
        IN  /\ Len(frames) = Len(expected) + 1
            /\ \A i \in DOMAIN expected : expected[i] \in frames[i + 1].flags

\* The try statements an exception can still reach are those around the
\* statements that run, those whose catch block runs left out: nothing else
\* is left on aException by a jump, and nothing is missing.
Tries(act) == SelectSeq(InstrOf(act).nest, LAMBDA e : e # 0)
HandlersMatch ==
    Running("ECHO") =>
        aException = FoldLeft(LAMBDA sofar, a :
            (IF a.kind \in {"catch", "throw_finally"} THEN Front(sofar) ELSE sofar) \o Tries(a),
            <<>>, acts)

\* The byte code prints what the script means, and ends as it does.
Conforms ==
    LET run == Semantics!Run(Programs[prog], asked)
    IN  IF status = "run" THEN IsPrefix(out, run.out) ELSE out = run.out /\ status = run.end

\* With finitely many conditions that hold, every program ends: no jump leads
\* back without a condition on the way, and no activation is left behind.
Terminates == <>(status # "run")
=============================================================================
