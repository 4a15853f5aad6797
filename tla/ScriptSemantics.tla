-------------------------- MODULE ScriptSemantics --------------------------
(***************************************************************************)
(* What a script does, statement by statement: the meaning the comments of *)
(* engine/compiler.c give to the control statements, written without byte  *)
(* code, frames or jumps.  VmControl is checked against it.                *)
(*                                                                         *)
(* A run is [out, left, res]: what was printed, the answers still unused   *)
(* (how each condition, case comparison and foreach step evaluates, FALSE  *)
(* once they are used up), and how the last statement ended: <<"normal">>  *)
(* or the jump, return, exit or exception that is under way.               *)
(***************************************************************************)
EXTENDS Integers, Sequences, SequencesExt

Normal == <<"normal">>
Ends(r, res) == [r EXCEPT !.res = res]
Answer(r) == r.left # <<>> /\ Head(r.left)
Ask(r) == [r EXCEPT !.left = IF @ = <<>> THEN <<>> ELSE Tail(@)]

\* Every exception is an Exception; no other class has a subclass.
Catches(class, thrown) == class = thrown \/ class = "Exception"

RECURSIVE Body(_, _, _, _), Loop(_, _, _, _), Cases(_, _, _, _, _), Clauses(_, _, _, _)

\* while (ask) { body; post }; a foreach asks for the next element, a do-while
\* asks at the end of its first iteration.
Loop(p, s, r, ask) ==
    LET q    == IF ask THEN Ask(r) ELSE r
        turn == Body(p, s.body, q, 1)
        next == IF s.s = "for" THEN Body(p, s.post, Ends(turn, Normal), 1)
                ELSE Ends(turn, Normal)
    IN  IF ask /\ ~Answer(r) THEN q
        ELSE IF turn.res \in {Normal, <<"continue">>} THEN Loop(p, s, next, TRUE)
        ELSE IF turn.res = <<"break">> THEN Ends(turn, Normal)
        ELSE turn

\* The first clause whose condition holds, or else.
Clauses(p, s, r, i) ==
    IF i > Len(s.bodies) THEN Body(p, s.else, r, 1)
    ELSE IF Answer(r) THEN Body(p, s.bodies[i], Ask(r), 1)
    ELSE Clauses(p, s, Ask(r), i + 1)

\* The first case that compares equal, or the default; from there the
\* bodies run in order until a break.
Cases(p, s, r, i, fallback) ==
    LET rest(j) == FlattenSeq([k \in 1 .. Len(s.cases) - j + 1 |-> s.cases[j + k - 1].body])
        run(q, j) == LET t == Body(p, rest(j), q, 1)
                     IN  IF t.res = <<"break">> THEN Ends(t, Normal) ELSE t
    IN  IF i > Len(s.cases) THEN IF fallback = 0 THEN r ELSE run(r, fallback)
        ELSE IF s.cases[i].default THEN Cases(p, s, r, i + 1, i)
        ELSE IF Answer(r) THEN run(Ask(r), i)
        ELSE Cases(p, s, Ask(r), i + 1, fallback)

Call(p, f, r) ==
    LET t == Body(p, p[f], r, 1)
    IN  IF t.res = <<"return">> THEN Ends(t, Normal) ELSE t

\* "When an exception is thrown, code following the statement will not be
\* executed, and Aer will attempt to find the first matching catch block."
\* "A finally block will get executed regardless of whether or not there is
\* an exception": when it ends normally, what was under way goes on.
Try(p, s, r) ==
    LET t    == Body(p, s.body, r, 1)
        hits == {i \in DOMAIN s.catches :
                    t.res[1] = "throw" /\ Catches(s.catches[i].class, t.res[2])}
        c    == IF hits = {} THEN t
                ELSE Body(p, s.catches[CHOOSE i \in hits : \A j \in hits : i <= j].body,
                          Ends(t, Normal), 1)
        f    == Body(p, s.finally, Ends(c, Normal), 1)
    IN  IF c.res = <<"exit">> THEN c
        ELSE IF f.res = Normal THEN Ends(f, c.res) ELSE f

Statement(p, s, r) ==
    CASE s.s = "print"    -> [r EXCEPT !.out = Append(@, s.k)]
      [] s.s = "if"       -> Clauses(p, s, r, 1)
      [] s.s = "while"    -> Loop(p, s, r, TRUE)
      [] s.s = "dowhile"  -> Loop(p, s, r, FALSE)
      [] s.s = "for"      -> Loop(p, s, r, TRUE)
      [] s.s = "foreach"  -> Loop(p, s, r, TRUE)
      [] s.s = "switch"   -> Cases(p, s, r, 1, 0)
      [] s.s = "goto"     -> Ends(r, <<"goto", s.l>>)
      [] s.s = "throw"    -> Ends(r, <<"throw", s.class>>)
      [] s.s = "call"     -> Call(p, s.f, r)
      [] s.s = "try"      -> Try(p, s, r)
      [] s.s = "label"    -> r
      [] s.s \in {"break", "continue", "return", "exit"} -> Ends(r, <<s.s>>)

\* The statements from the i-th on; a goto goes on at its label.
Body(p, b, r, i) ==
    LET t     == Statement(p, b[i], r)
        marks == {j \in DOMAIN b : b[j].s = "label" /\ t.res = <<"goto", b[j].l>>}
    IN  IF i > Len(b) THEN r
        ELSE IF t.res = Normal THEN Body(p, b, t, i + 1)
        ELSE IF marks # {} THEN Body(p, b, Ends(t, Normal), CHOOSE j \in marks : TRUE)
        ELSE t

\* What the program prints and how it ends, for given answers.
Run(p, answers) ==
    LET r == Call(p, "main", [out |-> <<>>, left |-> answers, res |-> Normal])
    IN  [out |-> r.out, end |-> CASE r.res[1] = "throw" -> "uncaught"
                                  [] r.res[1] = "exit"  -> "exit"
                                  [] OTHER              -> "done"]
=============================================================================
