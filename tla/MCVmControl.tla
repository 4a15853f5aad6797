---------------------------- MODULE MCVmControl ----------------------------
(* Programs for VmControl: every combination of a few shapes of loops,      *)
(* switches, calls and try statements.                                      *)
EXTENDS VmControl

Each(F(_), s) == [i \in DOMAIN s |-> F(s[i])]
EachPair(F(_, _), s, t) ==
    [i \in 1 .. Len(s) * Len(t) |->
        F(s[((i - 1) \div Len(t)) + 1], t[((i - 1) % Len(t)) + 1])]

P(k)     == [s |-> "print", k |-> k]
S(kind)  == [s |-> kind]                            \* break, continue, exit
Ret(v)   == [s |-> "return", value |-> v]
CallF    == [s |-> "call", f |-> "f"]
Raise(c) == [s |-> "throw", class |-> c]
If(body) == [s |-> "if", bodies |-> <<body>>, else |-> <<>>]
If3(a, b, c)    == [s |-> "if", bodies |-> <<a, b>>, else |-> c]
Loop(kind, b)   == [s |-> kind, body |-> b, post |-> IF kind = "for" THEN <<P(9)>> ELSE <<>>]
While(b)        == Loop("while", b)
Case(body)      == [default |-> FALSE, body |-> body]
Default(body)   == [default |-> TRUE, body |-> body]
SwitchOn(cases) == [s |-> "switch", cases |-> cases]
Catch(c, body)  == [class |-> c, body |-> body]
Try(body, catches, finally) ==
    [s |-> "try", body |-> body, catches |-> catches, finally |-> finally]

Main(b)     == "main" :> b
MainF(b, f) == "main" :> b @@ "f" :> f

\* A loop in a loop, each left, continued or returned from half-way.
Kinds == <<"while", "dowhile", "for", "foreach">>
Inner == EachPair(LAMBDA kind, j : Loop(kind, <<P(1), If(<<j>>), P(2)>>),
                  Kinds, <<S("break"), S("continue"), Ret(1)>>)
Outer == EachPair(LAMBDA kind, j : <<kind, j>>, Kinds, <<S("break"), S("continue")>>)
Nested == EachPair(LAMBDA o, i : Loop(o[1], <<P(3), i, If(<<o[2]>>), P(4)>>), Outer, Inner)
LoopPrograms ==
    Each(LAMBDA n : MainF(<<CallF, P(6)>>, <<n, P(5)>>), Nested)
    \o Each(LAMBDA i : MainF(<<While(<<CallF, P(6)>>), P(7)>>, <<i, P(5)>>), Inner)

\* Switches: case bodies that fall through, break, loop or return.
CaseBodies == <<<<P(1)>>, <<P(2), S("break")>>, <<While(<<P(3), S("break")>>)>>, <<Ret(1)>>>>
Tables ==
    EachPair(LAMBDA a, b : <<Case(a), Default(b), Case(<<P(8)>>)>>, CaseBodies, CaseBodies)
    \o EachPair(LAMBDA a, b : <<Case(a), Case(b)>>, CaseBodies, CaseBodies)
    \o Each(LAMBDA a : <<Default(a)>>, CaseBodies)
SwitchPrograms == Each(LAMBDA t : MainF(<<CallF, P(6)>>, <<SwitchOn(t), P(5)>>), Tables)

\* Try statements: what the body does, which classes are caught, finally.
Bodies == <<<<P(1)>>, <<P(1), Raise("A"), P(2)>>, <<CallF, P(2)>>,
            <<If3(<<Raise("A")>>, <<Raise("B")>>, <<P(2)>>), P(3)>>,
            <<While(<<P(1), If(<<S("break")>>)>>)>>>>
Catching == <<<<Catch("A", <<P(11)>>)>>, <<Catch("B", <<P(12)>>), Catch("A", <<P(13)>>)>>,
              <<Catch("Exception", <<P(14)>>), Catch("A", <<P(15)>>)>>, <<>>>>
Clauses == EachPair(LAMBDA c, f : <<c, f>>, Catching, <<<<>>, <<P(16)>>>>)
TryStatements == EachPair(LAMBDA b, c : Try(b, c[1], c[2]), Bodies, Clauses)
Callees == <<<<P(4), Raise("A"), P(5)>>, <<While(<<P(4), If(<<Ret(1)>>)>>), P(5)>>>>
TryPrograms == EachPair(LAMBDA t, f : MainF(<<t, P(6)>>, f), TryStatements, Callees)


\* A try statement in a loop, and in a function whose caller has another one;
\* then an exception no try is left for.
Plain(c) == Try(<<P(1), If(<<Raise("A")>>), P(2)>>, c, <<>>)
LoopedTry ==
    EachPair(LAMBDA kind, c : MainF(<<Loop(kind, <<Try(<<CallF, P(2)>>, c, <<>>), P(6)>>), P(7)>>,
                                    <<P(4), If(<<Raise("A")>>), P(5)>>), Kinds, Catching)
    \o EachPair(LAMBDA kind, c : Main(<<Loop(kind, <<Plain(c), P(6)>>), P(7)>>), Kinds, Catching)
Matching == <<Catching[1], Catching[2], Catching[3]>>
NestedTry ==
    EachPair(LAMBDA c, d : MainF(<<Try(<<Plain(c), CallF, P(22)>>, d, <<P(23)>>), P(6), Raise("B")>>,
                                 <<Plain(c), If(<<Raise("B")>>), P(5)>>), Matching,
             <<<<Catch("B", <<P(21), CallF>>)>>, <<Catch("Exception", <<P(24)>>)>>>>)

\* exit, from wherever it is legal, and exceptions no one catches.
ExitPrograms ==
    EachPair(LAMBDA kind, j : MainF(<<CallF, P(6)>>, <<Loop(kind, <<P(1), If(<<j>>), P(2)>>)>>),
             Kinds, <<S("exit"), Raise("A")>>)
    \o <<Main(<<Try(<<P(1), If(<<S("exit")>>), Raise("A")>>,
                    <<Catch("A", <<P(2), If(<<S("exit")>>), P(3)>>)>>, <<>>), P(4)>>),
         Main(<<Try(<<P(1), If(<<Raise("A")>>)>>, <<Catch("A", <<P(2)>>)>>,
                    <<P(3), If(<<S("exit")>>), P(5)>>), P(4)>>)>>

\* goto: forward, backward, and out of one loop.
Goto(l)  == [s |-> "goto", l |-> l]
Label(l) == [s |-> "label", l |-> l]
GotoPrograms ==
    Each(LAMBDA kind : Main(<<P(1), Loop(kind, <<P(2), If(<<Goto("x")>>), P(3)>>), P(4), Label("x"), P(5)>>),
         Kinds)
    \o Each(LAMBDA kind : Main(<<P(1), Label("x"), P(2), Loop(kind, <<If(<<Goto("x")>>), P(3)>>), P(4)>>),
            Kinds)
    \o <<Main(<<Loop("dowhile", <<>>), P(1)>>),
         Main(<<Label("x"), P(2), If(<<Goto("x")>>), P(3), If(<<Goto("y")>>), P(4), Label("y"), P(5)>>)>>

MCPrograms ==
    LoopPrograms \o SwitchPrograms \o TryPrograms \o LoopedTry \o NestedTry
    \o ExitPrograms \o GotoPrograms
=============================================================================
