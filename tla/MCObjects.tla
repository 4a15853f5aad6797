----------------------------- MODULE MCObjects -----------------------------
(* Small programs for Objects: orders of declaration, several bases,       *)
(* interfaces, final and virtual members, overloads, and one program whose *)
(* main() may do anything with objects of a class and of its derived one.  *)
EXTENDS Objects

Attr(name, access, init) ==
    [name |-> name, access |-> access, const |-> FALSE, init |-> init]
Konst(name) == [name |-> name, access |-> "public", const |-> TRUE, init |-> name]
Param(type, optional) == [type |-> type, optional |-> optional]
Meth(name, access, marks, params) ==
    [name |-> name, access |-> access, marks |-> marks, params |-> params]
Method(name) == Meth(name, "public", {}, <<>>)
Class(name, extends, attrs, methods) ==
    [name |-> name, marks |-> {}, extends |-> extends, implements |-> <<>>,
     attrs |-> attrs, methods |-> methods]
Marked(d, marks) == [d EXCEPT !.marks = marks]
Interface(name, extends, methods) ==
    Marked(Class(name, extends, <<Konst("C")>>, methods), {"interface"})

A == Class("A", <<>>, <<Attr("k", "public", "null"), Attr("v", "protected", "v")>>,
           <<Meth("f", "public", {}, <<Param("A", TRUE)>>)>>)
B == Class("B", <<"A">>, <<Attr("w", "public", "w")>>, <<Method("__destruct")>>)
Main == Class("Program", <<>>, <<>>, <<Method("main")>>)

(* magic methods, a private attribute, an interface *)
O == Interface("O", <<>>, <<Method("f")>>)
P == [Class("P", <<>>, <<Konst("D"), Attr("ab", "private", "null"), Attr("a", "public", "null")>>,
            <<Method("__construct"), Method("__clone"), Method("f")>>)
        EXCEPT !.implements = <<"O">>]

F == Class("F", <<>>, <<Attr("a", "public", "a")>>, <<Method("m"), Method("n"), Method("o")>>)
G == Class("G", <<"F">>, <<Attr("a", "private", "b")>>,
           <<Meth("n", "protected", {}, <<>>)>>)
H == Class("H", <<>>, <<>>, <<Meth("m", "private", {"static"}, <<>>), Method("o")>>)
J == Class("J", <<"G", "H">>, <<>>, <<>>)
K == Class("K", <<"H", "G">>, <<>>, <<Meth("n", "public", {}, <<Param("H", FALSE)>>),
                                      Meth("n", "public", {}, <<Param("F", FALSE)>>)>>)
U == Class("U", <<"G">>, <<>>, <<>>)
I == Interface("I", <<>>, <<Method("m")>>)
L == Interface("L", <<"I">>, <<Method("q")>>)
M == [Class("M", <<"F">>, <<>>, <<>>) EXCEPT !.implements = <<"I">>]
N == [Class("N", <<>>, <<>>, <<Method("m")>>) EXCEPT !.implements = <<"L">>]
V == Marked(Class("V", <<>>, <<>>, <<Meth("m", "public", {"virtual"}, <<>>)>>),
            {"virtual"})
W == Class("W", <<"V">>, <<>>, <<Method("n")>>)
X == Class("X", <<"V">>, <<>>, <<Method("m")>>)
Y == Class("Y", <<>>, <<>>, <<Meth("m", "public", {"final"}, <<>>)>>)
Z == Class("Z", <<"Y">>, <<>>, <<Method("m")>>)

Orders(s) == {[i \in DOMAIN s |-> s[p[i]]] : p \in Permutations(DOMAIN s)}

LinkedOnly ==
    Orders(<<F, G, H, J>>) \cup Orders(<<F, G, H, K>>) \cup Orders(<<F, G, U>>)
      \cup Orders(<<F, I, M>>)
      \cup Orders(<<I, L, N>>) \cup Orders(<<V, W>>) \cup Orders(<<V, X>>)
      \cup Orders(<<Y, Z>>)

MCPrograms == LinkedOnly \cup {<<A, B, Main>>, <<O, P, Main>>}
(* a program whose instances may refer to one another by two attributes *)
Pair == Class("Program", <<>>, <<Attr("k", "public", "null"), Attr("n", "public", "null")>>,
              <<Method("main")>>)
MCPair == {<<Pair>>}
MCTwoVars == {"x", "y"}

MCObjectSet == 1..3
MCVars == {"x"}
MCPrefixes == {<<"a", "ab">>}
=============================================================================
