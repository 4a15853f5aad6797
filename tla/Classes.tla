------------------------------ MODULE Classes ------------------------------
(* What the compiler makes of class and interface declarations, and how    *)
(* CLASS_INIT and INTERFACE_INIT copy members from the bases at run time   *)
(* (oop.c, compiler.c, vm.c).  Pure definitions over a class table `cs',   *)
(* a function from names to classes; Objects runs them.                    *)
(*                                                                         *)
(* A declaration is what the parser of a class body collects:              *)
(*   [name, marks, extends, implements, attrs, methods]                    *)
(* with marks among "interface", "final" and "virtual", attrs a sequence   *)
(* of [name, access, const, init] and methods a sequence of                *)
(* [name, access, marks, params], each parameter a                         *)
(* [type, optional] record.  Member lists hold the newest entry first, as  *)
(* SyHashInsert pushes them; SyHashGet finds the newest of one name.       *)
EXTENDS Integers, Sequences, FiniteSets, SequencesExt

CONSTANTS Nil,          \* no class, no method, no object
          NamePrefixes  \* the pairs <<p, n>> of names where p starts n

Accesses == {"public", "protected", "private"}
ClassMarks == {"interface", "final", "virtual"}
MethodMarks == {"final", "virtual", "static"}
Parameters == [type : STRING, optional : BOOLEAN]

Declarations ==
    [name : STRING, marks : SUBSET ClassMarks,
     extends : Seq(STRING), implements : Seq(STRING),
     attrs : Seq([name : STRING, access : Accesses, const : BOOLEAN, init : STRING]),
     methods : Seq([name : STRING, access : Accesses, marks : SUBSET MethodMarks,
                    params : Seq(Parameters)])]

Names(list) == {list[i].name : i \in DOMAIN list}

Get(list, name) ==
    LET at == {i \in DOMAIN list : list[i].name = name}
    IN  IF at = {} THEN Nil ELSE list[Min(at)]

Push(list, e) == <<e>> \o list

PushNew(list, e) == IF e.name \in Names(list) THEN list ELSE Push(list, e)

PushAll(list, entries) ==
    LET pushed[i \in 0..Len(entries)] ==
            IF i = 0 THEN list ELSE PushNew(pushed[i - 1], entries[i])
    IN  pushed[Len(entries)]

-----------------------------------------------------------------------------
(* Compiling declarations *)

NewAttribute(d, a) ==
    [cls |-> d.name, name |-> a.name, access |-> a.access,
     const |-> a.const, init |-> a.init]

NewMethod(d, m) ==
    [cls |-> d.name, name |-> m.name, access |-> m.access,
     marks |-> m.marks, params |-> m.params]

NewClass(d) ==
    [name |-> d.name, marks |-> d.marks, hDerived |-> <<>>, pBase |-> Nil,
     aInterface |-> {},
     hAttr |-> Reverse([i \in DOMAIN d.attrs |-> NewAttribute(d, d.attrs[i])]),
     hMethod |-> Reverse([i \in DOMAIN d.methods |->
                             NewMethod(d, d.methods[i])])]

(* A method the class body refuses: virtual and private, virtual outside a *)
(* virtual class; an interface takes no attribute but a constant, and no   *)
(* static method.                                                          *)
MethodRefused(d, m) ==
    /\ "virtual" \in m.marks
    /\ m.access = "private" \/ "virtual" \notin d.marks

InterfaceRefused(d) ==
    \/ \E i \in DOMAIN d.attrs : ~ d.attrs[i].const
    \/ \E i \in DOMAIN d.methods : "static" \in d.methods[i].marks

ClassRefused(d) == \E i \in DOMAIN d.methods : MethodRefused(d, d.methods[i])

Compiles(decls) ==
    /\ \A i, j \in DOMAIN decls : decls[i].name = decls[j].name => i = j
    /\ \A i \in DOMAIN decls :
          IF "interface" \in decls[i].marks THEN ~ InterfaceRefused(decls[i])
                                            ELSE ~ ClassRefused(decls[i])

(* hClass once the whole file is compiled: every class, none linked yet *)
Installed(decls) ==
    [c \in {decls[i].name : i \in DOMAIN decls} |->
        NewClass(decls[CHOOSE i \in DOMAIN decls : decls[i].name = c])]

(* What a class table holds: classes, with members of classes in it. *)
ClassInfo(names) ==
    [name : STRING, marks : SUBSET ClassMarks, hDerived : Seq([name : names]),
     pBase : names \cup {Nil}, aInterface : SUBSET names,
     hAttr : Seq([cls : names, name : STRING, access : Accesses, const : BOOLEAN, init : STRING]),
     hMethod : Seq([cls : names, name : STRING, access : Accesses,
                    marks : SUBSET MethodMarks, params : Seq(Parameters)])]
TableOK(cs) == cs \in [DOMAIN cs -> ClassInfo(DOMAIN cs)]

-----------------------------------------------------------------------------
(* Linking *)

LinkSteps == {"inherit", "implement", "interface"} \X STRING

\* mutant: a base's method replaces the one of that name
InheritOver(cs, sub, base) ==
    [cs EXCEPT ![sub].hDerived = Push(@, [name |-> base]),
               ![sub].hAttr = Reverse(cs[base].hAttr) \o @,
               ![sub].hMethod = Reverse(cs[base].hMethod) \o @,
               ![sub].pBase = IF @ = Nil THEN base ELSE @]

(* PH7_ClassInherit *)
Inherit(cs, sub, base) ==
    [cs EXCEPT ![sub].hDerived = Push(@, [name |-> base]),
               ![sub].hAttr = Reverse(cs[base].hAttr) \o @,
               ![sub].hMethod = PushAll(@, cs[base].hMethod),
               ![sub].pBase = IF @ = Nil THEN base ELSE @]

(* the methods of sub when the walk over the base's reaches the i-th *)
Before(cs, sub, base, i) ==
    PushAll(cs[sub].hMethod, SubSeq(cs[base].hMethod, 1, i - 1))

InheritRefused(cs, sub, base) ==
    \/ base \notin DOMAIN cs
    \/ cs[base].marks \cap {"interface", "final"} # {}
    \/ \E i \in DOMAIN cs[base].hMethod :
          LET m == cs[base].hMethod[i]
          IN  IF m.name \in Names(Before(cs, sub, base, i))
              THEN "final" \in m.marks ELSE "virtual" \in m.marks

(* PH7_ClassImplement *)
Implement(cs, main, interface) ==
    [cs EXCEPT ![main].hAttr = PushAll(@, cs[interface].hAttr),
               ![main].aInterface = @ \cup {interface}]

ImplementRefused(cs, main, interface) ==
    \/ interface \notin DOMAIN cs
    \/ "interface" \notin cs[interface].marks
    \/ ~ Names(cs[interface].hMethod) \subseteq Names(cs[main].hMethod)

(* PH7_ClassInterfaceInherit *)
InterfaceInherit(cs, sub, base) ==
    [cs EXCEPT ![sub].hDerived = Push(@, [name |-> base]),
               ![sub].hAttr = PushAll(@, cs[base].hAttr),
               ![sub].hMethod = PushAll(@, cs[base].hMethod),
               ![sub].pBase = base]

InterfaceInheritRefused(cs, base) ==
    base \notin DOMAIN cs \/ "interface" \notin cs[base].marks

(* What one INIT instruction has to do, in order *)
Links(d) ==
    LET Each(kind, names) == [i \in DOMAIN names |-> <<kind, names[i]>>]
    IN  IF "interface" \in d.marks THEN Each("interface", d.extends)
        ELSE Each("inherit", d.extends) \o Each("implement", d.implements)

LinkRefused(cs, sub, link) ==
    CASE link[1] = "inherit"   -> InheritRefused(cs, sub, link[2])
      [] link[1] = "implement" -> ImplementRefused(cs, sub, link[2])
      [] link[1] = "interface" -> InterfaceInheritRefused(cs, link[2])

Link(cs, sub, link) ==
    CASE link[1] = "inherit"   -> Inherit(cs, sub, link[2])
      [] link[1] = "implement" -> Implement(cs, sub, link[2])
      [] link[1] = "interface" -> InterfaceInherit(cs, sub, link[2])

-----------------------------------------------------------------------------
(* Questions about linked classes *)

(* pBase, pBase of pBase, ...: the walk of VmInstanceOf.  It ends because  *)
(* the programs given to it have no cycle of bases.                        *)
BaseChain(cs, c) ==
    LET up[n \in 0..Cardinality(DOMAIN cs)] ==
            IF n = 0 THEN c
            ELSE IF up[n - 1] = Nil THEN Nil ELSE cs[up[n - 1]].pBase
    IN  {up[n] : n \in DOMAIN up} \ {Nil}

\* mutant: the bases of a base are not searched
InstanceOfNear(cs, c, class) ==
    \/ c = class
    \/ class \in cs[c].aInterface
    \/ class \in Names(cs[c].hDerived)

InstanceOf(cs, c, class) ==
    \/ c = class
    \/ class \in cs[c].aInterface
    \/ \E b \in Names(cs[c].hDerived) : \E p \in BaseChain(cs, b) :
          p = class \/ class \in cs[p].aInterface

FirstFound(answers) ==
    LET at == {i \in DOMAIN answers : answers[i] # Nil}
    IN  IF at = {} THEN Nil ELSE answers[Min(at)]

(* The method of OP_MEMBER: the class's own table, unless the object is    *)
(* read through $parent, then the tables of its direct bases, last first.  *)
MemberMethod(cs, c, mark, name) ==
    LET own == Get(cs[c].hMethod, name)
        bases == cs[c].hDerived
    IN  IF mark # "parent" /\ own # Nil THEN own
        ELSE FirstFound([i \in DOMAIN bases |-> Get(cs[bases[i].name].hMethod, name)])

(* Attributes are compared over the length of the name asked for *)
Starts(asked, name) == asked = name \/ <<asked, name>> \in NamePrefixes

AttributeOf(list, asked) ==
    LET i == SelectInSeq(list, LAMBDA a : Starts(asked, a.name))
    IN  IF i = 0 THEN Nil ELSE list[i]

(* PH7_ClassExtractAttribute: only what the class itself declares *)
OwnAttribute(cs, c, asked) ==
    AttributeOf(SelectSeq(cs[c].hAttr, LAMBDA a : a.cls = c), asked)

MemberAttribute(cs, c, mark, asked) ==
    LET own == OwnAttribute(cs, c, asked)
        bases == cs[c].hDerived
    IN  IF mark # "parent" /\ own # Nil THEN own
        ELSE FirstFound([i \in DOMAIN bases |-> AttributeOf(cs[bases[i].name].hAttr, asked)])

(* VmClassMemberAccess: may a method of class `from' use a member of c? *)
MemberAccess(cs, from, c, access) ==
    CASE access = "public"    -> TRUE
      [] access = "private"   -> from = c
      [] access = "protected" -> InstanceOf(cs, from, c)

-----------------------------------------------------------------------------
(* Overloads *)

(* The methods linked under one internal name: those the class declares,   *)
(* without the virtual ones, which are not installed; the oldest is last.  *)
Overloads(list, method) ==
    {i \in DOMAIN list : /\ list[i].cls = method.cls /\ list[i].name = method.name
                         /\ "virtual" \notin list[i].marks}

(* VmOverload: of the overloads that take this many arguments, or have a   *)
(* default for the next one, the oldest whose signature agrees longest.    *)
Fits(m, nArg) ==
    \/ Len(m.params) = nArg
    \/ nArg < Len(m.params) /\ m.params[nArg + 1].optional

Agreement(m, types) ==
    LET n == IF Len(types) < Len(m.params) THEN Len(types) ELSE Len(m.params)
        same == {k \in 0..n : \A i \in 1..k : m.params[i].type = types[i]}
    IN  Max(same)

Overload(cs, method, types) ==
    LET list == cs[method.cls].hMethod
        fit  == {i \in Overloads(list, method) : Fits(list[i], Len(types))}
        best == Max({Agreement(list[i], types) : i \in fit})
    IN  IF fit = {} THEN Nil
        ELSE list[Max({i \in fit : Agreement(list[i], types) = best})]

-----------------------------------------------------------------------------
(* The same questions answered from the declarations alone *)

Declaration(decls, c) == decls[CHOOSE i \in DOMAIN decls : decls[i].name = c]

(* The class that provides c's method of that name: c itself, or the first *)
(* base that has one, each base searched to its roots before the next; a   *)
(* class inherits what its bases declare public or protected.              *)
Inheritable(d, own) ==
    {d.methods[i].name : i \in {j \in DOMAIN d.methods :
                                   own \/ d.methods[j].access # "private"}}

Provider(decls, c, name) ==
    LET from[n \in 0..Len(decls), x \in {decls[i].name : i \in DOMAIN decls}] ==
            LET d == Declaration(decls, x)
            IN  IF name \in Inheritable(d, x = c) THEN x
                ELSE IF n = 0 THEN Nil
                ELSE LET i == SelectInSeq(d.extends,
                                          LAMBDA b : from[n - 1, b] # Nil)
                     IN  IF i = 0 THEN Nil ELSE from[n - 1, d.extends[i]]
    IN  from[Len(decls), c]
=============================================================================
