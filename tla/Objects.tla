------------------------------ MODULE Objects ------------------------------
(* Objects at run time (oop.c and the CLASS_INIT, MEMBER, NEW, CLONE, CALL *)
(* and STORE instructions of vm.c): creation, method calls that lend the   *)
(* object the class of the method, reference counts, clones, destructors.  *)
(*                                                                         *)
(* control is the C and script stack, innermost first.  A "frame" is a     *)
(* running method; the other items are what the C code still has to do     *)
(* when the item above them is done: store an operand in a variable, send  *)
(* an operand a message, drop a reference, give an object its class back,  *)
(* free its attributes, free it.  Any legal statement may come next.       *)
EXTENDS ClassQueries

CONSTANTS Programs,    \* sequences of declarations
          Vars,        \* variables of a method; "x" is also its parameter
          Objects,     \* 1..n: the instances a run may create
          MaxFrames    \* running methods at one time

ASSUME ObjectsAssumption ==
    /\ Programs \subseteq Seq(Declarations)
    /\ IsFiniteSet(Vars) /\ "x" \in Vars /\ {"this", "parent"} \cap Vars = {}
    /\ IsFiniteSet(Objects) /\ 1 \in Objects /\ Nil \notin Objects

Marks == {"variable", "this", "parent"}

VARIABLES decls, classes, todo, heap, control, outcome

vars == <<decls, classes, todo, heap, control, outcome>>

(* A ph7_value: a reference to an object, or data named after the *)
(* initialiser it comes from.                                     *)
Null == [ref |-> Nil, mark |-> "variable", data |-> "null"]
Datum(init) == [Null EXCEPT !.data = init]
Reference(o, mark) == [ref |-> o, mark |-> mark, data |-> "object"]

Unborn == [cls |-> Nil, born |-> Nil, iRef |-> 0, attrs |-> <<>>,
           state |-> "unborn"]

Top == Head(control)
InScript == outcome = "running" /\ control # <<>> /\ Top.kind = "frame"
Frames == SelectSeq(control, LAMBDA t : t.kind = "frame")

StoreItem(v, val) == [kind |-> "store", var |-> v, val |-> val]
SendItem(o, mark, name, args) ==
    [kind |-> "send", obj |-> o, mark |-> mark, name |-> name, args |-> args]
Unref(o) == [kind |-> "unref", obj |-> o]
Restore(o, back) == [kind |-> "restore", obj |-> o, back |-> back]
Free(o) == [kind |-> "free", obj |-> o]
Dispose(o) == [kind |-> "dispose", obj |-> o]

Unrefs(values) ==
    FlattenSeq([i \in DOMAIN values |->
        IF values[i].ref = Nil THEN <<>> ELSE <<Unref(values[i].ref)>>])

Fails == outcome' = "error" /\ UNCHANGED <<decls, classes, todo, heap, control>>

(* Memory given back to the pool is read or counted in: anything may follow *)
Undefined ==
    outcome' = "undefined" /\ UNCHANGED <<decls, classes, todo, heap, control>>

-----------------------------------------------------------------------------
(* Before the script: one INIT instruction per class, in file order *)

InitTodo(ds) ==
    FlattenSeq([i \in DOMAIN ds |->
        [j \in DOMAIN Links(ds[i]) |-> <<ds[i].name, Links(ds[i])[j]>>]])

Init ==
    /\ decls \in {p \in Programs : Compiles(p)}
    /\ classes = Installed(decls)
    /\ todo = InitTodo(decls)
    /\ heap = [o \in Objects |-> Unborn]
    /\ control = <<>>
    /\ outcome = "linking"

LinkNext ==
    /\ outcome = "linking" /\ todo # <<>>
    /\ LET sub == Head(todo)[1]
           link == Head(todo)[2]
       IN  IF LinkRefused(classes, sub, link) THEN Fails
           ELSE /\ classes' = Link(classes, sub, link)
                /\ todo' = Tail(todo)
                /\ UNCHANGED <<decls, heap, control, outcome>>

-----------------------------------------------------------------------------
(* Instances *)

\* mutant: the cells in the order of the class's table
InstanceAttrsOrder(c) ==
    LET list == classes[c].hAttr
    IN  [i \in DOMAIN list |->
            [cls |-> list[i].cls, name |-> list[i].name,
             access |-> list[i].access, const |-> list[i].const,
             val |-> Datum(list[i].init)]]

(* PH7_VmCreateClassInstanceFrame: a cell for every attribute of the class *)
InstanceAttrs(c) ==
    LET list == Reverse(classes[c].hAttr)
    IN  [i \in DOMAIN list |->
            [cls |-> list[i].cls, name |-> list[i].name,
             access |-> list[i].access, const |-> list[i].const,
             val |-> Datum(list[i].init)]]

NewInstance(c) ==
    [cls |-> c, born |-> c, iRef |-> 1, attrs |-> InstanceAttrs(c),
     state |-> "live"]

Fresh(o) == heap[o].state = "unborn" /\ \A p \in Objects :
                p < o => heap[p].state # "unborn"

(* the values that refer to o *)
RefsIn(values, o) == Cardinality({i \in DOMAIN values : values[i].ref = o})

(* every value stored takes a reference *)
AddRefs(h, values) ==
    [o \in Objects |-> [h[o] EXCEPT !.iRef = @ + RefsIn(values, o)]]
AddRef(h, val) == AddRefs(h, <<val>>)

Vals(attrs) == [i \in DOMAIN attrs |-> attrs[i].val]

(* OP_CALL of a method on an object: two references, for $this and for    *)
(* $parent, and for the time of the call the class the method belongs to. *)
LentTo(h, o, method) ==
    [h EXCEPT ![o].iRef = @ + 2, ![o].cls = method.cls]

Frame(h, o, method, args) ==
    <<[kind |-> "frame", self |-> o, back |-> h[o].cls, method |-> method.name,
       cls |-> method.cls,
       vars |-> [v \in Vars |-> IF v = "x" /\ args # <<>> THEN args[1] ELSE Null]]>>

(* PH7_VmCallClassMethod: the magic methods, when the class has them *)
Magic(h, o, name, rest) ==
    LET m == Get(classes[h[o].cls].hMethod, name)
    IN  IF m = Nil THEN [heap |-> h, control |-> rest]
        ELSE [heap |-> LentTo(h, o, m), control |-> Frame(h, o, m, <<>>) \o rest]

Room == Len(Frames) < MaxFrames

(* PH7_VmByteCodeExec: the entry point.  The reference of the creation is *)
(* given up before main() is called, so the frame of main() holds them all.*)
Start ==
    /\ outcome = "linking" /\ todo = <<>>
    /\ \/ "Program" \notin DOMAIN classes /\ Fails
       \/ /\ "Program" \in DOMAIN classes
          /\ LET main == Get(classes["Program"].hMethod, "main")
                 h == [heap EXCEPT ![1] = [NewInstance("Program")
                                             EXCEPT !.iRef = 0]]
             IN  /\ main # Nil
                 /\ heap' = LentTo(h, 1, main)
                 /\ control' = Frame(h, 1, main, <<>>)
          /\ outcome' = "running"
          /\ UNCHANGED <<decls, classes, todo>>

-----------------------------------------------------------------------------
(* Statements of the innermost frame *)

(* What a name denotes: $this, $parent or a variable *)
Operand(s) ==
    CASE s = "this"   -> Reference(Top.self, "this")
      [] s = "parent" -> Reference(Top.self, "parent")
      [] OTHER        -> Top.vars[s]

Alive(o) == heap[o].state \in {"live", "destroyed"}

ObjectOperand(s) == Operand(s).ref # Nil /\ Alive(Operand(s).ref)

Continue(h, c) ==
    heap' = h /\ control' = c /\ UNCHANGED <<decls, classes, todo, outcome>>

(* $v = new c(); *)
Create(v, c) ==
    IF classes[c].marks \cap {"interface", "virtual"} # {} THEN Fails
    ELSE \E o \in Objects :
            /\ Fresh(o)
            /\ LET h == [heap EXCEPT ![o] = NewInstance(c)]
                   next == Magic(h, o, "__construct",
                               <<StoreItem(v, Reference(o, "variable"))>> \o control)
               IN  Continue(next.heap, next.control)

New == InScript /\ Room /\ \E v \in Vars, c \in DOMAIN classes : Create(v, c)

(* (new c())->name(); the operand stack holds the only reference *)
NewSend ==
    /\ InScript /\ Room
    /\ \E c \in DOMAIN classes, o \in Objects : \E name \in Names(classes[c].hMethod) :
          /\ classes[c].marks \cap {"interface", "virtual"} = {}
          /\ name \notin {"__construct", "__destruct", "__clone"}
          /\ Fresh(o)
          /\ LET h == [heap EXCEPT ![o] = NewInstance(c)]
                 next == Magic(h, o, "__construct",
                             <<SendItem(o, "variable", name, <<>>)>> \o control)
             IN  Continue(next.heap, next.control)

(* $s->name($a); *)
Call ==
    /\ InScript
    /\ \E s \in Vars \cup {"this", "parent"} :
          /\ ObjectOperand(s)
          /\ \E name \in UNION {Names(classes[c].hMethod) : c \in DOMAIN classes},
               args \in {<<>>} \cup {<<Operand(a)>> : a \in Vars} :
                /\ name \notin {"main", "__construct", "__destruct", "__clone"}
                /\ \A i \in DOMAIN args : args[i].ref # Nil
                /\ LET o == Operand(s).ref
                       h == AddRefs(heap, <<Operand(s)>> \o args)
                   IN  Continue(h, <<SendItem(o, Operand(s).mark, name, args)>>
                                      \o control)

(* $v = clone $s;  PH7_CloneClassInstance makes an instance of the class   *)
(* the source has now and pairs the two attribute lists cell by cell.      *)
CopyAttrs(src, dest) ==
    [i \in DOMAIN dest |->
        IF i \in DOMAIN src /\ ~ src[i].const
        THEN [dest[i] EXCEPT !.val = src[i].val] ELSE dest[i]]

\* mutant: the clone takes no reference to the objects it copies
CloneUncounted ==
    /\ InScript /\ Room
    /\ \E v \in Vars, s \in Vars \cup {"this"}, o \in Objects :
          /\ ObjectOperand(s) /\ Fresh(o)
          /\ LET src == Operand(s).ref
                 copy == [NewInstance(heap[src].cls) EXCEPT
                             !.attrs = CopyAttrs(heap[src].attrs, @)]
                 h == AddRef([heap EXCEPT ![o] = copy], Operand(s))
                 next == Magic(h, o, "__clone",
                            <<Unref(src), StoreItem(v, Reference(o, "variable"))>>
                               \o control)
             IN  Continue(next.heap, next.control)

Clone ==
    /\ InScript /\ Room
    /\ \E v \in Vars, s \in Vars \cup {"this"}, o \in Objects :
          /\ ObjectOperand(s) /\ Fresh(o)
          /\ LET src == Operand(s).ref
                 copy == [NewInstance(heap[src].cls) EXCEPT
                             !.attrs = CopyAttrs(heap[src].attrs, @)]
                 h == AddRefs([heap EXCEPT ![o] = copy],
                              <<Operand(s)>> \o Vals(copy.attrs))
                 next == Magic(h, o, "__clone",
                            <<Unref(src), StoreItem(v, Reference(o, "variable"))>>
                               \o control)
             IN  Continue(next.heap, next.control)

(* $v = $s; the mark of $this goes with the value *)
Assign ==
    /\ InScript
    /\ \E v \in Vars, s \in Vars \cup {"this"} :
          /\ ObjectOperand(s) /\ v # s
          /\ Continue(AddRef(heap, Operand(s)),
                      <<StoreItem(v, Operand(s))>> \o control)

(* unset($v); *)
Unset ==
    /\ InScript
    /\ \E v \in Vars :
          /\ ObjectOperand(v)
          /\ Continue(heap, <<Unref(Top.vars[v].ref),
                              [Top EXCEPT !.vars[v] = Null]>> \o Tail(control))

(* The cell OP_MEMBER finds for an attribute; 0 when there is none *)
Cell(o, mark, name) ==
    LET attr == MemberAttribute(classes, heap[o].cls, mark, name)
    IN  IF attr = Nil THEN 0
        ELSE LET at == {i \in DOMAIN heap[o].attrs :
                           /\ heap[o].attrs[i].cls = attr.cls
                           /\ Starts(name, heap[o].attrs[i].name)}
             IN  IF at = {} THEN 0 ELSE Min(at)

AttributeNames == UNION {Names(classes[c].hAttr) : c \in DOMAIN classes}

Reachable(o, cell) ==
    /\ cell # 0
    /\ MemberAccess(classes, Top.cls, heap[o].attrs[cell].cls,
                    heap[o].attrs[cell].access)

(* $s->name = $a; *)
SetAttribute ==
    /\ InScript
    /\ \E s \in Vars \cup {"this", "parent"}, name \in AttributeNames,
          a \in Vars \cup {"this"} :
          /\ ObjectOperand(s) /\ ObjectOperand(a)
          /\ LET o == Operand(s).ref
                 cell == Cell(o, Operand(s).mark, name)
                 old == heap[o].attrs[cell].val
             IN  IF \/ ~ Reachable(o, cell)
                    \/ heap[o].attrs[cell].const
                    \/ old.data \notin {"null", "object"}
                 THEN Fails
                 ELSE Continue(AddRef([heap EXCEPT
                                  ![o].attrs[cell].val = Operand(a)], Operand(a)),
                               Unrefs(<<old>>) \o control)

(* $v = $s->name; *)
GetAttribute ==
    /\ InScript
    /\ \E s \in Vars \cup {"this", "parent"}, name \in AttributeNames, v \in Vars :
          /\ ObjectOperand(s)
          /\ LET o == Operand(s).ref
                 cell == Cell(o, Operand(s).mark, name)
                 val == heap[o].attrs[cell].val
             IN  IF ~ Reachable(o, cell) \/ val.data \notin {"null", "object"}
                 THEN Fails
                 ELSE /\ val.ref # Nil => Alive(val.ref)
                      /\ Continue(AddRef(heap, val), <<StoreItem(v, val)>> \o control)

(* if($s == $a) changes nothing when it comes to an end *)
Compare ==
    /\ InScript
    /\ \E s, a \in Vars \cup {"this"} :
          /\ ObjectOperand(s) /\ ObjectOperand(a)
          /\ LET rc == Compared(heap, Operand(s).ref, Operand(a).ref)
             IN  \/ rc = "stopped" /\ Fails
                 \/ rc = "crash" /\ Undefined

(* return, or the end of the body: VmLeaveFrame drops what the frame held, *)
(* then OP_CALL gives the object its class back.                           *)
Locals(vals) == [i \in 1..Cardinality(Vars) |-> vals[SetToSeq(Vars)[i]]]

Return ==
    /\ InScript
    /\ Continue(heap, Unrefs(<<Operand("parent"), Operand("this")>>
                                  \o Locals(Top.vars))
                      \o <<Restore(Top.self, Top.back)>> \o Tail(control))

-----------------------------------------------------------------------------
(* The work below the statements *)

Working(kind) == outcome = "running" /\ control # <<>> /\ Top.kind = kind

(* OP_STORE to a variable of the frame below *)
Store ==
    /\ Working("store")
    /\ LET f == control[2]
           old == f.vars[Top.var]
       IN  IF old.mark # "variable" THEN Fails
           ELSE Continue(heap, Unrefs(<<old>>)
                    \o <<[f EXCEPT !.vars[Top.var] = Top.val]>>
                    \o SubSeq(control, 3, Len(control)))

(* The frame that sends: the innermost one *)
Sender == Frames[1]

(* the class an argument is known by when overloads are compared *)
ArgTypes(args) == [i \in DOMAIN args |-> heap[args[i].ref].cls]

Accepts(param, arg) ==
    \/ param.type \notin DOMAIN classes
    \/ InstanceOf(classes, heap[arg.ref].cls, param.type)

(* OP_MEMBER and OP_CALL on the operand: the reference it had is dropped *)
Send ==
    /\ Working("send") /\ Room
    /\ LET o == Top.obj
           found == MemberMethod(classes, heap[o].cls, Top.mark, Top.name)
           method == Overload(classes, found, ArgTypes(Top.args))
       IN  IF \/ found = Nil
              \/ ~ MemberAccess(classes, Sender.cls, found.cls, found.access)
              \/ method = Nil
              \/ \E i \in DOMAIN Top.args : ~ Accepts(method.params[i], Top.args[i])
           THEN Fails
           ELSE Continue([LentTo(heap, o, method) EXCEPT ![o].iRef = @ - 1],
                         Frame(heap, o, method, Top.args) \o Tail(control))

(* PH7_ClassInstanceUnref, and PH7_ClassInstanceRelease of an object whose *)
(* count has come to nothing: the destructor is looked up in the class the *)
(* object has now, and runs on a count of two.                             *)
DropReference ==
    /\ Working("unref")
    /\ LET o == Top.obj
           h == [heap EXCEPT ![o].iRef = @ - 1]
           next == Magic([h EXCEPT ![o].state = "destroyed",
                                   ![o].iRef = IF Get(classes[heap[o].cls].hMethod,
                                                      "__destruct") = Nil
                                               THEN @ ELSE 2],
                         o, "__destruct", <<Free(o)>> \o Tail(control))
       IN  IF heap[o].state = "freed" THEN Undefined
           ELSE IF h[o].iRef < 1 /\ heap[o].state = "live"
           THEN Continue(next.heap, next.control)
           ELSE Continue(h, Tail(control))

FreeAttributes ==
    /\ Working("free")
    /\ LET o == Top.obj
       IN  Continue([heap EXCEPT ![o].attrs = <<>>],
                    Unrefs(Vals(heap[o].attrs))
                       \o <<Dispose(o)>> \o Tail(control))

FreeInstance ==
    /\ Working("dispose")
    /\ Continue([heap EXCEPT ![Top.obj].state = "freed"], Tail(control))

\* mutant: OP_CALL does not give the object its class back
RestoreNothing ==
    Working("restore") /\ Continue(heap, Tail(control))

RestoreClass ==
    /\ Working("restore")
    /\ Continue(IF heap[Top.obj].state = "freed" THEN heap
                ELSE [heap EXCEPT ![Top.obj].cls = Top.back], Tail(control))

Finish ==
    /\ outcome = "running" /\ control = <<>>
    /\ outcome' = "ended"
    /\ UNCHANGED <<decls, classes, todo, heap, control>>

Statement == New \/ NewSend \/ Call \/ Clone \/ Assign \/ Unset \/ SetAttribute
                 \/ GetAttribute \/ Compare \/ Return

Work == Store \/ Send \/ DropReference \/ FreeAttributes \/ FreeInstance
              \/ RestoreClass

Next == LinkNext \/ Start \/ Statement \/ Work \/ Finish

Spec == Init /\ [][Next]_vars

-----------------------------------------------------------------------------
(* The types.  What refers to an object refers to one that was created;    *)
(* only these have attributes, and a class of the program.                 *)
Born == {o \in Objects : heap[o].state # "unborn"}

Value(objects) ==
    [ref : objects \cup {Nil}, mark : Marks, data : STRING \cup {"null", "object"}]
Attribute(objects, names) ==
    [cls : names, name : STRING, access : Accesses, const : BOOLEAN, val : Value(objects)]
Instance(objects, names) ==
    [cls : names \cup {Nil}, born : names \cup {Nil}, iRef : Int,
     attrs : Seq(Attribute(objects, names)), state : {"unborn", "live", "destroyed", "freed"}]

Item(objects, names) ==
         [kind : {"frame"}, self : objects, back : names, method : STRING, cls : names,
          vars : [Vars -> Value(objects)]]
    \cup [kind : {"store"}, var : Vars, val : Value(objects)]
    \cup [kind : {"send"}, obj : objects, mark : Marks, name : STRING,
          args : Seq(Value(objects))]
    \cup [kind : {"restore"}, obj : objects, back : names]
    \cup [kind : {"unref", "free", "dispose"}, obj : objects]

HeapOK(h, objects, names) ==
    /\ h \in [Objects -> Instance(objects, names)]
    /\ \A o \in Objects : IF o \in objects THEN {h[o].cls, h[o].born} \subseteq names
                           ELSE h[o].attrs = <<>>

StackOK(stack, objects, names) ==
    /\ stack \in Seq(Item(objects, names))
    /\ \A i \in DOMAIN stack :
          /\ stack[i].kind = "store" => i < Len(stack) /\ stack[i + 1].kind = "frame"
          /\ stack[i].kind = "send" => Len(stack[i].args) <= 1

(* Tables, instances and the control stack are what the C types and the    *)
(* order of pushing make of them, and nothing refers to what was not made. *)
TypeOK ==
    /\ outcome \in {"linking", "running", "ended", "error", "undefined"}
    /\ TableOK(classes)
    /\ todo \in Seq((DOMAIN classes) \X LinkSteps)
    /\ HeapOK(heap, Born, DOMAIN classes)
    /\ StackOK(control, Born, DOMAIN classes)

(* the references to o one control item stands for *)
Held(t, o) ==
    CASE t.kind = "frame" -> (IF t.self = o THEN 2 ELSE 0)
                               + Cardinality({v \in Vars : t.vars[v].ref = o})
      [] t.kind = "store" -> IF t.val.ref = o THEN 1 ELSE 0
      [] t.kind = "unref" -> IF t.obj = o THEN 1 ELSE 0
      [] t.kind = "send"  -> (IF t.obj = o THEN 1 ELSE 0) + RefsIn(t.args, o)
      [] OTHER            -> 0

HeldIn(stack, o) ==
    LET upto[i \in 0..Len(stack)] == IF i = 0 THEN 0 ELSE upto[i - 1] + Held(stack[i], o)
    IN  upto[Len(stack)]

(* the attributes of h, each as its object and its place *)
Cells(h) == UNION {{p} \X (DOMAIN h[p].attrs) : p \in Objects}
CellsTo(h, o) == {c \in Cells(h) : h[c[1]].attrs[c[2]].val.ref = o}

References(o) == HeldIn(control, o) + Cardinality(CellsTo(heap, o))

(* iRef of an instance that nothing has released yet is the number of      *)
(* variables, attributes, $this, $parent and operands that refer to it:    *)
(* so it is released exactly when the last of them is gone.                *)
RefsCounted ==
    \A o \in Objects : heap[o].state = "live" => heap[o].iRef = References(o)

(* An instance is of the class it was created from, except while one of    *)
(* its methods runs: then it is of the class of the innermost of them.     *)
LendsOn(t, o) ==
    \/ t.kind = "frame" /\ t.self = o
    \/ t.kind = "restore" /\ t.obj = o

ClassRestored ==
    \A o \in Objects : heap[o].state = "live" =>
        LET lends == {i \in DOMAIN control : LendsOn(control[i], o)}
        IN  IF lends = {} THEN heap[o].cls = heap[o].born
            ELSE LET t == control[Min(lends)]
                 IN  t.kind = "frame" => heap[o].cls = t.cls

InOrder == \A i \in DOMAIN decls : \A b \in Range(decls[i].extends) :
              b \in {decls[j].name : j \in 1..(i - 1)}

PrivateAbove(c, name) ==
    \E b \in Ancestors(decls, c) \ {c} :
        name \in Names(Declaration(decls, b).methods) \ Inheritable(Declaration(decls, b), FALSE)

(* Once its bases are linked before it, a class answers every method name  *)
(* with the declaration a reader finds: its own, else the public or        *)
(* protected one of the first base, in the order of the extends list, that *)
(* has or inherits one.  Names that a class above declares private are left*)
(* out, since PH7_ClassInherit copies private methods, too.                *)
MethodsInherited ==
    outcome = "linking" /\ todo = <<>> /\ InOrder =>
        \A c \in DOMAIN classes :
            "interface" \notin classes[c].marks =>
            \A name \in UNION {Names(classes[b].hMethod) : b \in DOMAIN classes} :
                LET m == MemberMethod(classes, c, "variable", name)
                IN  ~ PrivateAbove(c, name) => Provider(decls, c, name) = IF m = Nil THEN Nil ELSE m.cls

(* What the class functions say agrees with what calls and reads do: a     *)
(* class that has a method by method_exists answers to it, and the other   *)
(* way about; a method finds every attribute of its own class, constants   *)
(* aside, in get_object_vars($this), and the constants through the name of *)
(* the class; what the class declares itself is fetched from an instance   *)
(* as its own, not as a base's; its static methods can be called.          *)
MembersAgree ==
    outcome = "linking" /\ todo = <<>> /\ InOrder =>
        \A c \in DeclaredClasses(classes) :
            /\ \A name \in UNION {Names(classes[b].hMethod) : b \in DOMAIN classes} :
                  /\ MethodExists(classes, c, name)
                         <=> MemberMethod(classes, c, "variable", name) # Nil
                  /\ MethodExists(classes, c, name)
                         <=> name \in Range(GetClassMethods(classes, c))
                  /\ LET m == Get(classes[c].hMethod, name)
                     IN  m # Nil /\ "static" \in m.marks /\ m.cls = c =>
                             StaticMethod(classes, c, c, name) = m
            /\ \A i \in DOMAIN NewInstance(c).attrs :
                  LET new == NewInstance(c)
                      a == new.attrs[i]
                  IN  a.cls = c =>
                          /\ PropertyExists(classes, c, a.name)
                          /\ a.name \in Names(GetClassVars(classes, c, c))
                          /\ a.name \in DOMAIN ToHashmap(new)
                          /\ IF a.const
                             THEN StaticAttribute(classes, c, c, a.name) # Nil
                             ELSE /\ a \in Range(GetObjectVars(classes, c, new))
                                  /\ FetchAttr(new, a.name) = a.val

(* is_a answers what the declarations say: never more than the class, its  *)
(* bases, theirs and their interfaces; and no less, when no class above it *)
(* lists several bases and no interface is reached through another.  The   *)
(* parent class is the first base listed.  is_subclass_of says yes of a    *)
(* class and an interface it lists, and no of two classes with nothing     *)
(* above them in common; of a class and its base it answers with the       *)
(* arguments exchanged, and that is left out.                              *)
KindsAgree ==
    outcome = "linking" /\ todo = <<>> /\ InOrder =>
        \A c \in DeclaredClasses(classes), k \in DOMAIN classes :
            LET above == Ancestors(decls, c)
                plain == \A x \in above \ {c} :
                            Len(Declaration(decls, x).extends)
                                <= IF IsInterface(classes, x) THEN 0 ELSE 1
            IN  /\ InstanceOf(classes, c, k) => k \in above
                /\ plain /\ k \in above => InstanceOf(classes, c, k)
                /\ k \in Range(Declaration(decls, c).extends) =>
                       GetParentClass(classes, c) = Head(Declaration(decls, c).extends)
                /\ k \in Range(Declaration(decls, c).implements) => IsSubclassOf(classes, c, k)
                /\ above \cap Ancestors(decls, k) = {} => ~ IsSubclassOf(classes, c, k)

(* "Two object instances are equal if they have the same attributes and    *)
(* values, and are instances of the same class" (oop.c:723): operands that *)
(* compare equal are equal in that sense.                                  *)
ComparedEqual ==
    InScript =>
        \A s, a \in Vars \cup {"this"} :
            /\ ObjectOperand(s) /\ ObjectOperand(a)
            /\ Compared(heap, Operand(s).ref, Operand(a).ref) = "equal"
            => SameObjects(heap, Operand(s).ref, Operand(a).ref)
=============================================================================
