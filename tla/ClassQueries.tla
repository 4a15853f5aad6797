---------------------------- MODULE ClassQueries ----------------------------
(* The questions a script can ask about classes and instances (vm.c and    *)
(* oop.c): is_a, is_subclass_of, get_class_methods, get_object_vars, the   *)
(* conversion of an object to an array, and the comparison of two objects. *)
(* `cs' is a class table, `h' a function from objects to instances; a      *)
(* value is a record [ref, data] with ref Nil unless data is "object".     *)
EXTENDS Classes

IsInterface(cs, c) == "interface" \in cs[c].marks

(* get_declared_classes; the other names are get_declared_interfaces's *)
DeclaredClasses(cs) == {c \in DOMAIN cs : ~ IsInterface(cs, c)}

GetParentClass(cs, c) == IF c = Nil THEN Nil ELSE cs[c].pBase

PropertyExists(cs, c, name) ==
    c # Nil /\ name \in Names(cs[c].hAttr) \cup Names(cs[c].hMethod)

MethodExists(cs, c, name) == c # Nil /\ name \in Names(cs[c].hMethod)

GetClassMethods(cs, c) == [i \in DOMAIN cs[c].hMethod |-> cs[c].hMethod[i].name]

(* get_class_vars and get_object_vars called by a method of class `from':  *)
(* the class asked about stands for the class of every attribute.          *)
GetClassVars(cs, from, c) ==
    SelectSeq(cs[c].hAttr, LAMBDA a : MemberAccess(cs, from, c, a.access))

GetObjectVars(cs, from, instance) ==
    SelectSeq(instance.attrs, LAMBDA a :
        ~ a.const /\ MemberAccess(cs, from, instance.cls, a.access))

(* C::name and C::name() in a method of class `from': Nil when the script  *)
(* is stopped.  Bases are not searched for the attribute.                  *)
StaticAttribute(cs, from, c, name) ==
    LET a == OwnAttribute(cs, c, name)
    IN  IF a = Nil \/ ~ a.const \/ ~ MemberAccess(cs, from, c, a.access)
        THEN Nil ELSE a

StaticMethod(cs, from, c, name) ==
    LET m == IF IsInterface(cs, c) THEN Nil ELSE Get(cs[c].hMethod, name)
    IN  IF \/ m = Nil \/ "virtual" \in m.marks
           \/ "static" \notin m.marks /\ ~ {"final", "virtual"} \subseteq cs[c].marks
           \/ ~ MemberAccess(cs, from, c, m.access)
        THEN Nil ELSE m

(* VmSubclassOf looks for the first class and its bases in the table of    *)
(* the bases of the second.                                                *)
IsSubclassOf(cs, c, base) ==
    \/ BaseChain(cs, c) \cap Names(cs[base].hDerived) # {}
    \/ base \in cs[c].aInterface

(* (array) $o: an element per attribute, the last of one name staying *)
ToHashmap(instance) ==
    [name \in Names(instance.attrs) |->
        Get(Reverse(instance.attrs), name).val]

FetchAttr(instance, name) ==
    LET a == Get(instance.attrs, name)
    IN  IF a = Nil \/ a.const THEN Nil ELSE a.val

-----------------------------------------------------------------------------
(* PH7_ClassInstanceCmp walks both attribute tables with the cursor each   *)
(* table has: cur[o] is the entry o's cursor is at, 0 once it is past the  *)
(* last.  A comparison of two attributes that meets the same instance again*)
(* moves the cursor of the walk it belongs to.  `nest' counts the levels   *)
(* left before the script is stopped; the bound on the entries compared is *)
(* the model's, for walks that restart without end.                        *)
CONSTANTS MaxNest, MaxCompared

Started(h, cur, o) == [cur EXCEPT ![o] = IF h[o].attrs = <<>> THEN 0 ELSE 1]

(* SyHashGetNextEntry: after the last entry it answers none, once *)
Advanced(h, cur, o) ==
    IF cur[o] = 0 THEN Started(h, cur, o)
    ELSE [cur EXCEPT ![o] = IF @ = Len(h[o].attrs) THEN 0 ELSE @ + 1]

Result(cur, rc, done) == [cur |-> cur, rc |-> rc, done |-> done]

(* PH7_MemObjCmp of two attributes; an object type without an object is *)
(* followed all the same.  walk is the loop over the attributes.        *)
InstanceCmp(h, walk, cur, l, r, nest, done) ==
    CASE nest > MaxNest -> Result(cur, "stopped", done)
      [] h[l].cls # h[r].cls -> Result(cur, "different", done)
      [] l = r -> Result(cur, "equal", done)
      [] OTHER -> walk[Started(h, Started(h, cur, l), r), l, r, nest, done]

ValueCmp(h, walk, cur, v, w, nest, done) ==
    IF v.data = "object" /\ w.data = "object"
    THEN InstanceCmp(h, walk, cur, v.ref, w.ref, nest, done)
    ELSE IF {v.data, w.data} \cap {"null"} # {} /\ {v.data, w.data} \subseteq {"null", "object"}
         THEN Result(cur, "crash", done)
         ELSE Result(cur, IF v.data = w.data THEN "equal" ELSE "different", done)

WalkCmp(h) ==
    LET walk[cur \in [DOMAIN h -> Nat], l \in DOMAIN h, r \in DOMAIN h,
             nest \in Nat, done \in Nat] ==
            LET left  == Advanced(h, cur, l)
                both  == Advanced(h, left, r)
                a     == h[l].attrs[cur[l]]
                value == ValueCmp(h, walk, both, a.val, h[r].attrs[left[r]].val,
                                  nest + 1, done + 1)
            IN  CASE done > MaxCompared -> Result(cur, "endless", done)
                  [] cur[l] = 0  -> Result(left, "equal", done)
                  [] left[r] = 0 -> Result(both, "equal", done)
                  [] a.const     -> walk[both, l, r, nest, done + 1]
                  [] value.rc # "equal" -> value
                  [] OTHER -> walk[value.cur, l, r, nest, value.done]
    IN  walk

Compared(h, l, r) == InstanceCmp(h, WalkCmp(h), [o \in DOMAIN h |-> 0], l, r, 0, 0).rc

(* Two objects are equal when they have the same attributes and values and *)
(* are of the same class, through any number of references.                *)
SameValue(R, v, w) == IF v.ref = Nil THEN v = w ELSE <<v.ref, w.ref>> \in R

Matching(h, R) ==
    \A p \in R :
        LET x == h[p[1]] y == h[p[2]]
        IN  /\ x.cls = y.cls
            /\ DOMAIN x.attrs = DOMAIN y.attrs
            /\ \A i \in DOMAIN x.attrs : SameValue(R, x.attrs[i].val, y.attrs[i].val)

SameObjects(h, l, r) ==
    \E R \in SUBSET ((DOMAIN h) \X (DOMAIN h)) : <<l, r>> \in R /\ Matching(h, R)

-----------------------------------------------------------------------------
(* The same questions answered from the declarations alone *)

Above(decls, c) ==
    LET d == Declaration(decls, c) IN Range(d.extends) \cup Range(d.implements)

Ancestors(decls, c) ==
    LET up[n \in 0..Len(decls)] ==
            IF n = 0 THEN {c}
            ELSE up[n - 1] \cup UNION {Above(decls, x) : x \in up[n - 1]}
    IN  up[Len(decls)]
=============================================================================
