----------------------------- MODULE Operators -----------------------------
(***************************************************************************)
(* The instructions of the virtual machine that compute (VmByteCodeExec in  *)
(* vm.c): their operands on the stack, the slot of the value an operand was *)
(* read from (nIdx), and the stores that go through that slot.              *)
(*                                                                          *)
(* A value read from a mixed variable carries the MIXED bit of its type: a  *)
(* field "mixed", or "mixed" as the type of the elements of an array.       *)
(***************************************************************************)
EXTENDS ExprCode, ArrayLib

CONSTANTS
    Width,          \* bits of an integer, in the bitwise operators (bound)
    HostCall(_, _)  \* what a function answers for its arguments

VARIABLES
    prog,       \* the instructions
    pc,         \* the next one
    stack,      \* operands: [val, slot], slot = <<>>, <<name>> or <<name, key>>
    vars,       \* the declared variables
    outcome     \* "running", "error", or "undefined": an error stops the script

vmvars == <<prog, pc, stack, vars, outcome>>

Error == [t |-> "error"]
Undefined == [t |-> "undefined"]
IsValue(v) == v.t \in Types

-----------------------------------------------------------------------------
(* Types: MEMOBJ_MIXED, and the store that keeps a declared type.           *)

IsMixed(v) == IF IsArray(v) THEN v.of = "mixed" ELSE "mixed" \in DOMAIN v
Mixed(v) == IF IsArray(v) THEN [v EXCEPT !.of = "mixed"] ELSE v @@ [mixed |-> TRUE]
Plain(v) == [f \in DOMAIN v \ {"mixed"} |-> v[f]]
\* MemObjSetType leaves the bit of the value it converts.
Keep(old, new) == IF IsMixed(old) THEN Mixed(new) ELSE new

\* PH7_HashmapCast.  The elements are converted where they are, which the
\* array the value was read from shares.
HashmapCast(a, of) ==
    LET fits(v) == ~IsArray(v) /\ ((v.t = of /\ ~IsMixed(v)) \/ Compatible(v, of))
    IN  IF a.of = of THEN a
        ELSE IF \A i \in DOMAIN a.seq : fits(a.seq[i].val)
        THEN [a EXCEPT !.seq = [i \in DOMAIN @ |-> Entry(@[i].key, Keep(@[i].val, Cast(@[i].val, of)))], !.of = of]
        ELSE Error

\* PH7_MemObjSafeStore: what the variable that holds dest holds then.
StoreScalar(v, dest) ==
    CASE IsNull(v) -> IF IsMixed(dest) THEN Mixed(Void) ELSE Cast(v, dest.t)
      [] IsArray(v) -> Error
      [] IsMixed(dest) -> Mixed(v)
      [] v.t = dest.t /\ ~IsMixed(v) -> v
      [] Compatible(v, dest.t) -> Keep(v, Cast(v, dest.t))
      [] OTHER -> Error
StoreArray(v, dest) ==
    CASE IsNull(v) -> Arr(<<>>, 0, dest.of)
      [] ~IsArray(v) -> Error
      [] IsMixed(dest) -> Mixed(v)
      [] OTHER -> HashmapCast(v, dest.of)
SafeStore(v, dest) ==
    CASE IsNull(dest) -> IF IsNull(v) THEN Void ELSE v
      [] IsArray(dest) -> StoreArray(v, dest)
      [] OTHER -> StoreScalar(v, dest)

\* What it leaves of the value.
Stored(v, dest) == IF IsMixed(dest) /\ ~(IsNull(v) /\ IsArray(dest)) THEN v ELSE SafeStore(v, dest)

-----------------------------------------------------------------------------
(* Operators on values.                                                     *)

Multiplied(x, y) ==
    IF {x.t, y.t} = {"int"} THEN Num(x.n * y.n)
    ELSE Real(Truncated(RealValue(x) * RealValue(y)))
Product(v, w) == Multiplied(ToNumeric(v), ToNumeric(w))

\* PH7_HashmapUnion and PH7_MemObjAdd
HashmapUnion(a, b) ==
    FoldLeft(LAMBDA r, e : IF HasKey(r, e.key) THEN r ELSE InsertRaw(r, e.key, e.val), a, b.seq)
AsArray(v) == IF IsNull(v) THEN EmptyArray ELSE IF IsArray(v) THEN v ELSE Push(EmptyArray, Plain(v))
Sum(v, w) ==
    CASE "string" \in {v.t, w.t} -> Str(StringValue(v) \o StringValue(w))
      [] IsArray(v) -> [HashmapUnion(v, AsArray(w)) EXCEPT !.of = "none"]
      [] IsArray(w) -> [HashmapUnion(AsArray(v), w) EXCEPT !.of = "none"]
      [] OTHER -> AddNumbers(v, w)

\* SUB reads the integer of an operand whatever its type: of a text, that is
\* what was left there.
Difference(v, w) ==
    CASE "real" \in {v.t, w.t} -> Real(RealValue(v) - RealValue(w))
      [] {v.t, w.t} \subseteq {"int", "bool", "char"} -> Num(v.n - w.n)
      [] OTHER -> Undefined

Magnitude(i) == IF i < 0 THEN -i ELSE i
RemainderOf(a, b) ==
    LET r == Magnitude(a) % Magnitude(b)
    IN  IF b = 0 THEN Error ELSE Num(IF a < 0 THEN -r ELSE r)
Remainder(v, w) ==
    RemainderOf(IntValue(v), IntValue(w))

\* The quotient of two reals, in halves (rounded toward zero).
QuotientOf(a, b) ==
    LET q == (2 * Magnitude(a)) \div Magnitude(b)
    IN  IF b = 0 THEN Error ELSE Real(IF (a < 0) = (b < 0) THEN q ELSE -q)
Quotient(v, w) == QuotientOf(RealValue(v), RealValue(w))

BitSet(i) == {k \in 0 .. Width - 1 : ((i % 2^Width) \div 2^k) % 2 = 1}
FromBits(S) == LET n == FoldSet(LAMBDA k, sum : 2^k + sum, 0, S)
               IN  IF Width - 1 \in S THEN n - 2^Width ELSE n
Bitwise(op, a, b) ==
    CASE op = "&" -> a \cap b
      [] op = "|" -> a \cup b
      [] OTHER -> (a \cup b) \ (a \cap b)
Bits(op, v, w) == Num(FromBits(Bitwise(op, BitSet(IntValue(v)), BitSet(IntValue(w)))))

\* A negative count is undefined in C.
ShiftedBy(op, a, b) ==
    IF b \notin 0 .. Width - 1 THEN Undefined
    ELSE Num(IF op = "<<" THEN a * 2^b ELSE a \div 2^b)
Shifted(op, v, w) == ShiftedBy(op, IntValue(v), IntValue(w))

Order(op, r) ==
    CASE op = "==" -> r = 0    [] op \in {"!=", "<>"} -> r # 0
      [] op = "<" -> r < 0     [] op = "<=" -> r < 1
      [] op = ">" -> r > 0     [] OTHER -> r >= 0
Compare(op, v, w) == Order(op, Cmp(v, w, FALSE))

Relational == {"==", "!=", "<>", "<", "<=", ">", ">="}
LogicOf(op, a, b) == CASE op = "&&" -> a /\ b   [] op = "||" -> a \/ b   [] OTHER -> a # b
Logic(op, v, w) == LogicOf(op, BooleanValue(v), BooleanValue(w))

\* The result of a binary operator takes the place of its left operand and,
\* but for a comparison, that operand's MIXED bit.
Computed(op, v, w) ==
    CASE op = "+" -> Sum(v, w)          [] op = "-" -> Difference(v, w)
      [] op = "*" -> Product(v, w)      [] op = "/" -> Quotient(v, w)
      [] op = "%" -> Remainder(v, w)    [] op \in {"&", "|", "^"} -> Bits(op, v, w)
      [] op \in {"<<", ">>"} -> Shifted(op, v, w)
      [] op \in Relational -> Bool(Compare(op, v, w))
      [] OTHER -> Bool(Logic(op, v, w))
KeepIfValue(old, new) == IF IsValue(new) THEN Keep(old, new) ELSE new
Result(op, v, w) ==
    KeepIfValue(IF op \in Relational THEN Null ELSE v, Computed(op, v, w))

\* The casts CVT_INT and so on; the signs, !, and ~.
CastOps == {"CVT_INT", "CVT_REAL", "CVT_STR", "CVT_BOOL", "CVT_CHAR", "CVT_CALL", "CVT_RES", "CVT_VOID"}
CastTo(op, v) ==
    CASE op = "CVT_INT" -> ToInteger(v)     [] op = "CVT_REAL" -> ToReal(v)
      [] op = "CVT_STR" -> ToStr(v)         [] op = "CVT_BOOL" -> ToBool(v)
      [] op = "CVT_CHAR" -> ToChar(v)       [] op = "CVT_CALL" -> ToCallback(v)
      [] op = "CVT_RES" -> ToResource(v)    [] OTHER -> Void
Signed(op, v) ==
    CASE op = "UMINUS" -> [ToNumeric(v) EXCEPT !.n = -@]
      [] op = "UPLUS" -> ToNumeric(v)
      [] op = "LNOT" -> Bool(~BooleanValue(v))
      [] OTHER -> Num(-IntValue(v) - 1)
UnaryOps == CastOps \cup {"UMINUS", "UPLUS", "LNOT", "BITNOT"}
UnaryResult(op, v) ==
    CASE op = "CVT_VOID" /\ v.t # "void" -> Void
      [] op \in CastOps -> Keep(v, CastTo(op, v))
      [] OTHER -> Keep(v, Signed(op, v))
BinaryOps == {"+", "-", "*", "/", "%", "&", "|", "^", "<<", ">>", "&&", "||", "^^"} \cup Relational

\* a op= v: ADD_STORE joins texts only when the target is one; the others
\* leave the MIXED bit of the value.
CompoundOf == [tok \in Assignments \ {"="} |-> SubSeq(tok, 1, Len(tok) - 1)]
CompoundResult(op, v, target) ==
    CASE op = "+" /\ target.t = "string" -> Keep(target, Str(target.s \o StringValue(v)))
      [] op = "+" /\ (IsArray(v) \/ IsArray(target)) ->
             [HashmapUnion(ToHashmap(target), AsArray(v)) EXCEPT !.of = IF IsMixed(target) THEN "mixed" ELSE "none"]
      [] op = "+" -> Keep(target, AddNumbers(target, v))
      [] OTHER -> KeepIfValue(v, Computed(op, target, v))

\* value is type: an array also tells the type of its elements.
IsOfType(v, type) == type = IF IsArray(v) THEN <<"array", v.of>> ELSE <<v.t>>

-----------------------------------------------------------------------------
(* The machine.                                                             *)

Cell(val, slot) == [val |-> val, slot |-> slot]
Constant(val) == Cell(val, <<>>)        \* nIdx = SXU32_HIGH
pTos == stack[Len(stack)]
pNos == stack[Len(stack) - 1]
Popped(n) == SubSeq(stack, 1, Len(stack) - n)

Running(op) == outcome = "running" /\ pc <= Len(prog) /\ prog[pc].op = op
pInstr == prog[pc]

Go(target, cells) ==
    /\ pc' = target /\ stack' = cells
    /\ UNCHANGED <<prog, outcome>>
Stop(why) == outcome' = why /\ UNCHANGED <<prog, pc, stack, vars>>
\* Replace n operands with a value, unless computing it failed.
Answer(n, val, slot) ==
    IF IsValue(val) THEN Go(pc + 1, Append(Popped(n), Cell(val, slot))) /\ UNCHANGED vars
    ELSE Stop(val.t)

\* PH7_MemObjStore into the slot an operand was read from.
StoreAt(slot, val) ==
    IF Len(slot) = 1 THEN [vars EXCEPT ![slot[1]] = val]
    ELSE [vars EXCEPT ![slot[1]] = Insert(@, slot[2], val)]
ValueAt(slot) ==
    IF Len(slot) = 1 THEN vars[slot[1]]
    ELSE LET a == vars[slot[1]] IN a.seq[CHOOSE i \in EntryAt(a, slot[2]) : TRUE].val

\* DECLARE: a name can be declared once.
Default(type) ==
    CASE type[1] = "array" -> Arr(<<>>, 0, type[2])
      [] type[1] = "mixed" -> Mixed(Void)
      [] OTHER -> Cast(Null, type[1])
Declare ==
    /\ Running("DECLARE")
    /\ IF pInstr.p3 \in DOMAIN vars THEN Stop("error")
       ELSE /\ vars' = vars @@ (pInstr.p3 :> Default(pInstr.p2))
            /\ Go(pc + 1, Append(stack, Constant(Null)))

\* A name stands for a constant, but for the name of a type.
LoadConstant ==
    /\ Running("LOADC")
    /\ LET name == pInstr.p1 = 1 /\ ~(pc < Len(prog) /\ prog[pc+1].op = "IS")
       IN  Answer(0, IF name THEN Error ELSE pInstr.p3, <<>>)

LoadVariable ==
    /\ Running("LOADV")
    /\ Answer(0, IF pInstr.p3 \in DOMAIN vars THEN vars[pInstr.p3] ELSE Error, <<pInstr.p3>>)

\* The type of the elements is that of the first value, or mixed.
LoadMap ==
    LET n == pInstr.p1 \div 2
        operand(i) == stack[Len(stack) - 2 * n + i].val
        values == [i \in 1 .. n |-> operand(2 * i)]
        of == IF n = 0 THEN "none"
              ELSE IF \A i \in 1 .. n : values[i].t = values[1].t /\ ~IsMixed(values[i])
              THEN values[1].t ELSE "mixed"
        entry(r, i) == IF IsNull(operand(2 * i - 1)) THEN Push(r, values[i])
                       ELSE Insert(r, operand(2 * i - 1), values[i])
        map == FoldLeft(entry, EmptyArray, [i \in 1 .. n |-> i])
    IN  Running("LOAD_MAP") /\ Answer(2 * n, [map EXCEPT !.of = of], <<>>)

\* A subscript that is stored to makes the element it does not find.
Grow(n, slot, grown) ==
    IF slot = <<>> THEN Go(pc + 1, Append(Popped(n), Constant(Null))) /\ UNCHANGED vars
    ELSE /\ vars' = StoreAt(slot, grown)
         /\ Go(pc + 1, Append(Popped(n), Cell(Null, Append(slot, Last(grown.seq).key))))
LoadIndex ==
    LET none == pInstr.p1 = 0
        base == IF none THEN pTos ELSE pNos
        n == 1 + pInstr.p1
        key == IF none THEN NoKey ELSE LookupKey(pTos.val)
        found == IF none THEN {} ELSE EntryAt(base.val, key)
    IN  /\ Running("LOAD_IDX")
        /\ CASE none /\ pInstr.p2 = 0 -> Stop("error")
             [] IsStr(base.val) /\ none -> Answer(n, base.val, base.slot)
             [] IsStr(base.val) ->
                    IF pTos.val.t = "int" /\ pTos.val.n \in 0 .. Len(base.val.s) - 1
                    THEN Answer(n, Str(SubSeq(base.val.s, pTos.val.n + 1, pTos.val.n + 1)), base.slot)
                    ELSE Stop("error")
             [] ~IsArray(base.val) -> Stop("error")
             [] found # {} -> Answer(n, base.val.seq[CHOOSE i \in found : TRUE].val,
                                     IF base.slot # <<>> THEN Append(base.slot, key) ELSE <<>>)
             [] pInstr.p2 = 1 ->
                    Grow(n, base.slot, Insert(base.val, IF none THEN NoKey ELSE pTos.val, Null))
             [] OTHER -> Stop("error")

\* An array the value was read from sees its elements converted.
Converted(v, left) ==
    IF IsArray(v) /\ Len(pTos.slot) = 1 THEN StoreAt(pTos.slot, [left EXCEPT !.of = v.of]) ELSE vars
StoreIn(name, new, left) ==
    IF ~IsValue(new) THEN Stop("error")
    ELSE /\ vars' = [Converted(pTos.val, left) EXCEPT ![name] = new]
         /\ Go(pc + 1, Append(Popped(1), Cell(left, pTos.slot)))
Store ==
    LET name == pInstr.p3
    IN  /\ Running("STORE")
        /\ IF name \notin DOMAIN vars THEN Stop("error")
           ELSE StoreIn(name, SafeStore(pTos.val, vars[name]), Stored(pTos.val, vars[name]))

\* The value a container takes: one of the type of its elements, or made so.
Element(v, container) ==
    LET of == IF IsArray(container) THEN container.of ELSE container.t
    IN  CASE IsArray(v) -> Undefined        \* arrays of arrays are left out
          [] IsMixed(container) \/ v.t = of -> v
          [] IsArray(container) /\ Compatible(v, of) -> Keep(v, Cast(v, of))
          [] OTHER -> Error
\* A text takes the first character of the value at an offset, or at its end.
StoreChar(text, offset, v) ==
    LET c == SubSeq(StringValue(v), 1, 1)
    IN  IF offset \in 0 .. Len(text) - 1 /\ c # ""
        THEN SubSeq(text, 1, offset) \o c \o SubSeq(text, offset + 2, Len(text)) ELSE text \o c
StoreInText(n, key, base, value) ==
    LET text == IF n = 0 THEN base.val.s \o StringValue(value.val)
                ELSE StoreChar(base.val.s, key.n, value.val)
    IN  IF n = 1 /\ key.t # "int" THEN Stop("undefined")
        ELSE /\ vars' = StoreAt(base.slot, Keep(base.val, Str(text)))
             /\ Go(pc + 1, Append(Popped(n + 2), Cell(Keep(value.val, ToStr(value.val)), value.slot)))
StoreInArray(n, key, base, new, slot) ==
    IF ~IsValue(new) THEN Stop(new.t)
    ELSE /\ vars' = StoreAt(base.slot, Insert(Keep(base.val, ToHashmap(base.val)), key, new))
         /\ Go(pc + 1, Append(Popped(n + 2), Cell(new, slot)))
StoreIndex ==
    LET n == pInstr.p1
        key == IF n = 0 THEN NoKey ELSE pTos.val
        base == IF n = 0 THEN pTos ELSE pNos
        value == stack[Len(stack) - n - 1]
    IN  /\ Running("STORE_IDX")
        /\ IF IsStr(base.val) THEN StoreInText(n, key, base, value)
           ELSE StoreInArray(n, key, base, Element(value.val, base.val), value.slot)

\* INCR and DECR: the slot changes, and the operand when the sign comes first.
Step ==
    LET by == IF pInstr.op = "INCR" THEN 1 ELSE -1
        next(v) == [v EXCEPT !.n = @ + IF v.t = "real" THEN 2 * by ELSE by]
        new == next(IF pTos.slot = <<>> THEN pTos.val ELSE ValueAt(pTos.slot))
    IN  /\ Running("INCR") \/ Running("DECR")
        /\ IF ~IsNumeric(pTos.val) THEN Stop("error")
           ELSE /\ vars' = IF pTos.slot = <<>> THEN vars ELSE StoreAt(pTos.slot, new)
                /\ Go(pc + 1, IF pInstr.p1 = 1 THEN Append(Popped(1), Cell(new, pTos.slot)) ELSE stack)

Unop == \E op \in UnaryOps : Running(op) /\ Answer(1, UnaryResult(op, pTos.val), pTos.slot)

\* An ADD with p2 joins p1 operands as texts.
Concatenate ==
    /\ Running("+") /\ pInstr.p2 = 1
    /\ LET first == Len(stack) - pInstr.p1 + 1
           texts == [i \in 1 .. pInstr.p1 |-> StringValue(stack[first + i - 1].val)]
       IN  Answer(pInstr.p1, Keep(stack[first].val, Str(FoldLeft(LAMBDA x, y : x \o y, "", texts))),
                  stack[first].slot)
Binop == \E op \in BinaryOps :
    Running(op) /\ pInstr.p2 = 0 /\ Answer(2, Result(op, pNos.val, pTos.val), pNos.slot)

\* a op= v, with the target on top.  Nothing asks for the type it was declared
\* with.  The result takes the place of the value.
StoreBack(r) ==
    IF ~IsValue(r) THEN Stop(r.t)
    ELSE IF pTos.slot = <<>> THEN Stop("error")
    ELSE vars' = StoreAt(pTos.slot, r) /\ Go(pc + 1, Append(Popped(2), Cell(r, pNos.slot)))
Compound == \E tok \in DOMAIN CompoundOf :
    Running(tok) /\ StoreBack(CompoundResult(CompoundOf[tok], pNos.val, pTos.val))

\* ??: the left operand is on top.
NullCoalesce ==
    /\ Running("??")
    /\ Answer(2, IF IsEmpty(pTos.val) THEN pNos.val ELSE pTos.val, pNos.slot)

Is == Running("IS") /\ Answer(2, Bool(IsOfType(pNos.val, pInstr.p2)), pNos.slot)

Jump == Running("JMP") /\ Go(pInstr.p2, stack) /\ UNCHANGED vars
\* JMPZ and JMPNZ; with p1 the condition stays, as a truth value.
JumpIf ==
    LET truth == BooleanValue(pTos.val)
        kept == Append(Popped(1), [pTos EXCEPT !.val = Keep(@, ToBool(@))])
    IN  /\ Running("JMPZ") \/ Running("JMPNZ")
        /\ Go(IF truth = (pInstr.op = "JMPNZ") THEN pInstr.p2 ELSE pc + 1,
              IF pInstr.p1 = 1 THEN kept ELSE Popped(1))
        /\ UNCHANGED vars

Call ==
    /\ Running("CALL")
    /\ LET n == pInstr.p1
           args == [i \in 1 .. n |-> stack[Len(stack) - n - 1 + i].val]
       IN  Answer(n + 1, HostCall(pTos.val, args), <<>>)

Pop == Running("POP") /\ Go(pc + 1, Popped(1)) /\ UNCHANGED vars

Execute ==
    \/ Declare \/ LoadConstant \/ LoadVariable \/ LoadMap \/ LoadIndex \/ Store \/ StoreIndex
    \/ Step \/ Unop \/ Concatenate \/ Binop \/ Compound \/ NullCoalesce \/ Is
    \/ Jump \/ JumpIf \/ Call \/ Pop

=============================================================================
