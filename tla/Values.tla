------------------------------- MODULE Values -------------------------------
(***************************************************************************)
(* Dynamic values (memobj.c): their conversions, comparison, addition and   *)
(* the stores that keep a declared type.                                    *)
(*                                                                          *)
(* A value is a record with its type t and what it holds: n, a number (a    *)
(* real in halves), s, a text, or the entries of an array.  Texts are the   *)
(* decimal forms of small numbers and words without digits.                 *)
(***************************************************************************)
EXTENDS Integers, Sequences, FiniteSets, TLC

CONSTANTS
    MaxNumeral,     \* texts up to this number are read as numbers (bound)
    Code            \* character code of each one-character text in use

Types == {"bool", "call", "char", "int", "obj", "real", "res", "string", "void",
          "array", "null"}

Null == [t |-> "null"]
Void == [t |-> "void"]
Bool(b) == [t |-> "bool", n |-> IF b THEN 1 ELSE 0]
Char(c) == [t |-> "char", n |-> c]
Num(i) == [t |-> "int", n |-> i]
Real(halves) == [t |-> "real", n |-> halves]
Res(handle) == [t |-> "res", n |-> handle]
Str(text) == [t |-> "string", s |-> text]
Callback(text) == [t |-> "call", s |-> text]
\* An instance of one class without attributes, whose cast methods (__toInt,
\* __toString, ...) return `cast`.
Obj(id, cast) == [t |-> "obj", n |-> id, cast |-> cast]
\* An array: entries in order, automatic index, declared type of the elements.
Arr(seq, idx, of) == [t |-> "array", seq |-> seq, idx |-> idx, of |-> of]
EmptyArray == Arr(<<>>, 0, "none")

IsArray(v) == v.t = "array"
IsObj(v) == v.t = "obj"
IsStr(v) == v.t = "string"
IsNull(v) == v.t = "null"

-----------------------------------------------------------------------------
(* Numbers and texts.                                                       *)

Truncated(halves) == IF halves >= 0 THEN halves \div 2 ELSE -((-halves) \div 2)

IntText(i) == ToString(i)
RealText(h) == (IF h < 0 /\ h > -2 THEN "-0" ELSE IntText(Truncated(h)))
               \o (IF h % 2 = 1 THEN ".5" ELSE "")

\* Number, in halves, that a text denotes: SyStrToInt64 and SyStrToReal.
Halves == -2 * MaxNumeral .. 2 * MaxNumeral
Numerals == {RealText(h) : h \in Halves}
HalvesOf == [s \in Numerals |-> CHOOSE h \in Halves : RealText(h) = s]
TextHalves(s) == IF s \in Numerals THEN HalvesOf[s] ELSE 0
TextInt(s) == Truncated(TextHalves(s))
FirstChar(s) == IF s = "" THEN 0 ELSE Code[SubSeq(s, 1, 1)]
CharText(c) == IF c > 0 THEN CHOOSE s \in DOMAIN Code : Code[s] = c ELSE ""

\* MemObjCallClassCastMethod: the result counts when it has the right type.
CastResult(v, types, default) == IF v.cast.t \in types THEN v.cast ELSE default

\* MemObjIntValue
IntValue(v) ==
    CASE v.t = "real" -> Truncated(v.n)
      [] v.t \in {"int", "bool", "char"} -> v.n
      [] v.t = "string" -> TextInt(v.s)
      [] v.t = "array" -> Len(v.seq)
      [] v.t = "obj" -> CastResult(v, {"int"}, Num(1)).n
      [] v.t = "res" -> IF v.n # 0 THEN 1 ELSE 0
      [] OTHER -> 0

\* MemObjRealValue, in halves
RealValue(v) ==
    CASE v.t = "real" -> v.n
      [] v.t = "string" -> TextHalves(v.s)
      [] v.t = "obj" -> CastResult(v, {"real"}, Real(2)).n
      [] OTHER -> 2 * IntValue(v)

\* MemObjStringValue with bStrictBool: FALSE, NULL and void are empty.
StringValue(v) ==
    CASE v.t = "real" -> RealText(v.n)
      [] v.t = "int" -> IntText(v.n)
      [] v.t = "bool" -> IF v.n # 0 THEN "TRUE" ELSE ""
      [] v.t = "char" -> CharText(v.n)
      [] v.t \in {"string", "call"} -> v.s
      [] v.t = "array" -> "Array"
      [] v.t = "obj" -> LET text == CastResult(v, {"string"}, Str("")).s
                        IN  IF text = "" THEN "Object" ELSE text
      [] v.t = "res" -> "ResourceID"
      [] OTHER -> ""

False == {"", "false", "FALSE", "0", "00"}

\* MemObjBooleanValue
BooleanValue(v) ==
    CASE v.t \in {"real", "int", "char", "bool", "res"} -> v.n # 0
      [] v.t = "string" -> v.s \notin False
      [] v.t = "call" -> v.s # ""
      [] v.t = "array" -> v.seq # <<>>
      [] v.t = "obj" -> CastResult(v, {"int", "bool"}, Num(1)).n # 0
      [] OTHER -> FALSE

\* MemObjCharValue
CharValue(v) ==
    CASE v.t = "int" -> v.n
      [] v.t = "string" -> FirstChar(v.s)
      [] OTHER -> 0

-----------------------------------------------------------------------------
(* The casts, PH7_MemObjToInteger and the others.  They change the value    *)
(* they are given, wherever it is.                                          *)
ToInteger(v) == Num(IntValue(v))
ToReal(v) == Real(RealValue(v))
ToBool(v) == Bool(BooleanValue(v))
ToChar(v) == IF v.t = "char" THEN v ELSE Char(CharValue(v))
ToStr(v) == Str(StringValue(v))
ToCallback(v) == Callback(StringValue(v))
ToResource(v) == IF v.t = "res" THEN v ELSE Res(0)

OneEntry(v) == Arr(<<[key |-> Num(0), val |-> v]>>, 1, "none")

\* PH7_MemObjToHashmap (the attributes of an instance are left out)
ToHashmap(v) ==
    CASE v.t = "array" -> v
      [] v.t \in {"null", "res", "obj"} -> EmptyArray
      [] OTHER -> OneEntry(v)

\* PH7_MemObjToObject: a stdClass instance, made from the value.
StdClass == Obj(0, Null)
ToObject(v) == CASE v.t = "obj" -> v [] v.t = "null" -> Obj(0, Null) [] OTHER -> StdClass

\* PH7_MemObjCastMethod
Cast(v, type) ==
    CASE type = "string" -> ToStr(v)
      [] type = "int" -> ToInteger(v)
      [] type = "real" -> ToReal(v)
      [] type = "bool" -> ToBool(v)
      [] type = "char" -> ToChar(v)
      [] type = "obj" -> ToObject(v)
      [] type = "call" -> ToCallback(v)
      [] type = "res" -> ToResource(v)
      [] type = "void" -> Void
      [] OTHER -> Null

\* PH7_MemObjIsNull: what empty() and the tests of the VM call empty.
IsEmpty(v) ==
    CASE v.t = "array" -> v.seq = <<>>
      [] v.t \in {"char", "int", "real", "bool", "res"} -> v.n = 0
      [] v.t = "obj" -> FALSE
      [] v.t = "string" -> v.s \in {"", "0", "00"}
      [] OTHER -> TRUE

IsNumeric(v) == v.t \in {"int", "real"}

\* PH7_MemObjToNumeric.  A text is a number as a whole or counts as zero.
ToNumeric(v) ==
    CASE IsNumeric(v) -> v
      [] v.t = "bool" -> Num(v.n)
      [] v.t = "null" -> Num(0)
      [] v.t = "string" -> IF TextHalves(v.s) % 2 = 1 THEN Real(TextHalves(v.s))
                           ELSE Num(TextInt(v.s))
      [] v.t \in {"obj", "array", "res"} -> ToInteger(v)
      [] OTHER -> ToReal(v)

-----------------------------------------------------------------------------
(* Comparison.                                                              *)

Sign(x, y) == IF x > y THEN 1 ELSE IF x < y THEN -1 ELSE 0
Truth(v) == IF BooleanValue(v) THEN 1 ELSE 0

\* SyMemcmp on the texts in use, then their lengths: the order of their codes.
TextOrder(x, y) ==
    LET common == {i \in 1 .. Len(x) : i <= Len(y)}
        differ == {i \in common : SubSeq(x, i, i) # SubSeq(y, i, i)}
        code(s, i) == Code[SubSeq(s, i, i)]
        first == CHOOSE i \in differ : \A j \in differ : i <= j
    IN  IF differ # {} THEN Sign(code(x, first), code(y, first)) ELSE Sign(Len(x), Len(y))

NumberOrder(x, y) ==
    IF {x.t, y.t} = {"int"} THEN Sign(x.n, y.n) ELSE Sign(RealValue(x), RealValue(y))

\* nType of a value: an array carries the type of its elements.
TypeOf(v) == IF IsArray(v) THEN <<v.t, v.of>> ELSE <<v.t>>

\* `arrays` is what PH7_HashmapCmp says of two arrays.
CmpWith(arrays, v, w, strict) ==
    LET types == {v.t, w.t}
    IN  CASE strict /\ TypeOf(v) # TypeOf(w) -> 1
          [] types \cap {"null", "res", "bool"} # {} -> Sign(Truth(v), Truth(w))
          [] types = {"array"} -> arrays
          [] "array" \in types -> IF IsArray(v) THEN 1 ELSE -1
          [] types = {"obj"} -> IF strict /\ v.n # w.n THEN 1 ELSE 0
          [] "obj" \in types -> IF IsObj(v) THEN 1 ELSE -1
          [] "string" \in types /\ (strict \/ ~(IsNumeric(v) \/ IsNumeric(w))) ->
                 TextOrder(StringValue(v), StringValue(w))
          [] types \cap {"string", "int", "real"} # {} -> NumberOrder(ToNumeric(v), ToNumeric(w))
          [] OTHER -> 0

ScalarCmp(v, w, strict) == CmpWith(0, v, w, strict)

ValuesAt(m, key) == {m.seq[i].val : i \in {j \in 1 .. Len(m.seq) : m.seq[j].key = key}}

\* PH7_HashmapCmp on arrays of scalars: the order of the entries is ignored.
HashmapCmp(m, n, strict) ==
    LET answer(v, found) ==
            IF found = {} THEN 1 ELSE ScalarCmp(v, CHOOSE w \in found : TRUE, strict)
        answers == [i \in 1 .. Len(m.seq) |->
                       answer(m.seq[i].val, ValuesAt(n, m.seq[i].key))]
        First(r) == CHOOSE i \in DOMAIN r : r[i] # 0 /\ \A j \in 1 .. i - 1 : r[j] = 0
        Of(r) == IF \A i \in DOMAIN r : r[i] = 0 THEN 0 ELSE r[First(r)]
    IN  IF Len(m.seq) # Len(n.seq) THEN Sign(Len(m.seq), Len(n.seq)) ELSE Of(answers)

\* PH7_MemObjCmp
Cmp(v, w, strict) == CmpWith(HashmapCmp(v, w, strict), v, w, strict)

\* What the comparison leaves of w, one of the two values it was given.
Compared(w, v, strict) ==
    LET types == {v.t, w.t}
    IN  CASE strict /\ TypeOf(v) # TypeOf(w) -> w
          [] types \cap {"null", "res", "bool"} # {} -> ToBool(w)
          [] types \cap {"array", "obj"} # {} -> w
          [] "string" \in types /\ (strict \/ ~(IsNumeric(v) \/ IsNumeric(w))) -> ToStr(w)
          [] types \cap {"string", "int", "real"} # {} ->
                 IF {ToNumeric(v).t, ToNumeric(w).t} = {"int"} THEN ToNumeric(w) ELSE ToReal(w)
          [] OTHER -> w

-----------------------------------------------------------------------------
(* Stores and addition.                                                     *)

\* PH7_CheckVarCompat: values a variable of a declared scalar type accepts.
Compatible(v, type) ==
    \/ IsNull(v)
    \/ v.t = "int" /\ type \in {"real", "char"}
    \/ v.t = "char" /\ type = "string"
    \/ v.t = "string" /\ (type = "call" \/ (type = "char" /\ Len(v.s) <= 1))

\* PH7_MemObjAdd on anything but arrays.
Added(x, y) ==
    IF {x.t, y.t} = {"int"} THEN Num(x.n + y.n) ELSE Real(RealValue(x) + RealValue(y))
AddNumbers(v, w) == Added(ToNumeric(v), ToNumeric(w))

=============================================================================
