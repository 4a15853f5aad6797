---------------------------- MODULE Expressions ----------------------------
(***************************************************************************)
(* From the tokens of an expression to its effect: the parser (ExprTree),   *)
(* the code generator (ExprCode) and the machine (Operators) against a      *)
(* definition of what an expression means that knows neither trees nor      *)
(* instructions nor a stack.  It cuts the tokens at the operator that binds *)
(* least, and works on values.                                              *)
(***************************************************************************)
EXTENDS Operators

CONSTANTS
    Declarations,   \* the declarations a script starts with
    Sources         \* the expressions a script may read

VARIABLES
    source,     \* the expression read, or <<>>
    before      \* the variables it found

allvars == <<vmvars, source, before>>

-----------------------------------------------------------------------------
(* The meaning of an expression.                                            *)

\* What evaluating answers: the value, the variables, and the place read.
Got(val, env, place) == [val |-> val, env |-> env, place |-> place]
Failed(env) == Got(Error, env, <<>>)

Depth(toks, i) == Count(toks, Openers, i - 1) - Count(toks, Closers, i - 1)
Outside(toks, S) == {i \in DOMAIN toks : toks[i] \in S /\ Depth(toks, i) = 0}
From(toks, i) == SubSeq(toks, i, Len(toks))
Upto(toks, i) == SubSeq(toks, 1, i - 1)

\* Operators with two operands, and where to cut: at the last operator of the
\* loosest level, at the first where operators group from the right.
InfixOps == UNION {Levels[p] : p \in 6 .. 20}
Cut(toks) ==
    LET found == Outside(toks, InfixOps)
        level == Max({Prec[toks[i]] : i \in found})
        loosest == {i \in found : Prec[toks[i]] = level}
        first == Min(Outside(toks, Levels[19] \cup Levels[20]))
    IN  IF level >= 19 THEN first ELSE IF level = 18 THEN Min(loosest) ELSE Max(loosest)

\* The colon that answers the question mark at i.
Colon(toks, i) ==
    Min({j \in Outside(toks, {":"}) : j > i /\ Cardinality({k \in Outside(toks, {"?"}) : k \in i .. j})
                                              = Cardinality({k \in Outside(toks, {":"}) : k \in i .. j})})

\* The bracket that the last token closes.
Opening(toks) == Max({i \in DOMAIN toks : toks[i] \in Openers /\ Depth(toks, i) = 0})
\* The arguments of a call.
RECURSIVE Parts(_)
Parts(toks) ==
    LET commas == Outside(toks, {","})
    IN  IF toks = <<>> THEN <<>>
        ELSE IF commas = {} THEN <<toks>>
        ELSE <<Upto(toks, Min(commas))>> \o Parts(From(toks, Min(commas) + 1))

Put(env, place, val) ==
    IF Len(place) = 1 THEN [env EXCEPT ![place[1]] = val]
    ELSE [env EXCEPT ![place[1]] = Insert(@, place[2], val)]

ElementOf(a, key) == a.seq[CHOOSE i \in EntryAt(a, key) : TRUE].val

RECURSIVE Meaning(_, _)

\* One after the other, until one fails.
WithNext(r, m) == [ok |-> IsValue(m.val), vals |-> Append(r.vals, m.val), env |-> m.env]
AllMeanings(list, env) ==
    FoldLeft(LAMBDA r, toks : IF r.ok THEN WithNext(r, Meaning(toks, r.env)) ELSE r,
             [ok |-> TRUE, vals |-> <<>>, env |-> env], list)

\* The character of a text or the element of an array at an index.
Letter(base, i, env) ==
    IF i \in 0 .. Len(base.val.s) - 1
    THEN Got(Str(SubSeq(base.val.s, i + 1, i + 1)), env, base.place) ELSE Failed(env)
ElementAt(base, key, env) ==
    IF HasKey(base.val, key)
    THEN Got(ElementOf(base.val, key), env, IF base.place = <<>> THEN <<>> ELSE Append(base.place, key))
    ELSE Failed(env)
Fetched(base, index) ==
    CASE IsStr(base.val) /\ index.val.t = "int" -> Letter(base, index.val.n, index.env)
      [] IsArray(base.val) -> ElementAt(base, LookupKey(index.val), index.env)
      [] OTHER -> Failed(index.env)

\* The keys and values of an array literal, in turn; then the array.
EntryOf(r, k, toks) == LET m == Meaning(toks, k.env)
                       IN  [seq |-> r.seq \o <<k.val, m.val>>, env |-> m.env]
Listed(entries, env) ==
    FoldLeft(LAMBDA r, e : EntryOf(r, IF e.key = <<>> THEN Got(Null, r.env, <<>>)
                                      ELSE Meaning(e.key, r.env), e.val),
             [seq |-> <<>>, env |-> env], entries)
ArrayOf(all, n) ==
    LET add(a, i) == IF IsNull(all.seq[2 * i - 1]) THEN Push(a, all.seq[2 * i])
                     ELSE Insert(a, all.seq[2 * i - 1], all.seq[2 * i])
        types == {all.seq[2 * i].t : i \in 1 .. n}
    IN  Got([FoldLeft(add, EmptyArray, [i \in 1 .. n |-> i]) EXCEPT
               !.of = IF n = 0 THEN "none" ELSE IF Cardinality(types) > 1 THEN "mixed" ELSE all.seq[2].t],
            all.env, <<>>)

JoinedTexts(all) ==
    CASE ~all.ok -> Failed(all.env)
      [] all.ok /\ Len(all.vals) = 1 -> Got(all.vals[1], all.env, <<>>)
      [] OTHER -> Got(Keep(all.vals[1], Str(FoldLeft(LAMBDA s, v : s \o StringValue(v), "", all.vals))),
                      all.env, <<>>)

AtomMeaning(tok, env) ==
    CASE tok \in DOMAIN env -> Got(env[tok], env, <<tok>>)
      [] tok \in DOMAIN ArrayLiterals ->
             ArrayOf(Listed(ArrayLiterals[tok], env), Len(ArrayLiterals[tok]))
      [] tok \in DOMAIN Templates ->
             JoinedTexts(AllMeanings([i \in DOMAIN Templates[tok] |-> Templates[tok][i].toks], env))
      [] tok \in DOMAIN Literals -> Got(Literals[tok], env, <<>>)
      [] OTHER -> Failed(env)

\* Calls, subscripts, parentheses and atoms.
Called(f, args) ==
    IF args.ok THEN Got(HostCall(Str(f), args.vals), args.env, <<>>) ELSE Failed(args.env)
Subscripted(base, inner) == Fetched(base, Meaning(inner, base.env))
Bracketed(toks, open, env) ==
    LET inner == SubSeq(toks, open + 1, Len(toks) - 1)
    IN  CASE toks[open] = "(" -> Meaning(inner, env)
          [] toks[open] = "call" -> Called(toks[1], AllMeanings(Parts(inner), env))
          [] OTHER -> Subscripted(Meaning(Upto(toks, open), env), inner)
PrimaryMeaning(toks, env) ==
    IF Len(toks) = 1 THEN AtomMeaning(toks[1], env)
    ELSE IF Last(toks) \in Closers THEN Bracketed(toks, Opening(toks), env) ELSE Failed(env)

\* Signs, casts and steps.
Signs(op, m) == IF IsValue(m.val) THEN [m EXCEPT !.val = UnaryResult(op, @)] ELSE m
Moved(m, new, first) ==
    Got(IF first THEN new ELSE m.val, IF m.place = <<>> THEN m.env ELSE Put(m.env, m.place, new), m.place)
Steps(sign, m, first) ==
    LET by == (IF sign = "++" THEN 1 ELSE -1) * (IF m.val.t = "real" THEN 2 ELSE 1)
    IN  IF IsNumeric(m.val) THEN Moved(m, [m.val EXCEPT !.n = @ + by], first) ELSE Failed(m.env)
OperandMeaning(toks, env) ==
    LET first == toks[1] \in Levels[3]
    IN  IF toks[1] \in Prefix THEN Signs(OpCode(toks[1]), Meaning(Tail(toks), env))
        ELSE IF first \/ Last(toks) \in Levels[3]
        THEN Steps(IF first THEN toks[1] ELSE Last(toks),
                   PrimaryMeaning(IF first THEN Tail(toks) ELSE Front(toks), env), first)
        ELSE PrimaryMeaning(toks, env)

\* target op value: the value, v, comes first.
Updated(v, old, new) ==
    IF ~IsValue(old.val) \/ ~IsValue(new) \/ old.place = <<>> THEN Failed(old.env)
    ELSE Got(new, Put(old.env, old.place, new), v.place)
UpdateMeaning(op, v, old) == Updated(v, old, CompoundResult(CompoundOf[op], v.val, old.val))

VariableStored(v, name, new, left) ==
    IF IsValue(new) THEN Got(left, Put(v.env, <<name>>, new), v.place) ELSE Failed(v.env)

\* base is the text or the array, index what Meaning says of the brackets.
TextStored(v, base, index, text) ==
    Got(Keep(v.val, ToStr(v.val)), Put(index.env, base.place, Str(text)), v.place)
ArrayStored(v, base, index, new) ==
    IF index.val.t = "error" \/ ~IsValue(new) THEN Failed(index.env)
    ELSE Got(new, Put(index.env, base.place, Insert(Keep(base.val, ToHashmap(base.val)), index.val, new)), v.place)
PartStored(v, base, index) ==
    IF IsStr(base.val)
    THEN TextStored(v, base, index, IF index.val = NoKey THEN base.val.s \o StringValue(v.val)
                                    ELSE StoreChar(base.val.s, index.val.n, v.val))
    ELSE ArrayStored(v, base, index, Element(v.val, base.val))
PartMeaning(v, base, inner) ==
    PartStored(v, base, IF inner = <<>> THEN Got(NoKey, base.env, <<>>) ELSE Meaning(inner, base.env))

StoreMeaning(op, target, v) ==
    CASE ~IsValue(v.val) -> v
      [] IsValue(v.val) /\ op # "=" -> UpdateMeaning(op, v, Meaning(target, v.env))
      [] IsValue(v.val) /\ op = "=" /\ Len(target) = 1 ->
             VariableStored(v, target[1], SafeStore(v.val, v.env[target[1]]), Stored(v.val, v.env[target[1]]))
      [] OTHER -> PartMeaning(v, Meaning(Upto(target, Opening(target)), v.env),
                              SubSeq(target, Opening(target) + 1, Len(target) - 1))

\* preferred ?? default: the default comes first.
Coalesced(default, preferred) ==
    IF IsValue(preferred.val) /\ IsEmpty(preferred.val) THEN [default EXCEPT !.env = preferred.env]
    ELSE [preferred EXCEPT !.place = default.place]
CoalesceMeaning(toks, default) ==
    IF IsValue(default.val) THEN Coalesced(default, Meaning(toks, default.env)) ELSE default

BothKnown(op, left, right) ==
    IF IsValue(right.val) THEN Got(Result(op, left.val, right.val), right.env, left.place) ELSE right
\* What follows the operator is looked at only when it is needed.
LeftValue(op, left, toks, i) ==
    CASE op = "?" -> Meaning(IF BooleanValue(left.val) THEN SubSeq(toks, i + 1, Colon(toks, i) - 1)
                             ELSE From(toks, Colon(toks, i) + 1), left.env)
      [] op \in {"&&", "||"} /\ BooleanValue(left.val) = (op = "||") ->
             [left EXCEPT !.val = Keep(@, ToBool(@))]
      [] op = "is" -> Got(Bool(IsOfType(left.val, IF Len(toks) = i + 1 THEN <<TypeOfName[toks[i+1]]>>
                                                  ELSE <<"array", TypeOfName[toks[i+1]]>>)),
                          left.env, left.place)
      [] OTHER -> BothKnown(op, left, Meaning(From(toks, i + 1), left.env))
LeftKnown(op, left, toks, i) == IF IsValue(left.val) THEN LeftValue(op, left, toks, i) ELSE left
InfixMeaning(toks, i, env) ==
    CASE toks[i] \in Assignments -> StoreMeaning(toks[i], Upto(toks, i), Meaning(From(toks, i + 1), env))
      [] toks[i] = "??" -> CoalesceMeaning(Upto(toks, i), Meaning(From(toks, i + 1), env))
      [] OTHER -> LeftKnown(toks[i], Meaning(Upto(toks, i), env), toks, i)

Meaning(toks, env) ==
    IF Outside(toks, InfixOps) = {} THEN OperandMeaning(toks, env)
    ELSE InfixMeaning(toks, Cut(toks), env)

\* The tokens as the passes see them.
Read(toks) == [i \in DOMAIN toks |-> Named(toks, i)]

-----------------------------------------------------------------------------
(* The script: its declarations, then one expression.                       *)

Prologue == FoldLeft(LAMBDA code, d : code \o DeclarationCode(d, Len(code) + 1), <<>>, Declarations)

Init ==
    /\ prog = Prologue /\ pc = 1
    /\ stack = <<>> /\ vars = <<>>
    /\ outcome = "running"
    /\ source = <<>> /\ before = <<>>

\* The instructions of the declarations are dropped, and the POP of the
\* expression, to look at its value.
ReadExpression(toks) ==
    /\ source = <<>> /\ pc = Len(prog) + 1
    /\ Accepted(toks)
    /\ source' = toks /\ before' = vars
    /\ prog' = Front(ExpressionCode(toks, 1)) /\ pc' = 1
    /\ UNCHANGED <<stack, vars, outcome>>

Next ==
    \/ \E toks \in Sources : ReadExpression(toks)
    \/ Execute /\ UNCHANGED <<source, before>>

Spec == Init /\ [][Next]_allvars
Finished == source # <<>> /\ (outcome # "running" \/ pc = Len(prog) + 1)

-----------------------------------------------------------------------------
(* Properties.                                                              *)

Agrees(m) ==
    IF outcome = "error" THEN ~IsValue(m.val)
    ELSE Len(stack) = 1 /\ m.val = stack[1].val /\ m.env = vars

\* An expression has the value and the effect its operators have, taken by
\* precedence and grouping, with operands evaluated in order and only when they
\* are needed; it fails when one of them fails; and it leaves one operand.
ValueAsRead ==
    Finished /\ outcome # "undefined" =>
        Agrees(Meaning(Read(source), before))

=============================================================================
