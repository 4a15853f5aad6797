------------------------------ MODULE Foreach ------------------------------
(***************************************************************************)
(* The foreach statement (OP_FOREACH_INIT and OP_FOREACH_STEP of vm.c).    *)
(*                                                                         *)
(* A running loop keeps no position of its own.  It moves the cursor of    *)
(* the array, and it finds the array in pInfo->pMap, which belongs to the  *)
(* *statement*: two loops over one array share a cursor, and a statement   *)
(* entered again before it is done (a recursive call) forgets the array it *)
(* was walking.  iRef keeps the array alive while loops walk it.           *)
(*                                                                         *)
(* "loops" is the stack of the loops that run, the innermost last: nested  *)
(* statements and statements of called functions alike.  Its fields seen,  *)
(* start and lost are history, for the properties: lost becomes TRUE when  *)
(* a builtin moves the cursor of the loop's array, another loop is started *)
(* over that array, or its statement is entered again.                     *)
(*                                                                         *)
(* Abstractions.  Entries are the elements themselves, never reused.  An   *)
(* array has at most one variable (assignment copies).  The operand of     *)
(* OP_FOREACH_INIT is the variable's own array, its count on the operand   *)
(* stack taken and dropped.  Reading a released array is undefined: the    *)
(* loop ends or goes on, and what the write of pCur hits is not followed.  *)
(***************************************************************************)
EXTENDS ArrayCursor

CONSTANTS
    Statements,   \* foreach statements: each has one ph7_foreach_info
    Arrays,       \* addresses of ph7_hashmap
    Elems,        \* elements
    CursorOps,    \* builtins that move the cursor: subset of CursorOpKinds
    MaxLoops,     \* bound on the loops that run
    MaxRef,       \* bound on iRef (a loop left early never drops its count)
    Nil

CursorOpKinds == {"reset", "end", "next", "prev"}

ASSUME ForeachAssumption ==
    /\ CursorOps \subseteq CursorOpKinds
    /\ MaxLoops \in Nat /\ MaxRef \in Nat
    /\ Nil \notin Arrays

VARIABLES
    arr,      \* entries and cursor of each array
    iRef,     \* its reference count; 0: released
    bound,    \* arrays a variable holds
    pMap,     \* pInfo->pMap of each statement
    loops

vars == <<arr, iRef, bound, pMap, loops>>

Depth == Len(loops)
Top   == loops[Depth]
Map   == pMap[Top.stmt]                \* the array the innermost loop walks
Outer == SubSeq(loops, 1, Depth - 1)
Live(m) == iRef[m] > 0
Script  == loops # <<>> => Top.body    \* the script executes statements

Losing(s, P(_)) ==
    [i \in 1 .. Len(s) |-> [s[i] EXCEPT !.lost = @ \/ P(s[i])]]

TypeOK ==
    /\ arr \in [Arrays -> [seq : Seq(Elems), left : Nat]]
    /\ \A m \in Arrays : arr[m].left <= Len(arr[m].seq)
    /\ iRef \in [Arrays -> Nat]
    /\ bound \subseteq Arrays
    /\ pMap \in [Statements -> Arrays \cup {Nil}]
    /\ loops \in Seq([stmt : Statements, array : Arrays, body : BOOLEAN,
                      lost : BOOLEAN, start : SUBSET Elems,
                      seen : SUBSET Elems])

Init ==
    /\ arr = [m \in Arrays |-> [seq |-> <<>>, left |-> 0]]
    /\ iRef = [m \in Arrays |-> 0]
    /\ bound = {}
    /\ pMap = [l \in Statements |-> Nil]
    /\ loops = <<>>
-----------------------------------------------------------------------------
(* The loop *)

NotCounted(m) == iRef     \* mutant: the loop takes no count of the array
Counted(m) == [iRef EXCEPT ![m] = @ + 1]

\* OP_FOREACH_INIT
Start(l, m) ==
    /\ Script /\ Depth < MaxLoops /\ iRef[m] < MaxRef
    /\ m \in bound /\ Live(m)
    /\ arr' = [arr EXCEPT ![m] = Rewound(@)]
    /\ iRef' = Counted(m)
    /\ pMap' = [pMap EXCEPT ![l] = m]
    /\ loops' = Append(Losing(loops, LAMBDA o : o.array = m \/ o.stmt = l),
                       [stmt |-> l, array |-> m, body |-> FALSE, lost |-> FALSE,
                        start |-> ToSet(arr[m].seq), seen |-> {}])
    /\ UNCHANGED bound

\* OP_FOREACH_STEP with an entry left: the cursor advances, the body follows.
Yield ==
    /\ loops # <<>> /\ Live(Map) /\ arr[Map].left > 0
    /\ arr' = [arr EXCEPT ![Map] = Advance(@)]
    /\ loops' = Append(Outer, [Top EXCEPT !.body = TRUE,
                                  !.seen = @ \cup {Current(arr[Map])}])
    /\ UNCHANGED <<iRef, bound, pMap>>

\* OP_FOREACH_STEP without: the cursor is reset, the count is dropped.
Finish ==
    /\ loops # <<>> /\ Live(Map) /\ arr[Map].left = 0
    /\ arr' = [arr EXCEPT ![Map] = Rewound(@)]
    /\ iRef' = [iRef EXCEPT ![Map] = @ - 1]
    /\ loops' = Outer
    /\ UNCHANGED <<bound, pMap>>

\* OP_FOREACH_STEP on an array that was released: it ends, or goes on.
Stray ==
    /\ loops # <<>> /\ ~Live(Map)
    /\ loops' \in {Outer, Append(Outer, [Top EXCEPT !.body = TRUE])}
    /\ UNCHANGED <<arr, iRef, bound, pMap>>

\* break, return, an exception: a jump out of the loop, nothing else.
Leave ==
    /\ loops # <<>> /\ Top.body
    /\ loops' = Outer
    /\ UNCHANGED <<arr, iRef, bound, pMap>>
-----------------------------------------------------------------------------
(* What the script does between the steps *)

Create(m) ==
    /\ Script /\ ~Live(m)
    /\ arr' = [arr EXCEPT ![m] = [seq |-> <<>>, left |-> 0]]
    /\ iRef' = [iRef EXCEPT ![m] = 1]
    /\ bound' = bound \cup {m}
    /\ UNCHANGED <<pMap, loops>>

\* The variable goes out of scope or is unset.
Drop(m) ==
    /\ Script /\ m \in bound /\ Live(m)
    /\ iRef' = [iRef EXCEPT ![m] = @ - 1]
    /\ bound' = bound \ {m}
    /\ UNCHANGED <<arr, pMap, loops>>

\* An element that no array and no loop knows.
Unused == Elems \ UNION ({ToSet(arr[m].seq) : m \in Arrays}
                          \cup {loops[i].start \cup loops[i].seen : i \in 1 .. Depth})

Push(m, e) ==
    /\ Script /\ m \in bound /\ Live(m)
    /\ e \in Unused
    /\ arr' = [arr EXCEPT ![m] = Extended(@, e)]
    /\ UNCHANGED <<iRef, bound, pMap, loops>>

Unset(m, i) ==
    /\ Script /\ m \in bound /\ Live(m)
    /\ arr' = [arr EXCEPT ![m] = Without(@, i)]
    /\ UNCHANGED <<iRef, bound, pMap, loops>>

Moved(M, op) == CASE op = "reset" -> Rewound(M)
                  [] op = "end"   -> ToEnd(M)
                  [] op = "next"  -> IF M.left > 0 THEN Advance(M) ELSE M
                  [] op = "prev"  -> IF M.left > 0 THEN StepBack(M) ELSE M

MoveCursor(m, op) ==
    /\ Script /\ m \in bound /\ Live(m)
    /\ arr' = [arr EXCEPT ![m] = Moved(@, op)]
    /\ loops' = Losing(loops, LAMBDA o : o.array = m)
    /\ UNCHANGED <<iRef, bound, pMap>>

Next ==
    \/ \E l \in Statements, m \in Arrays : Start(l, m)
    \/ Yield \/ Finish \/ Stray \/ Leave
    \/ \E m \in Arrays : \/ Create(m) \/ Drop(m)
                         \/ \E e \in Elems : Push(m, e)
                         \/ \E i \in 1 .. Len(arr[m].seq) : Unset(m, i)
                         \/ \E op \in CursorOps : MoveCursor(m, op)

Spec == Init /\ [][Next]_vars
-----------------------------------------------------------------------------
(* Properties *)

Kept == {i \in 1 .. Depth : ~loops[i].lost}

\* A loop that nothing disturbs walks its own array, which is not released
\* under it: not by its variable, nor by the loops inside it.
OwnsArray == \A i \in Kept :
    LET m == loops[i].array
    IN  /\ pMap[loops[i].stmt] = m
        /\ iRef[m] > IF m \in bound THEN 1 ELSE 0

\* Such a loop visits no element twice, whatever is inserted and removed.
VisitsOnce == \A i \in Kept : Ahead(arr[loops[i].array]) \cap loops[i].seen = {}

\* It passes over no element that was there when it started.
VisitsAll == \A i \in Kept :
    Behind(arr[loops[i].array]) \cap loops[i].start \subseteq loops[i].seen
=============================================================================
