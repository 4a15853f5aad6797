------------------------------ MODULE VmMemObj ------------------------------
(***************************************************************************)
(* The object pool of the virtual machine (engine/vm.c).                   *)
(*                                                                         *)
(* Every script value that outlives one expression - a variable, an array  *)
(* element, a class attribute - is a slot of pVm->aMemObj and is named by  *)
(* its index.  Indexes are recycled through the stack pVm->aFreeObj.  The  *)
(* reference table records, for every installed slot, the symbol-table     *)
(* entries and the array nodes that name it, so that destroying a slot can *)
(* delete them all.  Frames own symbol tables; a frame being left destroys *)
(* the slots listed in its sLocal and withdraws the entries in its sRef.   *)
(*                                                                         *)
(* Abstractions.  A hash entry or a frame is identified with its place in  *)
(* the frame stack (its depth): the memory pool hands the same addresses   *)
(* out again, so a pointer that survives its frame coincides with the      *)
(* entry built later at the same place.  aFreeObj is a bag: any free slot  *)
(* may be reused, the code pops the most recent one.  One attribute per    *)
(* class, one static variable, and values are abstracted to the container  *)
(* (array or instance) a slot holds; the copy of an array starts empty and *)
(* is filled by insertions.  The operand stack keeps one lvalue per frame. *)
(* Destructors are not run.                                                *)
(***************************************************************************)
EXTENDS Integers, FiniteSets

CONSTANTS
    Names,       \* variable names
    Slots,       \* indexes of pVm->aMemObj, as many as the run allows
    Nodes,       \* addresses of array nodes (ph7_hashmap_node)
    Arrays,      \* arrays (ph7_hashmap)
    Instances,   \* class instances (ph7_class_instance)
    Blocks,      \* kinds of block the script enters: subset of BlockKinds
    MaxFrames,   \* bound on the depth of the frame stack
    Nil

BlockKinds == {"loop", "exception", "catch", "finally"}

Depths == 0 .. MaxFrames          \* 0 is pVm->hSuper, 1 the global frame
Entry  == Depths \X Names         \* symbol-table entries (SyHashEntry)
Loaded == [slot : Slots, val : Arrays \cup Instances \cup {Nil}]

ASSUME MemObjAssumption ==
    /\ MaxFrames \in Nat \ {0}
    /\ Nil \notin Slots /\ Nil \notin Arrays /\ Nil \notin Instances
    /\ Arrays \cap Instances = {}
    /\ Blocks \subseteq BlockKinds

VARIABLES
    aMemObj,     \* the slots appended so far
    aFreeObj,    \* how often each slot is on the free list
    slotVal,     \* the container a slot holds (x.pOther), or Nil
    installed,   \* slots that have a VmRefObj in the reference table
    keep,        \* those whose VmRefObj carries VM_REF_IDX_KEEP
    aReference,  \* pRef->aReference: symbol-table entries of a slot
    aArrEntries, \* pRef->aArrEntries: array nodes of a slot
    pFrame,      \* depth of the top-most active frame
    kind,        \* what each frame was entered for
    hVar,        \* symbol tables: the slot an entry names, or Nil
    loose,       \* entries inserted without PH7_VmRefObjInstall
    sLocal,      \* per frame, the slots to restore when it is left
    sRef,        \* per frame, the <<slot, entry>> pairs to withdraw then
    nodeArr,     \* pNode->pMap, Nil when the node is not allocated
    nodeSlot,    \* pNode->nValIdx
    leaked,      \* arrays that were overwritten: their iRef stays above 0
    attr,        \* VmClassAttr.nIdx of a live instance, or Nil
    static,      \* ph7_vm_func_static_var.nIdx, Nil before the first call
    operand,     \* per frame, the lvalue a statement has on the operand
                 \* stack, val being the container it refers to; or Nil
    todo,        \* PH7_VmUnsetMemObj calls still to make: <<slot, bForce>>,
                 \* where bForce is 0 or 1
    leaving,     \* depth of the frame VmLeaveFrame tears down, or 0
    pure         \* the script itself unset nothing so far and stored over no
                 \* reference to an instance

poolVars  == <<aMemObj, aFreeObj>>
refVars   == <<installed, keep, aReference, aArrEntries>>
frameVars == <<pFrame, kind, hVar, loose, sLocal, sRef>>
arrayVars == <<nodeArr, nodeSlot, leaked>>
unsetVars == <<todo, leaving, pure>>
vars == <<poolVars, slotVal, refVars, frameVars, arrayVars, attr, static,
          operand, unsetVars>>

Kinds == {"super", "global", "call", "none"} \cup BlockKinds

Init ==
    /\ aMemObj = {}
    /\ aFreeObj = [i \in Slots |-> 0]
    /\ slotVal = [i \in Slots |-> Nil]
    /\ installed = {} /\ keep = {}
    /\ aReference = [i \in Slots |-> {}]
    /\ aArrEntries = [i \in Slots |-> {}]
    /\ pFrame = 1
    /\ kind = [d \in Depths |-> CASE d = 0 -> "super" [] d = 1 -> "global"
                                  [] OTHER -> "none"]
    /\ hVar = [e \in Entry |-> Nil]
    /\ loose = {}
    /\ sLocal = [d \in Depths |-> {}]
    /\ sRef = [d \in Depths |-> {}]
    /\ nodeArr = [n \in Nodes |-> Nil]
    /\ nodeSlot = [n \in Nodes |-> Nil]
    /\ leaked = {}
    /\ attr = [o \in Instances |-> Nil]
    /\ static = Nil
    /\ operand = [d \in Depths |-> Nil]
    /\ todo = {} /\ leaving = 0
    /\ pure = TRUE

(***************************************************************************)
(* The pool and the reference table.                                       *)
(***************************************************************************)
\* PH7_ReserveMemObj: reuse a free slot if there is one, else append one.
CanReserve(f, u, i) == IF \E k \in Slots : f[k] > 0 THEN f[i] > 0 ELSE i \notin u

Peeked(f, i) == f                 \* mutant: SySetPeek where SySetPop is meant
Taken(f, i) == [f EXCEPT ![i] = IF @ > 0 THEN @ - 1 ELSE 0]

Reserve(i) ==
    /\ CanReserve(aFreeObj, aMemObj, i)
    /\ aFreeObj' = Taken(aFreeObj, i)
    /\ aMemObj' = aMemObj \cup {i}

\* Two slots in a row: a value and the result of its initializer.
ReserveTwo(i, j) ==
    /\ CanReserve(aFreeObj, aMemObj, i)
    /\ CanReserve(Taken(aFreeObj, i), aMemObj \cup {i}, j)
    /\ aFreeObj' = Taken(Taken(aFreeObj, i), j)
    /\ aMemObj' = aMemObj \cup {i, j}

\* PH7_VmRefObjInstall(nIdx, pEntry, pMapEntry, iFlags): the flags are only
\* recorded when the VmRefObj is created.
RefObjInstall(i, es, ns, flag) ==
    /\ installed' = installed \cup {i}
    /\ keep' = IF i \in installed THEN keep
               ELSE IF flag THEN keep \cup {i} ELSE keep \ {i}
    /\ aReference' = [aReference EXCEPT ![i] = @ \cup es]
    /\ aArrEntries' = [aArrEntries EXCEPT ![i] = @ \cup ns]

(***************************************************************************)
(* Frames and symbol tables.                                               *)
(***************************************************************************)
\* The frame reached from the top one by skipping exception frames.
IsBase(b) ==
    /\ b = 1 \/ kind[b] # "exception"
    /\ \A d \in b + 1 .. pFrame : kind[d] = "exception"

\* VmExtractMemObj: superglobals first, then the base frame and, through
\* the blocks, the frames around it.
Resolves(n, i) ==
    IF hVar[<<0, n>>] # Nil THEN i = hVar[<<0, n>>]
    ELSE \E b \in 1 .. pFrame : \E d \in 1 .. b :
            /\ IsBase(b)
            /\ hVar[<<d, n>>] = i
            /\ \A x \in d + 1 .. b : hVar[<<x, n>>] = Nil /\ kind[x] \in BlockKinds

VisibleVars == {i \in Slots : \E n \in Names : Resolves(n, i)}
LiveAttrs   == {attr[o] : o \in {p \in Instances : attr[p] # Nil}}
Reachable   == VisibleVars \cup LiveAttrs
ElementsOf(S) == {nodeSlot[n] : n \in {m \in Nodes : nodeArr[m] # Nil /\
                                  \E i \in S : slotVal[i] = nodeArr[m]}}
Lvalues == Reachable \cup ElementsOf(Reachable)


\* The containers whose iRef is not 0 if the slots are v and the operands ops.
Held(v, ops) == {v[i] : i \in Slots} \cup leaked
                   \cup {ops[d].val : d \in {e \in Depths : ops[e] # Nil}}

FreshArrays   == {a \in Arrays \ Held(slotVal, operand) : \A n \in Nodes : nodeArr[n] # a}
HeldInstances == Instances \cap Held(slotVal, operand)

\* VmCreateMemObj in the frame at depth t, whose base frame is b; v is the
\* value stored right after.
CreateMemObj(t, b, n, i, v) ==
    /\ hVar[<<t, n>>] = Nil
    /\ Reserve(i)
    /\ slotVal' = [slotVal EXCEPT ![i] = v]
    /\ hVar' = [hVar EXCEPT ![<<t, n>>] = i]
    /\ sLocal' = [sLocal EXCEPT ![t] = @ \cup {i}]
    /\ RefObjInstall(i, {<<t, n>>}, {}, FALSE)
    /\ sRef' = IF b > 1 THEN [sRef EXCEPT ![b] = @ \cup {<<i, <<t, n>>>>}] ELSE sRef

\* VmEnterFrame
EnterFrame(k) ==
    /\ pFrame < MaxFrames
    /\ pFrame' = pFrame + 1
    /\ kind' = [kind EXCEPT ![pFrame + 1] = k]

\* The interpreter is single-threaded: the destructions an operation starts
\* run to completion before the next one.
Idle == todo = {} /\ leaving = 0
\* A global scope holds declarations only (PH7_GenStateCompileGlobalScope):
\* statements run in the frame of a method.
Statement == Idle /\ pFrame > 1 /\ operand[pFrame] = Nil

(***************************************************************************)
(* Releasing values.                                                       *)
(***************************************************************************)
\* The container x, if it was the last reference to it that is gone once the
\* slots are v and the operands are ops (PH7_HashmapUnref, PH7_ClassInstanceUnref).
Lost(v, ops, x) == {x} \ (Held(v, ops) \cup {Nil})

ElementsIn(cs) == {n \in Nodes : nodeArr[n] \in cs}

\* What releasing the containers cs destroys: the elements of an array, and by
\* force every attribute of an instance.
Unsets(cs) == {<<nodeSlot[n], 0>> : n \in ElementsIn(cs)}
                 \cup {<<attr[o], 1>> : o \in cs \cap Instances}

Kept(cs) == [o \in Instances |-> IF o \in cs THEN Nil ELSE attr[o]]

FreeNodes(ns) ==
    /\ nodeArr' = [n \in Nodes |-> IF n \in ns THEN Nil ELSE nodeArr[n]]
    /\ nodeSlot' = [n \in Nodes |-> IF n \in ns THEN Nil ELSE nodeSlot[n]]
    /\ leaked' = leaked

\* VmPopOperand of the lvalue the top frame has on the operand stack
PopOperand ==
    /\ operand[pFrame] # Nil
    /\ operand' = [operand EXCEPT ![pFrame] = Nil]
    /\ LET cs == Lost(slotVal, operand', operand[pFrame].val)
       IN  /\ todo' = Unsets(cs)
           /\ attr' = Kept(cs)
           /\ FreeNodes(ElementsIn(cs))
           /\ aArrEntries' = [i \in Slots |-> aArrEntries[i] \ ElementsIn(cs)]

\* PH7_MemObjStore of x over slot i, where the slots are v: an instance is
\* unreferenced, an array is dropped as it is.
Overwritten(v, i, x) == Instances \cap Lost([v EXCEPT ![i] = x], operand, v[i])
StoreVal(v, i, x) ==
    /\ slotVal' = [v EXCEPT ![i] = x]
    /\ todo' = Unsets(Overwritten(v, i, x))
    /\ pure' = (pure /\ v[i] \notin Instances \ {x})

\* The symbol-table entries VmRefObjUnlink deletes with slot i.
NoEntry(i) == {}                  \* mutant: SyHashDeleteEntry2 is not called
Entries(i) == IF i \in installed THEN aReference[i] ELSE {}

\* The condition under which PH7_VmUnsetMemObj restores i to the free list.
Unchecked(i, force)   == TRUE                \* mutant: pRef is not tested
Restored(i, force)    == i \in installed /\ (force = 1 \/ i \notin keep)

(***************************************************************************)
(* One call of PH7_VmUnsetMemObj.  The calls it leads to - for the         *)
(* elements of a released array, the attributes of a released instance -   *)
(* are left to later steps; nothing else runs before todo is empty.        *)
(***************************************************************************)
UnsetMemObj(i, force) ==
    LET values == [slotVal EXCEPT ![i] = Nil]
        cs     == Lost(values, operand, slotVal[i])
        elems  == ElementsIn(cs)
        nodes  == IF i \in installed THEN aArrEntries[i] ELSE {}
        names  == Entries(i)
    IN  /\ <<i, force>> \in todo
        \* PH7_MemObjRelease: PH7_HashmapRelease, PH7_ClassInstanceRelease
        /\ slotVal' = values
        /\ todo' = (todo \ {<<i, force>>}) \cup Unsets(cs)
        /\ attr' = Kept(cs)
        \* VmRefObjUnlink
        /\ hVar' = [e \in Entry |-> IF e \in names THEN Nil ELSE hVar[e]]
        /\ loose' = loose \ names
        /\ FreeNodes(elems \cup nodes)
        /\ aArrEntries' = [j \in Slots |-> IF j = i THEN {} ELSE aArrEntries[j] \ elems]
        /\ aReference' = [aReference EXCEPT ![i] = {}]
        /\ installed' = installed \ {i}
        /\ keep' = keep \ {i}
        /\ aFreeObj' = IF Restored(i, force)
                       THEN [aFreeObj EXCEPT ![i] = @ + 1] ELSE aFreeObj
        /\ UNCHANGED <<aMemObj, pFrame, kind, sLocal, sRef, static, operand, leaving, pure>>

(***************************************************************************)
(* The operations of the virtual machine.                                  *)
(***************************************************************************)
\* PH7_VmConfig(CREATE_SUPER | CREATE_VAR), before any script frame exists
ConfigCreate(d, n, i) ==
    /\ Idle /\ pFrame = 1
    /\ hVar[<<d, n>>] = Nil
    /\ Reserve(i)
    /\ slotVal' = [slotVal EXCEPT ![i] = Nil]
    /\ hVar' = [hVar EXCEPT ![<<d, n>>] = i]
    /\ RefObjInstall(i, {<<d, n>>}, {}, FALSE)
    /\ UNCHANGED <<pFrame, kind, loose, sLocal, sRef, arrayVars, attr, static,
                   operand, unsetVars>>

\* OP_DECLARE, of a plain variable (v = Nil) or of an array
Declare(n, i, v) ==
    /\ Statement
    /\ v \in {Nil} \cup FreshArrays
    /\ \E b \in 1 .. pFrame : IsBase(b) /\ CreateMemObj(pFrame, b, n, i, v)
    /\ UNCHANGED <<pFrame, kind, loose, arrayVars, attr, static, operand, unsetVars>>

\* OP_CALL of a function without parameters
Call ==
    /\ Idle
    /\ EnterFrame("call")
    /\ UNCHANGED <<poolVars, slotVal, refVars, hVar, loose, sLocal, sRef, arrayVars,
                   attr, static, operand, unsetVars>>

\* OP_CALL of a function with one parameter, passed by value
CallByValue(n, i, v) ==
    /\ Idle
    /\ v \in {Nil} \cup FreshArrays \cup HeldInstances
    /\ EnterFrame("call")
    /\ CreateMemObj(pFrame + 1, pFrame + 1, n, i, v)
    /\ UNCHANGED <<loose, arrayVars, attr, static, operand, unsetVars>>

\* OP_CALL of a function whose parameter is passed by reference: the operand
\* loaded earlier names the slot, and is popped before the body runs.  A typed
\* argument is first converted in a slot that is reserved and destroyed at once
\* (PH7_VmDestroyMemObj).
CallByRef(n, typed) ==
    /\ Idle
    /\ PopOperand
    /\ EnterFrame("call")
    /\ hVar' = [hVar EXCEPT ![<<pFrame + 1, n>>] = operand[pFrame].slot]
    /\ loose' = loose \cup {<<pFrame + 1, n>>}
    /\ IF typed /\ \A k \in Slots : aFreeObj[k] = 0
       THEN \E k \in Slots \ aMemObj :
               /\ aMemObj' = aMemObj \cup {k}
               /\ aFreeObj' = [aFreeObj EXCEPT ![k] = 1]
       ELSE UNCHANGED poolVars
    /\ UNCHANGED <<slotVal, installed, keep, aReference, sLocal, sRef, static, leaving, pure>>

\* OP_CALL of the function that has a static variable.  The first call
\* appends a slot for it and reserves another for the initial value.
CallStatic(n) ==
    /\ Idle
    /\ EnterFrame("call")
    /\ \/ /\ static = Nil
          /\ \E i \in Slots \ aMemObj, j \in Slots :
               /\ static' = i
               /\ CanReserve(aFreeObj, aMemObj \cup {i}, j)
               /\ aFreeObj' = Taken(aFreeObj, j)
               /\ aMemObj' = aMemObj \cup {i, j}
               /\ slotVal' = [slotVal EXCEPT ![i] = Nil, ![j] = Nil]
       \/ /\ static # Nil
          /\ UNCHANGED <<static, poolVars, slotVal>>
    /\ hVar' = [hVar EXCEPT ![<<pFrame + 1, n>>] = static']
    /\ loose' = loose \cup {<<pFrame + 1, n>>}
    /\ UNCHANGED <<refVars, sLocal, sRef, arrayVars, attr, operand, unsetVars>>

\* LF_START, LOAD_EXCEPTION, VmExecFinallyBlock: a frame without variables
EnterBlock(k) ==
    /\ Statement
    /\ k \in Blocks \ {"catch"}
    /\ EnterFrame(k)
    /\ UNCHANGED <<poolVars, slotVal, refVars, hVar, loose, sLocal, sRef, arrayVars,
                   attr, static, operand, unsetVars>>

\* VmThrowException: the frame of a catch block and its variable
EnterCatch(n, i, v) ==
    /\ Statement
    /\ "catch" \in Blocks /\ v \in {Nil} \cup HeldInstances
    /\ EnterFrame("catch")
    /\ CreateMemObj(pFrame + 1, pFrame + 1, n, i, v)
    /\ UNCHANGED <<loose, arrayVars, attr, static, operand, unsetVars>>

BlankLevel(d) ==
    /\ kind' = [kind EXCEPT ![d] = "none"]
    /\ hVar' = [e \in Entry |-> IF e[1] = d THEN Nil ELSE hVar[e]]
    /\ loose' = {e \in loose : e[1] # d}
    /\ sLocal' = [sLocal EXCEPT ![d] = {}]
    /\ sRef' = [sRef EXCEPT ![d] = {}]

\* What the frame at depth d destroys when it is left.
EveryVar(d) == {hVar[e] : e \in {x \in Entry : x[1] = d /\ hVar[x] # Nil}}
                 \cup sLocal[d]   \* mutant: references are locals, too
Locals(d) == sLocal[d]

\* VmLeaveFrame.  An exception frame only releases its containers: what it
\* declared stays installed.  Any other frame first destroys its locals.
LeaveFrame ==
    /\ Statement
    /\ pFrame' = pFrame - 1
    /\ IF kind[pFrame] = "exception"
       THEN BlankLevel(pFrame) /\ UNCHANGED <<todo, leaving>>
       ELSE /\ leaving' = pFrame
            /\ todo' = {<<i, 0>> : i \in Locals(pFrame)}
            /\ UNCHANGED <<kind, hVar, loose, sLocal, sRef>>
    /\ UNCHANGED <<poolVars, slotVal, refVars, arrayVars, attr, static, operand, pure>>

\* The rest of VmLeaveFrame, once the last local is destroyed
\* (PH7_VmRefObjRemove of every recorded entry).
FinishLeave ==
    /\ todo = {} /\ leaving # 0
    /\ aReference' = [i \in Slots |->
         IF i \in installed THEN aReference[i] \ {e \in Entry : <<i, e>> \in sRef[leaving]}
         ELSE aReference[i]]
    /\ BlankLevel(leaving)
    /\ leaving' = 0
    /\ UNCHANGED <<poolVars, slotVal, installed, keep, aArrEntries, pFrame, arrayVars,
                   attr, static, operand, todo, pure>>

\* LOADV, LOAD_IDX, MEMBER: push an lvalue on the operand stack
Load(i) ==
    /\ Statement
    /\ i \in Lvalues
    /\ operand' = [operand EXCEPT ![pFrame] = [slot |-> i, val |-> slotVal[i]]]
    /\ UNCHANGED <<poolVars, slotVal, refVars, frameVars, arrayVars, attr, static, unsetVars>>

\* The end of the statement that loaded the lvalue: POP, or the store it is for
Pop ==
    /\ Idle
    /\ PopOperand
    /\ UNCHANGED <<poolVars, slotVal, installed, keep, aReference, frameVars, static,
                   leaving, pure>>

\* unset($lvalue)
Unset(i) ==
    /\ Statement
    /\ i \in Lvalues
    /\ todo' = {<<i, 0>>}
    /\ pure' = FALSE
    /\ UNCHANGED <<poolVars, slotVal, refVars, frameVars, arrayVars, attr, static, operand, leaving>>

\* STORE_IDX with a new key (HashmapInsertIntKey, HashmapInsertBlobKey)
ArrayInsert(a, n, i, v) ==
    /\ Statement
    /\ v \in {Nil} \cup HeldInstances
    /\ a \in Arrays /\ \E s \in Reachable : slotVal[s] = a
    /\ nodeArr[n] = Nil
    /\ Reserve(i)
    /\ slotVal' = [slotVal EXCEPT ![i] = v]
    /\ nodeArr' = [nodeArr EXCEPT ![n] = a]
    /\ nodeSlot' = [nodeSlot EXCEPT ![n] = i]
    /\ RefObjInstall(i, {}, {n}, FALSE)
    /\ UNCHANGED <<leaked, frameVars, attr, static, operand, unsetVars>>

\* PH7_VmRefObjRemove of the node n from the slot it names
NotRemoved(n) == aArrEntries      \* mutant: the call is left out
RefObjRemove(n) == [j \in Slots |-> IF j = nodeSlot[n] THEN aArrEntries[j] \ {n}
                                   ELSE aArrEntries[j]]

\* PH7_HashmapUnlinkNode(pNode, TRUE), as array_pop() and array_shift() call it
ArrayRemove(n) ==
    /\ Statement
    /\ nodeArr[n] # Nil
    /\ \E s \in Reachable : slotVal[s] = nodeArr[n]
    /\ aArrEntries' = RefObjRemove(n)
    /\ todo' = {<<nodeSlot[n], 0>>}
    /\ nodeArr' = [nodeArr EXCEPT ![n] = Nil]
    /\ nodeSlot' = [nodeSlot EXCEPT ![n] = Nil]
    /\ pure' = FALSE
    /\ UNCHANGED <<poolVars, slotVal, installed, keep, aReference, leaked, frameVars,
                   attr, static, operand, leaving>>

\* NEW and STORE: create an instance (PH7_VmCreateClassInstanceFrame), with
\* an attribute of initial value v, and assign it to the variable in slot s
NewInstance(s, o, i, j, v) ==
    /\ Statement
    /\ o \notin HeldInstances /\ attr[o] = Nil
    /\ s \in VisibleVars /\ slotVal[s] \in {Nil} \cup Instances
    /\ v \in {Nil} \cup FreshArrays
    /\ ReserveTwo(i, j)
    /\ RefObjInstall(i, {}, {}, TRUE)
    /\ LET slots == [slotVal EXCEPT ![i] = v, ![j] = Nil]
       IN  /\ StoreVal(slots, s, o)
           /\ attr' = [Kept(Overwritten(slots, s, o)) EXCEPT ![o] = i]
    /\ UNCHANGED <<frameVars, arrayVars, static, operand, leaving>>

\* STORE of an instance: both variables share it
Assign(s, t) ==
    /\ Statement
    /\ s \in VisibleVars /\ t \in VisibleVars /\ s # t
    /\ slotVal[s] \in Instances /\ slotVal[t] \in {Nil} \cup Instances
    /\ StoreVal(slotVal, t, slotVal[s])
    /\ attr' = Kept(Overwritten(slotVal, t, slotVal[s]))
    /\ UNCHANGED <<poolVars, refVars, frameVars, arrayVars, static, operand, leaving>>

\* STORE of an array: the destination gets a copy, its old array is not
\* unreferenced
AssignArray(t, a) ==
    /\ Statement
    /\ t \in VisibleVars /\ slotVal[t] \in Arrays /\ a \in FreshArrays
    /\ StoreVal(slotVal, t, a)
    /\ leaked' = leaked \cup {slotVal[t]}
    /\ UNCHANGED <<poolVars, refVars, frameVars, nodeArr, nodeSlot, attr, static, operand,
                   leaving>>

Next ==
    \/ \E d \in {0, 1}, n \in Names, i \in Slots : ConfigCreate(d, n, i)
    \/ \E n \in Names, i \in Slots, v \in Arrays \cup {Nil} : Declare(n, i, v)
    \/ Call
    \/ \E n \in Names, i \in Slots, v \in Arrays \cup Instances \cup {Nil} :
          CallByValue(n, i, v)
    \/ \E n \in Names, typed \in BOOLEAN : CallByRef(n, typed)
    \/ \E n \in Names : CallStatic(n)
    \/ \E k \in BlockKinds : EnterBlock(k)
    \/ \E n \in Names, i \in Slots, v \in Instances \cup {Nil} : EnterCatch(n, i, v)
    \/ LeaveFrame
    \/ FinishLeave
    \/ \E t \in todo : UnsetMemObj(t[1], t[2])
    \/ \E i \in Slots : Load(i)
    \/ Pop
    \/ \E i \in Slots : Unset(i)
    \/ \E a \in Arrays, n \in Nodes, i \in Slots, v \in Instances \cup {Nil} :
          ArrayInsert(a, n, i, v)
    \/ \E n \in Nodes : ArrayRemove(n)
    \/ \E s \in Slots, o \in Instances, i, j \in Slots, v \in Arrays \cup {Nil} :
          NewInstance(s, o, i, j, v)
    \/ \E s, t \in Slots : Assign(s, t)
    \/ \E t \in Slots, a \in Arrays : AssignArray(t, a)

Spec == Init /\ [][Next]_vars

(***************************************************************************)
(* Properties.                                                             *)
(***************************************************************************)
TypeOK ==
    /\ aMemObj \subseteq Slots
    /\ aFreeObj \in [Slots -> Nat]
    /\ slotVal \in [Slots -> Arrays \cup Instances \cup {Nil}]
    /\ installed \subseteq Slots /\ keep \subseteq Slots
    /\ aReference \in [Slots -> SUBSET Entry]
    /\ aArrEntries \in [Slots -> SUBSET Nodes]
    /\ pFrame \in 1 .. MaxFrames
    /\ kind \in [Depths -> Kinds]
    /\ hVar \in [Entry -> Slots \cup {Nil}]
    /\ loose \subseteq Entry
    /\ sLocal \in [Depths -> SUBSET Slots]
    /\ sRef \in [Depths -> SUBSET (Slots \X Entry)]
    /\ nodeArr \in [Nodes -> Arrays \cup {Nil}]
    /\ nodeSlot \in [Nodes -> Slots \cup {Nil}]
    /\ leaked \subseteq Arrays
    /\ attr \in [Instances -> Slots \cup {Nil}]
    /\ static \in Slots \cup {Nil}
    /\ operand \in [Depths -> Loaded \cup {Nil}]
    /\ todo \subseteq Slots \X {0, 1}
    /\ leaving \in Depths
    /\ pure \in BOOLEAN

\* PH7_VmUnsetMemObj and PH7_VmDestroyMemObj push indexes on aFreeObj with no
\* check for duplicates: whatever the script unsets, pops, leaves or releases,
\* in any order, an index is never there twice, and never while the slot is
\* still installed, an attribute of a live instance or a static variable.
FreeListSound ==
    \A i \in Slots :
        /\ aFreeObj[i] <= 1
        /\ aFreeObj[i] = 1 =>
              /\ i \in aMemObj
              /\ i \notin installed
              /\ i # static
              /\ \A o \in Instances : attr[o] # i

\* An array node and its slot name each other: VmRefObjUnlink never follows a
\* pointer to a node that was released, and no array keeps a node whose slot
\* was destroyed through another name (PH7_HashmapUnlinkNode,
\* PH7_HashmapRelease, VmRefObjUnlink).
NodesBacked ==
    /\ \A n \in Nodes : nodeSlot[n] # Nil =>
          nodeSlot[n] \in installed /\ n \in aArrEntries[nodeSlot[n]]
    /\ \A i \in installed : \A n \in aArrEntries[i] : nodeSlot[n] = i

\* A variable VmCreateMemObj or PH7_VmConfig bound is in the reference table,
\* with its entry on record: a later unset of the slot, from any frame and by
\* any name, removes the variable instead of leaving it on a recycled slot.
SymbolsBacked ==
    \A e \in Entry : hVar[e] # Nil /\ e \notin loose =>
        hVar[e] \in installed /\ e \in aReference[hVar[e]]

\* Unless the script unsets something or stores over a reference to an
\* instance, every variable, those bound by reference or to the static slot
\* included, names a slot that is not free; and so does an operand loaded
\* before a nested call and used after it.
PureBindingsLive ==
    pure => /\ \A e \in Entry : hVar[e] # Nil => aFreeObj[hVar[e]] = 0
            /\ \A d \in Depths : operand[d] # Nil => aFreeObj[operand[d].slot] = 0

\* What the frame being left may not touch: the variables of the other
\* frames, and the elements of the arrays those hold.
OuterVars  == {e \in Entry : e[1] # leaving /\ hVar[e] # Nil}
OuterNodes == {n \in Nodes : nodeArr[n] # Nil /\
                 \E e \in OuterVars : slotVal[hVar[e]] = nodeArr[n]}
OuterKept  == /\ \A e \in OuterVars : hVar'[e] = hVar[e]
              /\ \A n \in OuterNodes : nodeArr'[n] = nodeArr[n]

\* Unless the script did one of these, VmLeaveFrame takes no variable and no
\* array element away from another frame, although by-reference parameters,
\* operands and shared containers cross frames.
PureLeaveKeepsOuter == [][(leaving # 0 /\ pure) => OuterKept]_vars
=============================================================================
