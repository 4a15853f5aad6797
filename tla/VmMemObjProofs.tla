--------------------------- MODULE VmMemObjProofs ---------------------------
(***************************************************************************)
(* Proofs about the object pool: the inductive invariant IInv and the      *)
(* safety properties of VmMemObj that follow from it, for any number of    *)
(* names, slots, nodes, arrays and instances and any depth of frames.      *)
(***************************************************************************)
EXTENDS VmMemObj, TLAPS

USE DEF poolVars, refVars, arrayVars, unsetVars

\* The reference table names appended slots only, never the static variable,
\* and a slot that left it has no entry or node on record.
TableSound ==
    /\ installed \subseteq aMemObj
    /\ static # Nil => static \in aMemObj /\ static \notin installed
    /\ \A i \in Slots : i \notin installed => aReference[i] = {} /\ aArrEntries[i] = {}

\* The attribute of a live instance has a slot of its own, which only a forced
\* destruction may free; that is pending only once the instance gave it up.
AttrSound ==
    /\ \A o \in Instances : attr[o] # Nil =>
          /\ attr[o] \in aMemObj
          /\ attr[o] # static
          /\ attr[o] \in installed => attr[o] \in keep
    /\ \A o, p \in Instances : attr[o] # Nil /\ attr[o] = attr[p] => o = p
    /\ \A o \in HeldInstances : attr[o] # Nil
    /\ \A i \in Slots : <<i, 1>> \in todo => \A o \in Instances : attr[o] # i

\* A node is either in an array and names a slot, or released.
NodesPaired == \A n \in Nodes : nodeArr[n] = Nil <=> nodeSlot[n] = Nil

\* Only the frame being torn down has variables above the active ones, and a
\* frame withdraws no entry of the frames around it.
FramesSound ==
    /\ leaving = 0 \/ leaving = pFrame + 1
    /\ \A e \in Entry : e[1] > pFrame /\ e[1] # leaving => hVar[e] = Nil
    /\ \A d \in Depths : \A r \in sRef[d] : r[2][1] >= d

IInv ==
    /\ TypeOK
    /\ FreeListSound
    /\ TableSound
    /\ AttrSound
    /\ NodesPaired
    /\ NodesBacked
    /\ FramesSound
    /\ SymbolsBacked

\* A slot PH7_ReserveMemObj may return is nobody's: neither the reference table,
\* an instance, the static variable nor an array node names it.
LEMMA Reservable ==
    ASSUME IInv, NEW i \in Slots, aFreeObj[i] > 0 \/ i \notin aMemObj
    PROVE  /\ i \notin installed
           /\ static # i
           /\ \A o \in Instances : attr[o] # i
           /\ \A n \in Nodes : nodeSlot[n] # i
           /\ Taken(aFreeObj, i) \in [Slots -> Nat]
           /\ Taken(aFreeObj, i)[i] = 0
           /\ \A k \in Slots \ {i} : Taken(aFreeObj, i)[k] = aFreeObj[k]
<1>1. aFreeObj[i] = 1 \/ (i \notin aMemObj /\ aFreeObj[i] = 0)
    BY DEF IInv, TypeOK, FreeListSound
<1>2. i \notin installed /\ static # i /\ \A o \in Instances : attr[o] # i
    BY <1>1, MemObjAssumption DEF IInv, FreeListSound, TableSound, AttrSound
<1>3. \A n \in Nodes : nodeSlot[n] # i
    BY <1>2, MemObjAssumption DEF IInv, NodesBacked
<1>4. /\ Taken(aFreeObj, i) \in [Slots -> Nat]
      /\ Taken(aFreeObj, i)[i] = 0
      /\ \A k \in Slots \ {i} : Taken(aFreeObj, i)[k] = aFreeObj[k]
    BY <1>1 DEF Taken, IInv, TypeOK
<1>. QED  BY <1>2, <1>3, <1>4

\* The machine starts with an empty pool.
LEMMA InitInv == Init => IInv
<1> SUFFICES ASSUME Init PROVE IInv
    OBVIOUS
<1>1. TypeOK
    BY MemObjAssumption DEF Init, TypeOK, Depths, Entry, Kinds, BlockKinds
<1>2. FreeListSound
    BY DEF Init, FreeListSound
<1>3. TableSound /\ AttrSound
    BY MemObjAssumption DEF Init, TableSound, AttrSound, HeldInstances, Held
<1>4. NodesPaired /\ NodesBacked
    BY DEF Init, NodesPaired, NodesBacked
<1>5. FramesSound /\ SymbolsBacked
    BY DEF Init, FramesSound, SymbolsBacked
<1>. QED  BY <1>1, <1>2, <1>3, <1>4, <1>5 DEF IInv

(***************************************************************************)
(* Operations that only enter a frame or move the operand.                 *)
(***************************************************************************)
\* Entering a frame, or loading an lvalue, disturbs nothing IInv speaks of.
LEMMA QuietInv ==
    ASSUME IInv, leaving = 0,
           UNCHANGED <<poolVars, slotVal, refVars, hVar, loose, sLocal, sRef, arrayVars,
                       attr, static, unsetVars>>,
           pFrame' \in 1 .. MaxFrames, pFrame' >= pFrame,
           kind' \in [Depths -> Kinds],
           operand' \in [Depths -> Loaded \cup {Nil}],
           HeldInstances' \subseteq HeldInstances
    PROVE  IInv'
<1>1. TypeOK'
    BY DEF IInv, TypeOK
<1>2. FreeListSound' /\ TableSound'
    BY DEF IInv, FreeListSound, TableSound
<1>3. AttrSound'
    BY DEF IInv, AttrSound
<1>4. NodesPaired' /\ NodesBacked' /\ SymbolsBacked'
    BY DEF IInv, NodesPaired, NodesBacked, SymbolsBacked
<1>5. FramesSound'
    BY MemObjAssumption DEF IInv, TypeOK, FramesSound, Depths, Entry
<1>. QED  BY <1>1, <1>2, <1>3, <1>4, <1>5 DEF IInv

\* The type of the frame stack after VmEnterFrame.
LEMMA EnterFrameType ==
    ASSUME IInv, NEW k \in Kinds, EnterFrame(k)
    PROVE  /\ pFrame' \in 1 .. MaxFrames
           /\ pFrame' = pFrame + 1
           /\ kind' \in [Depths -> Kinds]
           /\ pFrame + 1 \in Depths \ {0}
BY MemObjAssumption DEF EnterFrame, IInv, TypeOK, Depths

\* An operation that moves no value leaves every instance its references.
LEMMA SameHeld ==
    ASSUME UNCHANGED <<slotVal, leaked, operand>>
    PROVE  HeldInstances' = HeldInstances
BY DEF HeldInstances, Held

\* The top frame can have an operand.
LEMMA TopFrame == IInv => pFrame \in Depths \ {0} /\ pFrame \in Int
BY MemObjAssumption DEF IInv, TypeOK, Depths

\* A call without parameters preserves the invariant.
LEMMA CallInv == ASSUME IInv, Call PROVE IInv'
<1>1. leaving = 0 /\ EnterFrame("call") /\ "call" \in Kinds
    BY DEF Call, Idle, Kinds
<1>. QED  BY <1>1, EnterFrameType, SameHeld, QuietInv DEF Call, IInv, TypeOK

\* So does entering a block.
LEMMA EnterBlockInv == ASSUME IInv, NEW k \in BlockKinds, EnterBlock(k) PROVE IInv'
<1>1. leaving = 0 /\ EnterFrame(k) /\ k \in Kinds
    BY DEF EnterBlock, Statement, Idle, Kinds
<1>. QED  BY <1>1, EnterFrameType, SameHeld, QuietInv DEF EnterBlock, IInv, TypeOK

\* So does loading an lvalue: the operand refers to what its slot refers to.
LEMMA LoadInv == ASSUME IInv, NEW i \in Slots, Load(i) PROVE IInv'
<1>1. /\ leaving = 0
      /\ operand' = [operand EXCEPT ![pFrame] = [slot |-> i, val |-> slotVal[i]]]
      /\ UNCHANGED <<poolVars, slotVal, refVars, frameVars, arrayVars, attr, static, unsetVars>>
    BY DEF Load, Statement, Idle
<1>2. operand' \in [Depths -> Loaded \cup {Nil}]
    <2>1. [slot |-> i, val |-> slotVal[i]] \in Loaded
        BY DEF Loaded, IInv, TypeOK
    <2>. QED  BY <1>1, <2>1 DEF IInv, TypeOK
<1>3. \A d \in Depths : operand'[d] # Nil =>
         operand'[d].val = slotVal[i] \/ (operand[d] # Nil /\ operand'[d].val = operand[d].val)
    BY <1>1 DEF IInv, TypeOK
<1>4. HeldInstances' \subseteq HeldInstances
    BY <1>1, <1>3 DEF HeldInstances, Held
<1>. QED  BY <1>1, <1>2, <1>4, QuietInv DEF IInv, TypeOK, frameVars

(***************************************************************************)
(* Operations that bind a variable.                                        *)
(***************************************************************************)
\* VmCreateMemObj, whatever the frame it is called for.
LEMMA CreateInv ==
    ASSUME IInv, leaving = 0,
           NEW t \in Depths \ {0}, NEW b \in 1 .. t, NEW n \in Names, NEW i \in Slots,
           NEW v \in Arrays \cup Instances \cup {Nil},
           v \in Instances => attr[v] # Nil,
           CreateMemObj(t, b, n, i, v),
           t <= pFrame', pFrame <= pFrame', pFrame' \in 1 .. MaxFrames,
           kind' \in [Depths -> Kinds],
           UNCHANGED <<loose, arrayVars, attr, static, operand, unsetVars>>
    PROVE  IInv'
<1>0. /\ <<t, n>> \in Entry /\ b \in Depths
      /\ CanReserve(aFreeObj, aMemObj, i)
    BY MemObjAssumption DEF Entry, Depths, CreateMemObj, Reserve
<1>1. /\ i \notin installed /\ static # i
      /\ \A o \in Instances : attr[o] # i
      /\ \A m \in Nodes : nodeSlot[m] # i
      /\ aFreeObj' \in [Slots -> Nat] /\ aFreeObj'[i] = 0
      /\ \A k \in Slots \ {i} : aFreeObj'[k] = aFreeObj[k]
    BY <1>0, Reservable DEF CanReserve, CreateMemObj, Reserve
<1>2. TypeOK'
    <2>1. aMemObj' \subseteq Slots /\ slotVal' \in [Slots -> Arrays \cup Instances \cup {Nil}]
        BY DEF IInv, TypeOK, CreateMemObj, Reserve
    <2>2. /\ installed' \subseteq Slots /\ keep' \subseteq Slots
          /\ aReference' \in [Slots -> SUBSET Entry]
          /\ aArrEntries' \in [Slots -> SUBSET Nodes]
        BY <1>0 DEF IInv, TypeOK, CreateMemObj, RefObjInstall
    <2>3. hVar' \in [Entry -> Slots \cup {Nil}] /\ sLocal' \in [Depths -> SUBSET Slots]
        <3>1. hVar' \in [Entry -> Slots \cup {Nil}]
            BY <1>0 DEF IInv, TypeOK, CreateMemObj
        <3>2. sLocal' \in [Depths -> SUBSET Slots]
            BY <1>0 DEF IInv, TypeOK, CreateMemObj
        <3>. QED  BY <3>1, <3>2
    <2>4. sRef' \in [Depths -> SUBSET (Slots \X Entry)]
        <3>1. <<i, <<t, n>>>> \in Slots \X Entry
            BY <1>0
        <3>. QED  BY <1>0, <3>1 DEF IInv, TypeOK, CreateMemObj
    <2>. QED  BY <1>1, <2>1, <2>2, <2>3, <2>4 DEF IInv, TypeOK
<1>3. FreeListSound'
    BY <1>1 DEF IInv, TypeOK, FreeListSound, CreateMemObj, Reserve, RefObjInstall
<1>4. TableSound'
    BY <1>1 DEF IInv, TypeOK, TableSound, CreateMemObj, Reserve, RefObjInstall
<1>5. AttrSound'
    <2>1. HeldInstances' \subseteq HeldInstances \cup ({v} \cap Instances)
        BY DEF HeldInstances, Held, CreateMemObj, IInv, TypeOK
    <2>2. \A o \in HeldInstances' : attr'[o] # Nil
        BY <2>1 DEF IInv, AttrSound
    <2>. QED  BY <1>1, <2>2 DEF IInv, TypeOK, AttrSound, CreateMemObj, Reserve, RefObjInstall
<1>6. NodesPaired' /\ NodesBacked'
    BY <1>1 DEF IInv, TypeOK, NodesPaired, NodesBacked, TableSound, CreateMemObj, RefObjInstall
<1>7. FramesSound'
    <2>1. \A e \in Entry : e[1] > pFrame' => hVar'[e] = Nil
        <3> SUFFICES ASSUME NEW e \in Entry, e[1] > pFrame' PROVE hVar'[e] = Nil
            OBVIOUS
        <3>1. e[1] \in Int /\ t \in Int /\ pFrame \in Int /\ pFrame >= 1
            BY DEF Entry, Depths, IInv, TypeOK
        <3>2. e # <<t, n>> /\ e[1] > pFrame /\ e[1] # leaving
            BY <3>1
        <3>3. hVar[e] = Nil
            BY <3>2 DEF IInv, FramesSound
        <3>. QED  BY <3>2, <3>3 DEF IInv, TypeOK, CreateMemObj
    <2>2. \A d \in Depths : \A r \in sRef'[d] : r[2][1] >= d
        <3> SUFFICES ASSUME NEW d \in Depths, NEW r \in sRef'[d] PROVE r[2][1] >= d
            OBVIOUS
        <3>1. CASE r \in sRef[d]
            BY <3>1 DEF IInv, FramesSound
        <3>2. CASE r \notin sRef[d]
            <4>1. r = <<i, <<t, n>>>> /\ d = b
                BY <3>2, <1>0 DEF IInv, TypeOK, CreateMemObj
            <4>. QED  BY <4>1 DEF Depths
        <3>. QED  BY <3>1, <3>2
    <2>. QED  BY <2>1, <2>2 DEF FramesSound
<1>8. SymbolsBacked'
    BY <1>0, <1>1 DEF IInv, TypeOK, SymbolsBacked, CreateMemObj, RefObjInstall
<1>. QED  BY <1>2, <1>3, <1>4, <1>5, <1>6, <1>7, <1>8 DEF IInv

\* Declaring a variable preserves the invariant.
LEMMA DeclareInv ==
    ASSUME IInv, NEW n \in Names, NEW i \in Slots, NEW v \in Arrays \cup {Nil},
           Declare(n, i, v)
    PROVE  IInv'
<1>1. PICK b \in 1 .. pFrame : CreateMemObj(pFrame, b, n, i, v)
    BY DEF Declare
<1>2. leaving = 0 /\ pFrame \in Depths \ {0} /\ pFrame' = pFrame
    BY TopFrame DEF Declare, Statement, Idle
<1>3. v \in Instances => attr[v] # Nil
    BY MemObjAssumption
<1>4. /\ pFrame' \in 1 .. MaxFrames /\ pFrame <= pFrame' /\ kind' \in [Depths -> Kinds]
      /\ UNCHANGED <<loose, arrayVars, attr, static, operand, unsetVars>>
    BY <1>2 DEF Declare, IInv, TypeOK
<1>. QED  BY <1>1, <1>2, <1>3, <1>4, CreateInv

\* Calling a function with a parameter passed by value preserves it.
LEMMA CallByValueInv ==
    ASSUME IInv, NEW n \in Names, NEW i \in Slots, NEW v \in Arrays \cup Instances \cup {Nil},
           CallByValue(n, i, v)
    PROVE  IInv'
<1>1. leaving = 0 /\ EnterFrame("call") /\ "call" \in Kinds
    BY DEF CallByValue, Idle, Kinds
<1>2. v \in Instances => attr[v] # Nil
    BY MemObjAssumption DEF CallByValue, FreshArrays, IInv, AttrSound
<1>3. pFrame + 1 \in Depths \ {0} /\ pFrame + 1 \in 1 .. pFrame + 1 /\ pFrame' = pFrame + 1
    BY <1>1, EnterFrameType DEF IInv, TypeOK
<1>. QED  BY <1>1, <1>2, <1>3, EnterFrameType, CreateInv DEF CallByValue, IInv, TypeOK

\* Entering a catch block, which binds the exception, preserves it.
LEMMA EnterCatchInv ==
    ASSUME IInv, NEW n \in Names, NEW i \in Slots, NEW v \in Instances \cup {Nil},
           EnterCatch(n, i, v)
    PROVE  IInv'
<1>1. leaving = 0 /\ EnterFrame("catch") /\ "catch" \in Kinds
    BY DEF EnterCatch, Statement, Idle, Kinds, BlockKinds
<1>2. v \in Instances => attr[v] # Nil
    BY MemObjAssumption DEF EnterCatch, IInv, AttrSound
<1>3. pFrame + 1 \in Depths \ {0} /\ pFrame + 1 \in 1 .. pFrame + 1 /\ pFrame' = pFrame + 1
    BY <1>1, EnterFrameType DEF IInv, TypeOK
<1>. QED  BY <1>1, <1>2, <1>3, EnterFrameType, CreateInv DEF EnterCatch, IInv, TypeOK

\* The host's variables preserve it.
LEMMA ConfigCreateInv ==
    ASSUME IInv, NEW d \in {0, 1}, NEW n \in Names, NEW i \in Slots, ConfigCreate(d, n, i)
    PROVE  IInv'
<1>0. <<d, n>> \in Entry /\ CanReserve(aFreeObj, aMemObj, i) /\ pFrame = 1 /\ leaving = 0
    BY MemObjAssumption DEF Entry, Depths, ConfigCreate, Reserve, Idle
<1>1. /\ i \notin installed /\ static # i
      /\ \A o \in Instances : attr[o] # i
      /\ \A m \in Nodes : nodeSlot[m] # i
      /\ aFreeObj' \in [Slots -> Nat] /\ aFreeObj'[i] = 0
      /\ \A k \in Slots \ {i} : aFreeObj'[k] = aFreeObj[k]
    BY <1>0, Reservable DEF CanReserve, ConfigCreate, Reserve
<1>2. TypeOK'
    <2>1. aMemObj' \subseteq Slots /\ slotVal' \in [Slots -> Arrays \cup Instances \cup {Nil}]
        BY DEF IInv, TypeOK, ConfigCreate, Reserve
    <2>2. /\ installed' \subseteq Slots /\ keep' \subseteq Slots
          /\ aReference' \in [Slots -> SUBSET Entry]
          /\ aArrEntries' \in [Slots -> SUBSET Nodes]
        BY <1>0 DEF IInv, TypeOK, ConfigCreate, RefObjInstall
    <2>3. hVar' \in [Entry -> Slots \cup {Nil}]
        BY <1>0 DEF IInv, TypeOK, ConfigCreate
    <2>. QED  BY <1>1, <2>1, <2>2, <2>3 DEF IInv, TypeOK, ConfigCreate
<1>3. FreeListSound'
    BY <1>1 DEF IInv, TypeOK, FreeListSound, ConfigCreate, Reserve, RefObjInstall
<1>4. TableSound'
    BY <1>1 DEF IInv, TypeOK, TableSound, ConfigCreate, Reserve, RefObjInstall
<1>5. AttrSound'
    <2>1. HeldInstances' \subseteq HeldInstances
        BY MemObjAssumption DEF HeldInstances, Held, ConfigCreate, IInv, TypeOK
    <2>2. \A o \in HeldInstances' : attr'[o] # Nil
        BY <2>1 DEF IInv, AttrSound, ConfigCreate
    <2>. QED  BY <1>1, <2>2 DEF IInv, TypeOK, AttrSound, ConfigCreate, Reserve, RefObjInstall
<1>6. NodesPaired' /\ NodesBacked'
    BY <1>1 DEF IInv, TypeOK, NodesPaired, NodesBacked, TableSound, ConfigCreate, RefObjInstall
<1>7. FramesSound'
    <2>1. \A e \in Entry : e[1] > 1 => e # <<d, n>>
        OBVIOUS
    <2>. QED  BY <1>0, <2>1 DEF IInv, TypeOK, FramesSound, ConfigCreate
<1>8. SymbolsBacked'
    BY <1>0, <1>1 DEF IInv, TypeOK, SymbolsBacked, ConfigCreate, RefObjInstall
<1>. QED  BY <1>2, <1>3, <1>4, <1>5, <1>6, <1>7, <1>8 DEF IInv

\* A parameter or a static variable bound to a slot that exists already: the
\* entry is loose, so nothing promises that the slot has it on record.
LEMMA BindLooseInv ==
    ASSUME IInv, leaving = 0, NEW n \in Names, NEW i \in Slots,
           EnterFrame("call"),
           hVar' = [hVar EXCEPT ![<<pFrame + 1, n>>] = i],
           loose' = loose \cup {<<pFrame + 1, n>>},
           UNCHANGED <<sRef, leaving>>
    PROVE  /\ hVar' \in [Entry -> Slots \cup {Nil}]
           /\ loose' \subseteq Entry
           /\ FramesSound'
           /\ UNCHANGED <<installed, aReference>> => SymbolsBacked'
<1>1. <<pFrame + 1, n>> \in Entry /\ pFrame' = pFrame + 1 /\ pFrame \in Nat /\ pFrame >= 1
    BY EnterFrameType DEF Kinds, Entry, IInv, TypeOK
<1>2. hVar' \in [Entry -> Slots \cup {Nil}] /\ loose' \subseteq Entry
    BY <1>1 DEF IInv, TypeOK
<1>3. \A e \in Entry : e[1] > pFrame' => hVar'[e] = Nil
    <2> SUFFICES ASSUME NEW e \in Entry, e[1] > pFrame' PROVE hVar'[e] = Nil
        OBVIOUS
    <2>1. e[1] \in Int
        BY DEF Entry, Depths
    <2>2. e # <<pFrame + 1, n>> /\ e[1] > pFrame /\ e[1] # leaving
        BY <1>1, <2>1
    <2>. QED  BY <2>2 DEF IInv, TypeOK, FramesSound
<1>4. FramesSound'
    BY <1>3 DEF IInv, FramesSound
<1>5. UNCHANGED <<installed, aReference>> => SymbolsBacked'
    BY <1>1 DEF IInv, TypeOK, SymbolsBacked
<1>. QED  BY <1>2, <1>4, <1>5

(***************************************************************************)
(* Releasing containers.                                                   *)
(***************************************************************************)
\* A container that lost its last reference is not held any more.
LEMMA LostUnheld ==
    ASSUME NEW v, NEW ops, NEW x
    PROVE  /\ Lost(v, ops, x) \subseteq {x}
           /\ Nil \notin Lost(v, ops, x)
           /\ Lost(v, ops, x) \cap Held(v, ops) = {}
BY DEF Lost

\* Releasing the containers cs destroys the slots of their elements, and by
\* force those of their attributes, which the instances then give up.
LEMMA ReleaseInv ==
    ASSUME IInv, NEW cs, Nil \notin cs, cs \cap Instances \subseteq HeldInstances
    PROVE  /\ \A n \in ElementsIn(cs) : n \in Nodes /\ nodeSlot[n] \in Slots
           /\ Unsets(cs) \subseteq Slots \X {0, 1}
           /\ \A k \in Slots : <<k, 1>> \in Unsets(cs) =>
                 \E o \in cs \cap Instances : attr[o] = k
           /\ Kept(cs) \in [Instances -> Slots \cup {Nil}]
           /\ \A o \in Instances : Kept(cs)[o] = IF o \in cs THEN Nil ELSE attr[o]
<1>1. \A n \in ElementsIn(cs) : n \in Nodes /\ nodeSlot[n] \in Slots
    BY DEF ElementsIn, IInv, TypeOK, NodesPaired
<1>2. \A o \in cs \cap Instances : attr[o] \in Slots
    BY DEF IInv, TypeOK, AttrSound
<1>3. Unsets(cs) \subseteq Slots \X {0, 1}
    <2>1. {<<nodeSlot[n], 0>> : n \in ElementsIn(cs)} \subseteq Slots \X {0, 1}
        BY <1>1
    <2>2. {<<attr[o], 1>> : o \in cs \cap Instances} \subseteq Slots \X {0, 1}
        BY <1>2
    <2>. QED  BY <2>1, <2>2 DEF Unsets
<1>4. ASSUME NEW k \in Slots, <<k, 1>> \in Unsets(cs)
      PROVE  \E o \in cs \cap Instances : attr[o] = k
    <2>1. <<k, 1>> \notin {<<nodeSlot[n], 0>> : n \in ElementsIn(cs)}
        OBVIOUS
    <2>. QED  BY <1>4, <2>1 DEF Unsets
<1>5. Kept(cs) \in [Instances -> Slots \cup {Nil}]
    BY DEF Kept, IInv, TypeOK
<1>6. \A o \in Instances : Kept(cs)[o] = IF o \in cs THEN Nil ELSE attr[o]
    BY DEF Kept
<1>. QED  BY <1>1, <1>3, <1>4, <1>5, <1>6

\* The instances among released containers part with their attributes soundly.
LEMMA ReleaseAttrInv ==
    ASSUME IInv, NEW cs, Nil \notin cs, cs \cap Instances \subseteq HeldInstances,
           attr' = Kept(cs), HeldInstances' \subseteq HeldInstances \ cs,
           todo' \subseteq todo \cup Unsets(cs),
           aMemObj \subseteq aMemObj', static' = static,
           installed' \subseteq installed, keep \cap installed' \subseteq keep'
    PROVE  AttrSound'
<1>1. \A o \in Instances : attr'[o] = IF o \in cs THEN Nil ELSE attr[o]
    BY ReleaseInv
<1>2. \A o \in Instances : attr'[o] # Nil =>
         attr'[o] \in aMemObj' /\ attr'[o] # static' /\ (attr'[o] \in installed' => attr'[o] \in keep')
    BY <1>1 DEF IInv, AttrSound
<1>3. \A o, p \in Instances : attr'[o] # Nil /\ attr'[o] = attr'[p] => o = p
    BY <1>1 DEF IInv, AttrSound
<1>4. \A o \in HeldInstances' : attr'[o] # Nil
    <2>1. \A o \in HeldInstances' : o \in Instances /\ o \in HeldInstances /\ o \notin cs
        BY DEF HeldInstances
    <2>. QED  BY <1>1, <2>1 DEF IInv, AttrSound
<1>5. \A k \in Slots : <<k, 1>> \in todo' => \A o \in Instances : attr'[o] # k
    <2> SUFFICES ASSUME NEW k \in Slots, <<k, 1>> \in todo', NEW o \in Instances, attr'[o] = k
                 PROVE  FALSE
        OBVIOUS
    <2>1. attr[o] = k /\ k # Nil /\ o \notin cs
        BY <1>1, MemObjAssumption
    <2>2. <<k, 1>> \in Unsets(cs)
        BY <2>1 DEF IInv, AttrSound
    <2>3. PICK p \in cs \cap Instances : attr[p] = k
        BY <2>2, ReleaseInv
    <2>. QED  BY <2>1, <2>3 DEF IInv, AttrSound
<1>. QED  BY <1>2, <1>3, <1>4, <1>5 DEF AttrSound

\* Popping the lvalue releases what only it referred to.
LEMMA PopOperandInv ==
    ASSUME IInv, PopOperand, aMemObj \subseteq aMemObj',
           UNCHANGED <<slotVal, installed, keep, aReference, static>>
    PROVE  /\ AttrSound' /\ NodesPaired' /\ NodesBacked'
           /\ attr' \in [Instances -> Slots \cup {Nil}]
           /\ \A o \in Instances : attr'[o] = attr[o] \/ attr'[o] = Nil
           /\ todo' \subseteq Slots \X {0, 1}
           /\ nodeArr' \in [Nodes -> Arrays \cup {Nil}]
           /\ nodeSlot' \in [Nodes -> Slots \cup {Nil}]
           /\ leaked' = leaked
           /\ aArrEntries' \in [Slots -> SUBSET Nodes]
           /\ \A i \in Slots : aArrEntries'[i] \subseteq aArrEntries[i]
           /\ operand' \in [Depths -> Loaded \cup {Nil}]
<1> DEFINE x  == operand[pFrame].val
           cs == Lost(slotVal, operand', x)
<1>1. /\ operand[pFrame] # Nil /\ operand' = [operand EXCEPT ![pFrame] = Nil]
      /\ todo' = Unsets(cs)
      /\ attr' = Kept(cs)
      /\ nodeArr' = [n \in Nodes |-> IF n \in ElementsIn(cs) THEN Nil ELSE nodeArr[n]]
      /\ nodeSlot' = [n \in Nodes |-> IF n \in ElementsIn(cs) THEN Nil ELSE nodeSlot[n]]
      /\ leaked' = leaked
      /\ aArrEntries' = [i \in Slots |-> aArrEntries[i] \ ElementsIn(cs)]
    BY DEF PopOperand, FreeNodes
<1>2. cs \subseteq {x} /\ Nil \notin cs /\ cs \cap Held(slotVal, operand') = {}
    BY LostUnheld
<1>3. pFrame \in Depths
    BY TopFrame
<1>4. x \in Held(slotVal, operand)
    BY <1>1, <1>3 DEF Held
<1>5. cs \cap Instances \subseteq HeldInstances
    BY <1>2, <1>4 DEF HeldInstances
<1>6. Held(slotVal, operand') \subseteq Held(slotVal, operand)
    BY <1>1, <1>3 DEF Held, IInv, TypeOK
<1>7. HeldInstances' = Instances \cap Held(slotVal, operand')
    BY <1>1 DEF HeldInstances, Held
<1>8. HeldInstances' \subseteq HeldInstances \ cs
    BY <1>2, <1>6, <1>7 DEF HeldInstances
<1> HIDE DEF cs, x
<1>9. AttrSound'
    BY <1>1, <1>2, <1>5, <1>8, ReleaseAttrInv
<1>10. /\ todo' \subseteq Slots \X {0, 1}
       /\ attr' \in [Instances -> Slots \cup {Nil}]
       /\ \A o \in Instances : attr'[o] = attr[o] \/ attr'[o] = Nil
    BY <1>1, <1>2, <1>5, ReleaseInv
<1>11. NodesPaired'
    BY <1>1 DEF IInv, NodesPaired
<1>12. NodesBacked'
    <2>1. ASSUME NEW n \in Nodes, nodeSlot'[n] # Nil
          PROVE  nodeSlot'[n] \in installed' /\ n \in aArrEntries'[nodeSlot'[n]]
        <3>1. n \notin ElementsIn(cs) /\ nodeSlot'[n] = nodeSlot[n] /\ nodeSlot[n] \in Slots
            BY <1>1, <2>1 DEF IInv, TypeOK
        <3>. QED  BY <1>1, <2>1, <3>1 DEF IInv, NodesBacked
    <2>2. ASSUME NEW k \in installed', NEW n \in aArrEntries'[k] PROVE nodeSlot'[n] = k
        <3>1. k \in Slots /\ k \in installed
            BY <2>2 DEF IInv, TypeOK
        <3>2. n \in aArrEntries[k] /\ n \notin ElementsIn(cs)
            BY <1>1, <2>2, <3>1
        <3>3. nodeSlot[n] = k /\ n \in Nodes
            BY <3>1, <3>2 DEF IInv, TypeOK, NodesBacked
        <3>. QED  BY <1>1, <3>2, <3>3
    <2>. QED  BY <2>1, <2>2 DEF NodesBacked
<1>13. /\ nodeArr' \in [Nodes -> Arrays \cup {Nil}]
       /\ nodeSlot' \in [Nodes -> Slots \cup {Nil}]
       /\ aArrEntries' \in [Slots -> SUBSET Nodes]
       /\ \A i \in Slots : aArrEntries'[i] \subseteq aArrEntries[i]
    BY <1>1 DEF IInv, TypeOK
<1>14. operand' \in [Depths -> Loaded \cup {Nil}]
    BY <1>1 DEF IInv, TypeOK
<1>. QED  BY <1>1, <1>9, <1>10, <1>11, <1>12, <1>13, <1>14

\* Ending a statement preserves the invariant.
LEMMA PopInv == ASSUME IInv, Pop PROVE IInv'
<1>1. /\ PopOperand
      /\ UNCHANGED <<poolVars, slotVal, installed, keep, aReference, frameVars, static,
                     leaving, pure>>
    BY DEF Pop
<1>2. /\ AttrSound' /\ NodesPaired' /\ NodesBacked'
      /\ \A o \in Instances : attr'[o] = attr[o] \/ attr'[o] = Nil
      /\ \A i \in Slots : aArrEntries'[i] \subseteq aArrEntries[i]
    BY <1>1, PopOperandInv
<1>3. TypeOK'
    BY <1>1, PopOperandInv DEF IInv, TypeOK, frameVars
<1>4. FreeListSound'
    BY <1>1, <1>2, MemObjAssumption DEF IInv, FreeListSound
<1>5. TableSound'
    BY <1>1, <1>2 DEF IInv, TableSound
<1>6. FramesSound' /\ SymbolsBacked'
    BY <1>1 DEF IInv, FramesSound, SymbolsBacked, frameVars
<1>. QED  BY <1>2, <1>3, <1>4, <1>5, <1>6 DEF IInv

\* Calling a function with a parameter passed by reference preserves it.
LEMMA CallByRefInv ==
    ASSUME IInv, NEW n \in Names, NEW typed \in BOOLEAN, CallByRef(n, typed)
    PROVE  IInv'
<1>0. /\ leaving = 0 /\ PopOperand /\ EnterFrame("call") /\ "call" \in Kinds
      /\ hVar' = [hVar EXCEPT ![<<pFrame + 1, n>>] = operand[pFrame].slot]
      /\ loose' = loose \cup {<<pFrame + 1, n>>}
      /\ UNCHANGED <<slotVal, installed, keep, aReference, sLocal, sRef, static, leaving, pure>>
    BY DEF CallByRef, Idle, Kinds
<1>1. operand[pFrame].slot \in Slots
    <2>1. operand[pFrame] \in Loaded
        BY <1>0, TopFrame DEF PopOperand, IInv, TypeOK
    <2>. QED  BY <2>1 DEF Loaded
<1>2. /\ aMemObj \subseteq aMemObj' /\ aMemObj' \subseteq Slots
      /\ aFreeObj' \in [Slots -> Nat]
      /\ \A i \in Slots : aFreeObj'[i] = aFreeObj[i]
             \/ (i \notin aMemObj /\ i \in aMemObj' /\ aFreeObj'[i] = 1)
    <2>1. CASE UNCHANGED poolVars
        BY <2>1 DEF IInv, TypeOK
    <2>2. CASE \E k \in Slots \ aMemObj : /\ aMemObj' = aMemObj \cup {k}
                                          /\ aFreeObj' = [aFreeObj EXCEPT ![k] = 1]
        BY <2>2 DEF IInv, TypeOK
    <2>. QED  BY <2>1, <2>2 DEF CallByRef
<1>3. /\ AttrSound' /\ NodesPaired' /\ NodesBacked'
      /\ \A o \in Instances : attr'[o] = attr[o] \/ attr'[o] = Nil
      /\ \A i \in Slots : aArrEntries'[i] \subseteq aArrEntries[i]
    BY <1>0, <1>2, PopOperandInv
<1>4. /\ hVar' \in [Entry -> Slots \cup {Nil}] /\ loose' \subseteq Entry
      /\ FramesSound' /\ SymbolsBacked'
    BY <1>0, <1>1, BindLooseInv
<1>5. TypeOK'
    <2>1. pFrame' \in 1 .. MaxFrames /\ kind' \in [Depths -> Kinds]
        BY <1>0, EnterFrameType
    <2>2. /\ attr' \in [Instances -> Slots \cup {Nil}] /\ todo' \subseteq Slots \X {0, 1}
          /\ nodeArr' \in [Nodes -> Arrays \cup {Nil}]
          /\ nodeSlot' \in [Nodes -> Slots \cup {Nil}] /\ leaked' = leaked
          /\ aArrEntries' \in [Slots -> SUBSET Nodes]
          /\ operand' \in [Depths -> Loaded \cup {Nil}]
        BY <1>0, <1>2, PopOperandInv
    <2>. QED  BY <1>0, <1>2, <1>4, <2>1, <2>2 DEF IInv, TypeOK
<1>6. FreeListSound'
    <2> SUFFICES ASSUME NEW i \in Slots
                 PROVE  /\ aFreeObj'[i] <= 1
                        /\ aFreeObj'[i] = 1 =>
                              /\ i \in aMemObj' /\ i \notin installed' /\ i # static'
                              /\ \A o \in Instances : attr'[o] # i
        BY DEF FreeListSound
    <2>1. CASE aFreeObj'[i] = aFreeObj[i]
        BY <1>0, <1>2, <1>3, <2>1, MemObjAssumption DEF IInv, FreeListSound
    <2>2. CASE i \notin aMemObj /\ i \in aMemObj' /\ aFreeObj'[i] = 1
        BY <1>0, <1>3, <2>2, MemObjAssumption DEF IInv, TableSound, AttrSound
    <2>. QED  BY <1>2, <2>1, <2>2
<1>7. TableSound'
    BY <1>0, <1>2, <1>3 DEF IInv, TableSound
<1>. QED  BY <1>3, <1>4, <1>5, <1>6, <1>7 DEF IInv

\* So does calling the function that has a static variable.
LEMMA CallStaticInv == ASSUME IInv, NEW n \in Names, CallStatic(n) PROVE IInv'
<1>1. leaving = 0 /\ EnterFrame("call") /\ "call" \in Kinds
    BY DEF CallStatic, Idle, Kinds
<1>2. CASE static # Nil
    <2>1. UNCHANGED <<static, poolVars, slotVal>> /\ static' \in Slots
        BY <1>2 DEF CallStatic, IInv, TypeOK
    <2>2. /\ hVar' \in [Entry -> Slots \cup {Nil}] /\ loose' \subseteq Entry
          /\ FramesSound' /\ SymbolsBacked'
        BY <1>1, <2>1, BindLooseInv DEF CallStatic
    <2>3. TypeOK'
        BY <1>1, <2>1, <2>2, EnterFrameType DEF IInv, TypeOK, CallStatic
    <2>4. FreeListSound' /\ TableSound' /\ AttrSound' /\ NodesPaired' /\ NodesBacked'
        BY <2>1, SameHeld
           DEF IInv, FreeListSound, TableSound, AttrSound, NodesPaired, NodesBacked, CallStatic
    <2>. QED  BY <2>2, <2>3, <2>4 DEF IInv
<1>3. CASE static = Nil
    <2>1. PICK i \in Slots \ aMemObj, j \in Slots :
               /\ static' = i
               /\ CanReserve(aFreeObj, aMemObj \cup {i}, j)
               /\ aFreeObj' = Taken(aFreeObj, j)
               /\ aMemObj' = aMemObj \cup {i, j}
               /\ slotVal' = [slotVal EXCEPT ![i] = Nil, ![j] = Nil]
        BY <1>3 DEF CallStatic
    <2>2. aFreeObj[i] = 0 /\ i \notin installed /\ \A o \in Instances : attr[o] # i
        <3>1. aFreeObj[i] = 0
            BY DEF IInv, TypeOK, FreeListSound
        <3>2. i \notin installed
            BY DEF IInv, TableSound
        <3>3. \A o \in Instances : attr[o] # i
            BY MemObjAssumption DEF IInv, AttrSound
        <3>. QED  BY <3>1, <3>2, <3>3
    <2>3. CanReserve(aFreeObj, aMemObj, j)
        BY <2>1 DEF CanReserve
    <2>4. /\ j \notin installed /\ j # i
          /\ aFreeObj' \in [Slots -> Nat] /\ aFreeObj'[j] = 0
          /\ \A k \in Slots \ {j} : aFreeObj'[k] = aFreeObj[k]
        BY <2>1, <2>2, <2>3, Reservable DEF CanReserve
    <2>5. /\ hVar' \in [Entry -> Slots \cup {Nil}] /\ loose' \subseteq Entry
          /\ FramesSound' /\ SymbolsBacked'
        BY <1>1, <2>1, BindLooseInv DEF CallStatic
    <2>6. TypeOK'
        BY <1>1, <2>1, <2>4, <2>5, EnterFrameType DEF IInv, TypeOK, CallStatic
    <2>7. FreeListSound'
        BY <2>1, <2>2, <2>4 DEF IInv, TypeOK, FreeListSound, CallStatic
    <2>8. TableSound'
        BY <2>1, <2>2, MemObjAssumption DEF IInv, TypeOK, TableSound, CallStatic
    <2>10. AttrSound'
        <3>1. HeldInstances' \subseteq HeldInstances
            BY <2>1, MemObjAssumption DEF HeldInstances, Held, IInv, TypeOK, CallStatic
        <3>. QED  BY <2>1, <2>2, <3>1 DEF IInv, TypeOK, AttrSound, CallStatic
    <2>9. NodesPaired' /\ NodesBacked'
        BY DEF IInv, NodesPaired, NodesBacked, CallStatic
    <2>. QED  BY <2>5, <2>6, <2>7, <2>8, <2>9, <2>10 DEF IInv
<1>. QED  BY <1>2, <1>3

(***************************************************************************)
(* Leaving a frame.                                                        *)
(***************************************************************************)
\* VmLeaveFrame: a block only drops its entries; any other frame starts to
\* destroy its locals, and is the one torn down from here on.
LEMMA LeaveFrameInv == ASSUME IInv, LeaveFrame PROVE IInv'
<1>0. /\ leaving = 0 /\ pFrame > 1 /\ pFrame' = pFrame - 1
      /\ pFrame \in Depths \ {0} /\ pFrame' \in 1 .. MaxFrames /\ pFrame \in Int
    BY MemObjAssumption DEF LeaveFrame, Statement, Idle, IInv, TypeOK, Depths
<1>1. /\ hVar' \in [Entry -> Slots \cup {Nil}] /\ loose' \subseteq Entry
      /\ kind' \in [Depths -> Kinds]
      /\ sLocal' \in [Depths -> SUBSET Slots] /\ sRef' \in [Depths -> SUBSET (Slots \X Entry)]
      /\ \A e \in Entry : hVar'[e] = hVar[e] \/ hVar'[e] = Nil
      /\ \A e \in Entry : e \in loose /\ hVar'[e] # Nil => e \in loose'
      /\ \A d \in Depths : sRef'[d] \subseteq sRef[d]
    BY <1>0 DEF LeaveFrame, BlankLevel, IInv, TypeOK, Kinds
<1>2. todo' \subseteq Slots \X {0, 1} /\ leaving' \in Depths
    <2>1. Locals(pFrame) \subseteq Slots
        BY <1>0 DEF Locals, IInv, TypeOK
    <2>2. {<<i, 0>> : i \in Locals(pFrame)} \subseteq Slots \X {0, 1}
        BY <2>1
    <2>. QED  BY <1>0, <2>2 DEF LeaveFrame, IInv, TypeOK
<1>3. TypeOK'
    BY <1>0, <1>1, <1>2 DEF LeaveFrame, IInv, TypeOK
<1>4. /\ UNCHANGED <<poolVars, slotVal, refVars, arrayVars, attr, static, operand>>
      /\ \A i \in Slots : <<i, 1>> \in todo' => <<i, 1>> \in todo
    BY DEF LeaveFrame
<1>5. FreeListSound' /\ TableSound' /\ NodesPaired' /\ NodesBacked'
    BY <1>4 DEF IInv, FreeListSound, TableSound, NodesPaired, NodesBacked
<1>6. AttrSound'
    BY <1>4, SameHeld DEF IInv, AttrSound
<1>7. SymbolsBacked'
    BY <1>1, <1>4 DEF IInv, SymbolsBacked
<1>8. FramesSound'
    <2>1. leaving' = 0 \/ leaving' = pFrame' + 1
        BY <1>0 DEF LeaveFrame
    <2>2. \A e \in Entry : e[1] > pFrame' /\ e[1] # leaving' => hVar'[e] = Nil
        <3> SUFFICES ASSUME NEW e \in Entry, e[1] > pFrame', e[1] # leaving'
                     PROVE  hVar'[e] = Nil
            OBVIOUS
        <3>1. e[1] \in Int
            BY DEF Entry, Depths
        <3>2. CASE e[1] = pFrame
            BY <1>0, <3>2 DEF LeaveFrame, BlankLevel
        <3>3. CASE e[1] # pFrame
            <4>1. e[1] > pFrame /\ e[1] # leaving
                BY <1>0, <3>1, <3>3
            <4>. QED  BY <1>1, <4>1 DEF IInv, FramesSound
        <3>. QED  BY <3>2, <3>3
    <2>3. \A d \in Depths : \A r \in sRef'[d] : r[2][1] >= d
        BY <1>1 DEF IInv, FramesSound
    <2>. QED  BY <2>1, <2>2, <2>3 DEF FramesSound
<1>. QED  BY <1>3, <1>5, <1>6, <1>7, <1>8 DEF IInv

\* The end of VmLeaveFrame: the entries of the frame leave the reference table
\* together with its symbol table, those of other frames stay.
LEMMA FinishLeaveInv == ASSUME IInv, FinishLeave PROVE IInv'
<1>0. leaving = pFrame + 1 /\ leaving \in Depths /\ leaving' = 0 /\ pFrame' = pFrame
    BY DEF FinishLeave, IInv, TypeOK, FramesSound
<1>1. /\ aReference' \in [Slots -> SUBSET Entry]
      /\ \A i \in Slots : aReference'[i] \subseteq aReference[i]
      /\ \A i \in Slots, e \in Entry :
            e \in aReference[i] /\ e \notin aReference'[i] => <<i, e>> \in sRef[leaving]
    <2>1. aReference' = [i \in Slots |->
             IF i \in installed
             THEN aReference[i] \ {e \in Entry : <<i, e>> \in sRef[leaving]}
             ELSE aReference[i]]
        BY DEF FinishLeave
    <2>. QED  BY <2>1 DEF IInv, TypeOK
<1>2. /\ hVar' = [e \in Entry |-> IF e[1] = leaving THEN Nil ELSE hVar[e]]
      /\ loose' = {e \in loose : e[1] # leaving}
      /\ sRef' = [sRef EXCEPT ![leaving] = {}]
    BY DEF FinishLeave, BlankLevel
<1>3. TypeOK'
    <2>1. /\ kind' \in [Depths -> Kinds] /\ hVar' \in [Entry -> Slots \cup {Nil}]
          /\ loose' \subseteq Entry
          /\ sLocal' \in [Depths -> SUBSET Slots] /\ sRef' \in [Depths -> SUBSET (Slots \X Entry)]
        BY <1>0, <1>2 DEF FinishLeave, BlankLevel, IInv, TypeOK, Kinds
    <2>2. leaving' \in Depths
        BY <1>0, MemObjAssumption DEF Depths
    <2>. QED  BY <1>0, <1>1, <2>1, <2>2 DEF FinishLeave, IInv, TypeOK
<1>4. FreeListSound' /\ AttrSound' /\ NodesPaired' /\ NodesBacked'
    BY SameHeld DEF FinishLeave, IInv, FreeListSound, AttrSound, NodesPaired, NodesBacked
<1>5. TableSound'
    BY <1>1 DEF FinishLeave, IInv, TableSound
<1>6. FramesSound'
    BY <1>0, <1>2 DEF IInv, TypeOK, FramesSound
<1>7. SymbolsBacked'
    <2> SUFFICES ASSUME NEW e \in Entry, hVar'[e] # Nil, e \notin loose'
                 PROVE  hVar'[e] \in installed' /\ e \in aReference'[hVar'[e]]
        BY DEF SymbolsBacked
    <2>1. e[1] # leaving /\ hVar'[e] = hVar[e] /\ e \notin loose /\ hVar[e] \in Slots
        BY <1>2 DEF IInv, TypeOK
    <2>2. hVar[e] \in installed /\ e \in aReference[hVar[e]]
        BY <2>1 DEF IInv, SymbolsBacked
    <2>3. <<hVar[e], e>> \notin sRef[leaving]
        <3> SUFFICES ASSUME <<hVar[e], e>> \in sRef[leaving] PROVE FALSE
            OBVIOUS
        <3>1. e[1] >= leaving /\ e[1] \in Int /\ pFrame \in Int
            BY <1>0 DEF IInv, TypeOK, FramesSound, Entry, Depths
        <3>2. e[1] > pFrame
            BY <1>0, <3>1
        <3>. QED  BY <2>1, <3>2 DEF IInv, FramesSound
    <2>. QED  BY <1>1, <2>1, <2>2, <2>3 DEF FinishLeave
<1>. QED  BY <1>3, <1>4, <1>5, <1>6, <1>7 DEF IInv

(***************************************************************************)
(* Destroying a slot.                                                      *)
(***************************************************************************)
\* One call of PH7_VmUnsetMemObj preserves the invariant.
LEMMA UnsetMemObjInv ==
    ASSUME IInv, NEW i \in Slots, NEW force \in {0, 1}, UnsetMemObj(i, force)
    PROVE  IInv'
<1> DEFINE values == [slotVal EXCEPT ![i] = Nil]
           cs     == Lost(values, operand, slotVal[i])
           elems  == ElementsIn(cs)
           names  == Entries(i)
           gone   == elems \cup (IF i \in installed THEN aArrEntries[i] ELSE {})
<1>1. /\ <<i, force>> \in todo
      /\ slotVal' = values
      /\ todo' = (todo \ {<<i, force>>}) \cup Unsets(cs)
      /\ attr' = Kept(cs)
      /\ hVar' = [e \in Entry |-> IF e \in names THEN Nil ELSE hVar[e]]
      /\ loose' = loose \ names
      /\ nodeArr' = [n \in Nodes |-> IF n \in gone THEN Nil ELSE nodeArr[n]]
      /\ nodeSlot' = [n \in Nodes |-> IF n \in gone THEN Nil ELSE nodeSlot[n]]
      /\ aArrEntries' = [j \in Slots |-> IF j = i THEN {} ELSE aArrEntries[j] \ elems]
      /\ aReference' = [aReference EXCEPT ![i] = {}]
      /\ installed' = installed \ {i}
      /\ keep' = keep \ {i}
      /\ leaked' = leaked
    BY DEF UnsetMemObj, FreeNodes
<1>2. /\ aFreeObj' = IF Restored(i, force) THEN [aFreeObj EXCEPT ![i] = @ + 1] ELSE aFreeObj
      /\ aFreeObj \in [Slots -> Nat]
    BY DEF UnsetMemObj, IInv, TypeOK
<1>3. UNCHANGED <<aMemObj, pFrame, kind, sLocal, sRef, static, operand, leaving, pure>>
    BY DEF UnsetMemObj
<1>4. /\ Nil \notin cs /\ cs \cap Instances \subseteq HeldInstances
      /\ HeldInstances' \subseteq HeldInstances \ cs
    <2>1. cs \subseteq {slotVal[i]} /\ Nil \notin cs /\ cs \cap Held(values, operand) = {}
        BY LostUnheld
    <2>2. slotVal[i] \in Held(slotVal, operand)
        BY DEF Held
    <2>3. HeldInstances' = Instances \cap Held(values, operand)
        BY <1>1, <1>3 DEF HeldInstances, Held
    <2>4. Instances \cap Held(values, operand) \subseteq Held(slotVal, operand)
        BY MemObjAssumption DEF Held, IInv, TypeOK
    <2>. QED  BY <2>1, <2>2, <2>3, <2>4 DEF HeldInstances
<1> HIDE DEF cs
<1>5. \A n \in elems : n \in Nodes /\ nodeSlot[n] \in Slots
    BY <1>4, ReleaseInv
<1>6. \A o \in Instances : attr'[o] = IF o \in cs THEN Nil ELSE attr[o]
    BY <1>1, <1>4, ReleaseInv
<1> HIDE DEF elems
<1>7. \A n \in Nodes : n \in gone => n \in elems \/ (i \in installed /\ nodeSlot[n] = i)
    BY DEF IInv, NodesBacked
<1>8. names \subseteq Entry /\ (i \in installed => names = aReference[i])
    BY DEF Entries, IInv, TypeOK
<1>9. TypeOK'
    <2>1. slotVal' \in [Slots -> Arrays \cup Instances \cup {Nil}]
        BY <1>1 DEF IInv, TypeOK
    <2>2. todo' \subseteq Slots \X {0, 1}
        <3>1. Unsets(cs) \subseteq Slots \X {0, 1}
            BY <1>4, ReleaseInv
        <3>. QED  BY <1>1, <3>1 DEF IInv, TypeOK
    <2>3. attr' \in [Instances -> Slots \cup {Nil}]
        BY <1>1, <1>4, ReleaseInv
    <2>4. /\ hVar' \in [Entry -> Slots \cup {Nil}] /\ loose' \subseteq Entry
          /\ installed' \subseteq Slots /\ keep' \subseteq Slots
          /\ aReference' \in [Slots -> SUBSET Entry]
        BY <1>1 DEF IInv, TypeOK
    <2>5. /\ nodeArr' \in [Nodes -> Arrays \cup {Nil}]
          /\ nodeSlot' \in [Nodes -> Slots \cup {Nil}]
        BY <1>1 DEF IInv, TypeOK
    <2>6. aArrEntries' \in [Slots -> SUBSET Nodes]
        BY <1>1 DEF IInv, TypeOK
    <2>7. aFreeObj' \in [Slots -> Nat]
        BY <1>2
    <2>8. /\ aMemObj' \subseteq Slots /\ pFrame' \in 1 .. MaxFrames
          /\ kind' \in [Depths -> Kinds] /\ sLocal' \in [Depths -> SUBSET Slots]
          /\ sRef' \in [Depths -> SUBSET (Slots \X Entry)]
          /\ leaked' \subseteq Arrays /\ static' \in Slots \cup {Nil}
          /\ operand' \in [Depths -> Loaded \cup {Nil}]
          /\ leaving' \in Depths /\ pure' \in BOOLEAN
        BY <1>1, <1>3 DEF IInv, TypeOK
    <2>. QED  BY <2>1, <2>2, <2>3, <2>4, <2>5, <2>6, <2>7, <2>8 DEF TypeOK
<1>10. \A o \in Instances : Restored(i, force) => attr'[o] # i
    <2> SUFFICES ASSUME NEW o \in Instances, Restored(i, force), attr'[o] = i PROVE FALSE
        OBVIOUS
    <2>1. attr[o] = i /\ i # Nil
        BY <1>6, MemObjAssumption
    <2>2. i \in keep
        BY <2>1 DEF Restored, IInv, AttrSound
    <2>3. <<i, 1>> \in todo
        BY <1>1, <2>2 DEF Restored
    <2>. QED  BY <2>1, <2>3 DEF IInv, AttrSound
<1>11. FreeListSound'
    <2>1. CASE Restored(i, force)
        <3>1. i \in installed /\ i \in aMemObj /\ i # static
            BY <2>1, MemObjAssumption DEF Restored, IInv, TableSound
        <3>6. aFreeObj[i] = 0
            BY <1>2, <3>1 DEF IInv, FreeListSound
        <3>2. aFreeObj' = [aFreeObj EXCEPT ![i] = 1]
            BY <1>2, <2>1, <3>6
        <3>3. \A o \in Instances : attr'[o] = attr[o] \/ attr'[o] = Nil
            BY <1>6
        <3> SUFFICES ASSUME NEW k \in Slots
                     PROVE  /\ aFreeObj'[k] <= 1
                            /\ aFreeObj'[k] = 1 =>
                                  /\ k \in aMemObj' /\ k \notin installed' /\ k # static'
                                  /\ \A o \in Instances : attr'[o] # k
            BY DEF FreeListSound
        <3>4. CASE k = i
            BY <1>1, <1>3, <1>10, <2>1, <3>1, <3>2, <3>4 DEF IInv, TypeOK
        <3>5. CASE k # i
            BY <1>1, <1>3, <3>2, <3>3, <3>5, MemObjAssumption DEF IInv, TypeOK, FreeListSound
        <3>. QED  BY <3>4, <3>5
    <2>2. CASE ~ Restored(i, force)
        BY <1>1, <1>2, <1>3, <1>6, <2>2, MemObjAssumption DEF IInv, FreeListSound
    <2>. QED  BY <2>1, <2>2
<1>12. TableSound'
    BY <1>1, <1>3 DEF IInv, TypeOK, TableSound
<1>13. AttrSound'
    <2>1. /\ todo' \subseteq todo \cup Unsets(cs)
          /\ installed' \subseteq installed /\ keep \cap installed' \subseteq keep'
        BY <1>1
    <2>. QED  BY <1>1, <1>3, <1>4, <2>1, ReleaseAttrInv
<1>14. NodesPaired'
    BY <1>1 DEF IInv, NodesPaired
<1>15. NodesBacked'
    <2>1. ASSUME NEW n \in Nodes, nodeSlot'[n] # Nil
          PROVE  nodeSlot'[n] \in installed' /\ n \in aArrEntries'[nodeSlot'[n]]
        <3>1. n \notin gone /\ nodeSlot'[n] = nodeSlot[n] /\ nodeSlot[n] \in Slots
            BY <1>1, <2>1 DEF IInv, TypeOK
        <3>2. nodeSlot[n] \in installed /\ n \in aArrEntries[nodeSlot[n]]
            BY <2>1, <3>1 DEF IInv, NodesBacked
        <3>3. nodeSlot[n] # i
            BY <3>1, <3>2
        <3>. QED  BY <1>1, <3>1, <3>2, <3>3
    <2>2. ASSUME NEW k \in installed', NEW n \in aArrEntries'[k] PROVE nodeSlot'[n] = k
        <3>1. k \in Slots /\ k # i /\ k \in installed /\ n \in aArrEntries[k] /\ n \notin elems
            BY <1>1, <2>2 DEF IInv, TypeOK
        <3>2. nodeSlot[n] = k /\ n \in Nodes
            BY <3>1 DEF IInv, TypeOK, NodesBacked
        <3>. QED  BY <1>1, <1>7, <3>1, <3>2
    <2>. QED  BY <2>1, <2>2 DEF NodesBacked
<1>16. FramesSound'
    BY <1>1, <1>3 DEF IInv, FramesSound
<1>17. SymbolsBacked'
    <2> SUFFICES ASSUME NEW e \in Entry, hVar'[e] # Nil, e \notin loose'
                 PROVE  hVar'[e] \in installed' /\ e \in aReference'[hVar'[e]]
        BY DEF SymbolsBacked
    <2>1. e \notin names /\ hVar'[e] = hVar[e] /\ e \notin loose /\ hVar[e] \in Slots
        BY <1>1 DEF IInv, TypeOK
    <2>2. hVar[e] \in installed /\ e \in aReference[hVar[e]]
        BY <2>1 DEF IInv, SymbolsBacked
    <2>3. hVar[e] # i
        BY <1>8, <2>1, <2>2
    <2>. QED  BY <1>1, <2>1, <2>2, <2>3 DEF IInv, TypeOK
<1>. QED  BY <1>9, <1>11, <1>12, <1>13, <1>14, <1>15, <1>16, <1>17 DEF IInv

\* A script's unset only schedules the destruction.
LEMMA UnsetInv == ASSUME IInv, NEW i \in Slots, Unset(i) PROVE IInv'
<1>1. /\ todo' = {<<i, 0>>} /\ pure' = FALSE
      /\ UNCHANGED <<poolVars, slotVal, refVars, frameVars, arrayVars, attr, static, operand,
                     leaving>>
    BY DEF Unset
<1>2. TypeOK'
    <2>1. todo' \subseteq Slots \X {0, 1}
        BY <1>1
    <2>. QED  BY <1>1, <2>1 DEF IInv, TypeOK, frameVars
<1>3. FreeListSound' /\ TableSound' /\ AttrSound'
    BY <1>1, SameHeld DEF IInv, FreeListSound, TableSound, AttrSound
<1>4. NodesPaired' /\ NodesBacked' /\ FramesSound' /\ SymbolsBacked'
    BY <1>1 DEF IInv, NodesPaired, NodesBacked, FramesSound, SymbolsBacked, frameVars
<1>. QED  BY <1>2, <1>3, <1>4 DEF IInv

(***************************************************************************)
(* Arrays.                                                                 *)
(***************************************************************************)
\* Adding an element to an array.
LEMMA ArrayInsertInv ==
    ASSUME IInv, NEW a \in Arrays, NEW n \in Nodes, NEW i \in Slots,
           NEW v \in Instances \cup {Nil}, ArrayInsert(a, n, i, v)
    PROVE  IInv'
<1>0. CanReserve(aFreeObj, aMemObj, i) /\ nodeArr[n] = Nil /\ nodeSlot[n] = Nil
    BY DEF ArrayInsert, Reserve, IInv, NodesPaired
<1>1. /\ i \notin installed /\ static # i
      /\ \A o \in Instances : attr[o] # i
      /\ \A m \in Nodes : nodeSlot[m] # i
      /\ aFreeObj' \in [Slots -> Nat] /\ aFreeObj'[i] = 0
      /\ \A k \in Slots \ {i} : aFreeObj'[k] = aFreeObj[k]
    BY <1>0, Reservable DEF CanReserve, ArrayInsert, Reserve
<1>2. TypeOK'
    <2>1. aMemObj' \subseteq Slots /\ slotVal' \in [Slots -> Arrays \cup Instances \cup {Nil}]
        BY DEF IInv, TypeOK, ArrayInsert, Reserve
    <2>2. /\ installed' \subseteq Slots /\ keep' \subseteq Slots
          /\ aReference' \in [Slots -> SUBSET Entry]
          /\ aArrEntries' \in [Slots -> SUBSET Nodes]
        BY DEF IInv, TypeOK, ArrayInsert, RefObjInstall
    <2>3. nodeArr' \in [Nodes -> Arrays \cup {Nil}] /\ nodeSlot' \in [Nodes -> Slots \cup {Nil}]
        BY DEF IInv, TypeOK, ArrayInsert
    <2>. QED  BY <1>1, <2>1, <2>2, <2>3 DEF IInv, TypeOK, ArrayInsert, frameVars
<1>3. FreeListSound'
    BY <1>1 DEF IInv, TypeOK, FreeListSound, ArrayInsert, Reserve, RefObjInstall
<1>4. TableSound'
    BY <1>1 DEF IInv, TypeOK, TableSound, ArrayInsert, Reserve, RefObjInstall
<1>5. AttrSound'
    <2>1. v \in Instances => attr[v] # Nil
        BY MemObjAssumption DEF ArrayInsert, IInv, AttrSound
    <2>2. HeldInstances' \subseteq HeldInstances \cup ({v} \cap Instances)
        BY DEF HeldInstances, Held, ArrayInsert, IInv, TypeOK
    <2>3. \A o \in HeldInstances' : attr'[o] # Nil
        BY <2>1, <2>2 DEF IInv, AttrSound, ArrayInsert
    <2>. QED  BY <1>1, <2>3 DEF IInv, TypeOK, AttrSound, ArrayInsert, Reserve, RefObjInstall
<1>6. NodesPaired'
    BY MemObjAssumption DEF IInv, TypeOK, NodesPaired, ArrayInsert
<1>7. NodesBacked'
    <2>1. /\ installed' = installed \cup {i} /\ nodeSlot' = [nodeSlot EXCEPT ![n] = i]
          /\ aArrEntries' = [aArrEntries EXCEPT ![i] = @ \cup {n}]
        BY DEF ArrayInsert, RefObjInstall
    <2>2. aArrEntries[i] = {}
        BY <1>1 DEF IInv, TableSound
    <2>3. \A m \in Nodes : nodeSlot'[m] # Nil =>
             nodeSlot'[m] \in installed' /\ m \in aArrEntries'[nodeSlot'[m]]
        BY <1>1, <2>1 DEF IInv, TypeOK, NodesBacked
    <2>4. ASSUME NEW k \in installed', NEW m \in aArrEntries'[k] PROVE nodeSlot'[m] = k
        <3>1. CASE k = i
            BY <2>1, <2>2, <2>4, <3>1 DEF IInv, TypeOK
        <3>2. CASE k # i
            <4>1. k \in installed /\ m \in aArrEntries[k] /\ m \in Nodes
                BY <2>1, <2>4, <3>2 DEF IInv, TypeOK
            <4>2. nodeSlot[m] = k /\ m # n
                BY <1>0, <4>1, MemObjAssumption DEF IInv, TypeOK, NodesBacked
            <4>. QED  BY <2>1, <4>1, <4>2 DEF IInv, TypeOK
        <3>. QED  BY <3>1, <3>2
    <2>. QED  BY <2>3, <2>4 DEF NodesBacked
<1>8. FramesSound'
    BY DEF IInv, FramesSound, ArrayInsert, frameVars
<1>9. SymbolsBacked'
    BY <1>1 DEF IInv, TypeOK, SymbolsBacked, ArrayInsert, RefObjInstall, frameVars
<1>. QED  BY <1>2, <1>3, <1>4, <1>5, <1>6, <1>7, <1>8, <1>9 DEF IInv

\* Removing one: the node is off the record before its slot is destroyed.
LEMMA ArrayRemoveInv == ASSUME IInv, NEW n \in Nodes, ArrayRemove(n) PROVE IInv'
<1>1. /\ nodeArr[n] # Nil /\ todo' = {<<nodeSlot[n], 0>>}
      /\ aArrEntries' = [j \in Slots |-> IF j = nodeSlot[n] THEN aArrEntries[j] \ {n}
                                         ELSE aArrEntries[j]]
      /\ nodeArr' = [nodeArr EXCEPT ![n] = Nil] /\ nodeSlot' = [nodeSlot EXCEPT ![n] = Nil]
      /\ pure' = FALSE
      /\ UNCHANGED <<poolVars, slotVal, installed, keep, aReference, leaked, frameVars,
                     attr, static, operand, leaving>>
    BY DEF ArrayRemove, RefObjRemove
<1>2. nodeSlot[n] \in Slots
    BY <1>1 DEF IInv, TypeOK, NodesPaired
<1>3. TypeOK'
    <2>1. aArrEntries' \in [Slots -> SUBSET Nodes]
        BY <1>1 DEF IInv, TypeOK
    <2>2. todo' \subseteq Slots \X {0, 1}
        BY <1>1, <1>2
    <2>3. nodeArr' \in [Nodes -> Arrays \cup {Nil}] /\ nodeSlot' \in [Nodes -> Slots \cup {Nil}]
        BY <1>1 DEF IInv, TypeOK
    <2>. QED  BY <1>1, <2>1, <2>2, <2>3 DEF IInv, TypeOK, frameVars
<1>4. FreeListSound' /\ TableSound'
    BY <1>1 DEF IInv, FreeListSound, TableSound
<1>5. AttrSound'
    BY <1>1, SameHeld DEF IInv, AttrSound
<1>6. NodesPaired'
    BY <1>1 DEF IInv, TypeOK, NodesPaired
<1>7. NodesBacked'
    <2>1. ASSUME NEW m \in Nodes, nodeSlot'[m] # Nil
          PROVE  nodeSlot'[m] \in installed' /\ m \in aArrEntries'[nodeSlot'[m]]
        <3>1. m # n /\ nodeSlot'[m] = nodeSlot[m] /\ nodeSlot[m] \in Slots
            BY <1>1, <2>1 DEF IInv, TypeOK
        <3>. QED  BY <1>1, <2>1, <3>1 DEF IInv, NodesBacked
    <2>2. ASSUME NEW k \in installed', NEW m \in aArrEntries'[k] PROVE nodeSlot'[m] = k
        <3>1. k \in Slots /\ k \in installed /\ m \in aArrEntries[k]
            BY <1>1, <2>2 DEF IInv, TypeOK
        <3>2. nodeSlot[m] = k /\ m \in Nodes
            BY <3>1 DEF IInv, TypeOK, NodesBacked
        <3>3. m # n
            BY <1>1, <2>2, <3>1, <3>2
        <3>. QED  BY <1>1, <3>2, <3>3 DEF IInv, TypeOK
    <2>. QED  BY <2>1, <2>2 DEF NodesBacked
<1>8. FramesSound' /\ SymbolsBacked'
    BY <1>1 DEF IInv, FramesSound, SymbolsBacked, frameVars
<1>. QED  BY <1>3, <1>4, <1>5, <1>6, <1>7, <1>8 DEF IInv

\* Storing an array over another one: a leaked array is no instance, and the
\* copy is nobody's yet.
LEMMA AssignArrayInv ==
    ASSUME IInv, NEW t \in Slots, NEW a \in Arrays, AssignArray(t, a)
    PROVE  IInv'
<1>1. /\ slotVal[t] \in Arrays
      /\ StoreVal(slotVal, t, a)
      /\ leaked' = leaked \cup {slotVal[t]}
      /\ UNCHANGED <<poolVars, refVars, frameVars, nodeArr, nodeSlot, attr, static, operand,
                     leaving>>
    BY DEF AssignArray
<1>2. Overwritten(slotVal, t, a) = {}
    BY <1>1, MemObjAssumption DEF Overwritten, Lost
<1>3. slotVal' = [slotVal EXCEPT ![t] = a] /\ todo' = {}
    BY <1>1, <1>2 DEF StoreVal, Unsets, ElementsIn, IInv, TypeOK
<1>4. pure' \in BOOLEAN
    BY <1>1 DEF StoreVal
<1>5. TypeOK'
    BY <1>1, <1>3, <1>4 DEF IInv, TypeOK, frameVars
<1>6. FreeListSound' /\ TableSound'
    BY <1>1 DEF IInv, FreeListSound, TableSound
<1>7. AttrSound'
    <2>1. HeldInstances' \subseteq HeldInstances
        BY <1>1, <1>3, MemObjAssumption DEF HeldInstances, Held, IInv, TypeOK
    <2>. QED  BY <1>1, <1>3, <2>1 DEF IInv, AttrSound
<1>8. NodesPaired' /\ NodesBacked' /\ FramesSound' /\ SymbolsBacked'
    BY <1>1 DEF IInv, NodesPaired, NodesBacked, FramesSound, SymbolsBacked, frameVars
<1>. QED  BY <1>5, <1>6, <1>7, <1>8 DEF IInv

(***************************************************************************)
(* Instances.                                                              *)
(***************************************************************************)
\* Sharing an instance: the one overwritten may lose its last reference.
LEMMA AssignInv == ASSUME IInv, NEW s \in Slots, NEW t \in Slots, Assign(s, t) PROVE IInv'
<1> DEFINE x    == slotVal[s]
           dead == Overwritten(slotVal, t, x)
<1>1. /\ x \in Instances
      /\ slotVal' = [slotVal EXCEPT ![t] = x]
      /\ todo' = Unsets(dead)
      /\ pure' \in BOOLEAN
      /\ attr' = Kept(dead)
      /\ UNCHANGED <<poolVars, refVars, frameVars, arrayVars, static, operand, leaving>>
    BY DEF Assign, StoreVal
<1>2. /\ Nil \notin dead /\ dead \cap Instances \subseteq HeldInstances
      /\ HeldInstances' \subseteq HeldInstances \ dead
    <2>1. dead \subseteq {slotVal[t]} /\ Nil \notin dead /\ dead \cap Held(slotVal', operand) = {}
        BY <1>1, LostUnheld DEF Overwritten
    <2>2. HeldInstances' = Instances \cap Held(slotVal', operand)
        BY <1>1 DEF HeldInstances, Held
    <2>3. Held(slotVal', operand) \subseteq Held(slotVal, operand)
        BY <1>1 DEF Held, IInv, TypeOK
    <2>4. slotVal[t] \in Held(slotVal, operand)
        BY DEF Held
    <2>. QED  BY <2>1, <2>2, <2>3, <2>4 DEF HeldInstances
<1> HIDE DEF dead
<1>3. \A o \in Instances : attr'[o] = attr[o] \/ attr'[o] = Nil
    BY <1>1, <1>2, ReleaseInv
<1>4. TypeOK'
    <2>1. todo' \subseteq Slots \X {0, 1} /\ attr' \in [Instances -> Slots \cup {Nil}]
        BY <1>1, <1>2, ReleaseInv
    <2>2. slotVal' \in [Slots -> Arrays \cup Instances \cup {Nil}]
        BY <1>1 DEF IInv, TypeOK
    <2>3. pure' \in BOOLEAN
        BY <1>1
    <2>. QED  BY <1>1, <2>1, <2>2, <2>3 DEF IInv, TypeOK, frameVars
<1>5. FreeListSound' /\ TableSound'
    BY <1>1, <1>3, MemObjAssumption DEF IInv, FreeListSound, TableSound
<1>6. AttrSound'
    BY <1>1, <1>2, ReleaseAttrInv
<1>7. NodesPaired' /\ NodesBacked' /\ FramesSound' /\ SymbolsBacked'
    BY <1>1 DEF IInv, NodesPaired, NodesBacked, FramesSound, SymbolsBacked, frameVars
<1>. QED  BY <1>4, <1>5, <1>6, <1>7 DEF IInv

\* Creating an instance: its attribute gets a slot of its own, and the value
\* it replaces may lose its last reference.
LEMMA NewInstanceInv ==
    ASSUME IInv, NEW s \in Slots, NEW o \in Instances, NEW i \in Slots, NEW j \in Slots,
           NEW v \in Arrays \cup {Nil}, NewInstance(s, o, i, j, v)
    PROVE  IInv'
<1> DEFINE slots == [slotVal EXCEPT ![i] = v, ![j] = Nil]
           dead  == Overwritten(slots, s, o)
<1>1. /\ o \notin HeldInstances /\ attr[o] = Nil
      /\ CanReserve(aFreeObj, aMemObj, i)
      /\ CanReserve(Taken(aFreeObj, i), aMemObj \cup {i}, j)
      /\ aFreeObj' = Taken(Taken(aFreeObj, i), j)
      /\ aMemObj' = aMemObj \cup {i, j}
      /\ RefObjInstall(i, {}, {}, TRUE)
      /\ StoreVal(slots, s, o)
      /\ attr' = [Kept(dead) EXCEPT ![o] = i]
      /\ UNCHANGED <<frameVars, arrayVars, static, operand, leaving>>
    BY DEF NewInstance, ReserveTwo
<1>2. /\ i \notin installed /\ static # i
      /\ \A p \in Instances : attr[p] # i
      /\ \A n \in Nodes : nodeSlot[n] # i
      /\ Taken(aFreeObj, i) \in [Slots -> Nat] /\ Taken(aFreeObj, i)[i] = 0
      /\ \A k \in Slots \ {i} : Taken(aFreeObj, i)[k] = aFreeObj[k]
    BY <1>1, Reservable DEF CanReserve
<1>3. i # j /\ (aFreeObj[j] > 0 \/ j \notin aMemObj)
    BY <1>1, <1>2 DEF CanReserve, IInv, TypeOK
<1>4. /\ aFreeObj' \in [Slots -> Nat] /\ aFreeObj'[i] = 0 /\ aFreeObj'[j] = 0
      /\ \A k \in Slots \ {i, j} : aFreeObj'[k] = aFreeObj[k]
    <2>1. aFreeObj[j] <= 1 /\ aFreeObj[j] \in Nat /\ Taken(aFreeObj, i)[j] = aFreeObj[j]
        BY <1>2, <1>3 DEF IInv, TypeOK, FreeListSound
    <2>. QED  BY <1>1, <1>2, <1>3, <2>1 DEF Taken
<1>5. /\ installed' = installed \cup {i} /\ keep' = keep \cup {i}
      /\ aReference' = aReference /\ aArrEntries' = aArrEntries
    BY <1>1, <1>2 DEF RefObjInstall, IInv, TypeOK
<1>6. slots \in [Slots -> Arrays \cup Instances \cup {Nil}]
    BY DEF IInv, TypeOK
<1>7. \A k \in Slots : slots[k] \in Instances => slots[k] = slotVal[k]
    BY MemObjAssumption DEF IInv, TypeOK
<1>8. o \notin Held(slotVal, operand)
    BY <1>1 DEF HeldInstances
<1>9. /\ slotVal' = [slots EXCEPT ![s] = o]
      /\ todo' = Unsets(dead)
      /\ pure' \in BOOLEAN
    BY <1>1 DEF StoreVal
<1>10. /\ Nil \notin dead /\ dead \cap Instances \subseteq HeldInstances /\ o \notin dead
       /\ dead \subseteq Instances
       /\ HeldInstances' \subseteq (HeldInstances \ dead) \cup {o}
    <2>1. /\ dead \subseteq {slots[s]} /\ dead \subseteq Instances /\ Nil \notin dead
          /\ dead \cap Held(slotVal', operand) = {}
        BY <1>9, LostUnheld DEF Overwritten
    <2>2. HeldInstances' = Instances \cap Held(slotVal', operand)
        BY <1>1 DEF HeldInstances, Held
    <2>3. \A k \in Slots : slots[k] \in Instances => slots[k] \in HeldInstances
        BY <1>7 DEF HeldInstances, Held
    <2>4. Instances \cap Held(slotVal', operand) \subseteq HeldInstances \cup {o}
        <3>1. \A k \in Slots : slotVal'[k] = o \/ slotVal'[k] = slots[k]
            BY <1>6, <1>9
        <3> SUFFICES ASSUME NEW p \in Instances \cap Held(slotVal', operand), p # o
                     PROVE  p \in HeldInstances
            OBVIOUS
        <3>2. CASE \E k \in Slots : p = slotVal'[k]
            BY <2>3, <3>1, <3>2
        <3>3. CASE ~ \E k \in Slots : p = slotVal'[k]
            BY <3>3 DEF HeldInstances, Held
        <3>. QED  BY <3>2, <3>3
    <2>. QED  BY <1>1, <2>1, <2>2, <2>3, <2>4
<1>11. \A p \in Instances : attr'[p] = IF p = o THEN i ELSE IF p \in dead THEN Nil ELSE attr[p]
    BY <1>1 DEF Kept
<1>18. static' = static /\ aMemObj' = aMemObj \cup {i, j}
    BY <1>1
<1> HIDE DEF slots, dead
<1>12. TypeOK'
    <2>1. slotVal' \in [Slots -> Arrays \cup Instances \cup {Nil}]
        BY <1>6, <1>9
    <2>2. todo' \subseteq Slots \X {0, 1}
        BY <1>9, <1>10, ReleaseInv
    <2>3. attr' \in [Instances -> Slots \cup {Nil}]
        BY <1>1, <1>10, ReleaseInv
    <2>4. pure' \in BOOLEAN
        BY <1>9
    <2>5. aMemObj' \subseteq Slots /\ installed' \subseteq Slots /\ keep' \subseteq Slots
        BY <1>1, <1>5 DEF IInv, TypeOK
    <2>. QED  BY <1>1, <1>4, <1>5, <2>1, <2>2, <2>3, <2>4, <2>5
                 DEF IInv, TypeOK, frameVars
<1>13. FreeListSound'
    <2> SUFFICES ASSUME NEW k \in Slots, k # i, k # j
                 PROVE  /\ aFreeObj'[k] <= 1
                        /\ aFreeObj'[k] = 1 =>
                              /\ k \in aMemObj' /\ k \notin installed' /\ k # static'
                              /\ \A p \in Instances : attr'[p] # k
        BY <1>4 DEF FreeListSound
    <2>1. \A p \in Instances : attr'[p] = k => attr[p] = k
        BY <1>11, MemObjAssumption
    <2>. QED  BY <1>4, <1>5, <1>18, <2>1 DEF IInv, FreeListSound
<1>14. TableSound'
    BY <1>1, <1>2, <1>5 DEF IInv, TypeOK, TableSound
<1>15. AttrSound'
    <2>1. \A p \in Instances : attr'[p] # Nil =>
             attr'[p] \in aMemObj' /\ attr'[p] # static' /\ (attr'[p] \in installed' => attr'[p] \in keep')
        BY <1>2, <1>5, <1>11, <1>18 DEF IInv, AttrSound
    <2>2. \A p, q \in Instances : attr'[p] # Nil /\ attr'[p] = attr'[q] => p = q
        BY <1>2, <1>11 DEF IInv, AttrSound
    <2>3. \A p \in HeldInstances' : attr'[p] # Nil
        <3>1. \A p \in HeldInstances' : p \in Instances
            BY DEF HeldInstances
        <3>. QED  BY <1>10, <1>11, <3>1, MemObjAssumption DEF IInv, AttrSound
    <2>4. \A k \in Slots : <<k, 1>> \in todo' => \A p \in Instances : attr'[p] # k
        <3> SUFFICES ASSUME NEW k \in Slots, <<k, 1>> \in todo', NEW p \in Instances, attr'[p] = k
                     PROVE  FALSE
            OBVIOUS
        <3>1. PICK q \in dead \cap Instances : attr[q] = k
            BY <1>9, <1>10, ReleaseInv
        <3>2. p # o
            BY <1>2, <1>10, <1>11, <3>1
        <3>. QED  BY <1>10, <1>11, <3>1, <3>2, MemObjAssumption DEF IInv, AttrSound
    <2>. QED  BY <2>1, <2>2, <2>3, <2>4 DEF AttrSound
<1>16. NodesPaired' /\ NodesBacked'
    <2>1. aArrEntries[i] = {}
        BY <1>2 DEF IInv, TableSound
    <2>. QED  BY <1>1, <1>5, <2>1 DEF IInv, NodesPaired, NodesBacked
<1>17. FramesSound' /\ SymbolsBacked'
    BY <1>1, <1>5 DEF IInv, FramesSound, SymbolsBacked, frameVars
<1>. QED  BY <1>12, <1>13, <1>14, <1>15, <1>16, <1>17 DEF IInv

(***************************************************************************)
(* The inductive step, and what follows from it.                           *)
(***************************************************************************)
\* Every step of the machine preserves the invariant.
LEMMA NextInv == IInv /\ [Next]_vars => IInv'
<1> SUFFICES ASSUME IInv, [Next]_vars PROVE IInv'
    OBVIOUS
<1>1. CASE UNCHANGED vars
    <2>1. UNCHANGED <<poolVars, slotVal, refVars, frameVars, arrayVars, attr, static,
                      operand, unsetVars>>
        BY <1>1 DEF vars
    <2>2. TypeOK'
        BY <2>1 DEF IInv, TypeOK, frameVars
    <2>3. AttrSound'
        BY <2>1, SameHeld DEF IInv, AttrSound
    <2>4. FreeListSound' /\ TableSound' /\ NodesPaired' /\ NodesBacked'
        BY <2>1 DEF IInv, FreeListSound, TableSound, NodesPaired, NodesBacked
    <2>5. FramesSound' /\ SymbolsBacked'
        BY <2>1 DEF IInv, FramesSound, SymbolsBacked, frameVars
    <2>. QED  BY <2>2, <2>3, <2>4, <2>5 DEF IInv
<1>2. ASSUME NEW d \in {0, 1}, NEW n \in Names, NEW i \in Slots, ConfigCreate(d, n, i)
      PROVE  IInv'
    BY <1>2, ConfigCreateInv
<1>3. ASSUME NEW n \in Names, NEW i \in Slots, NEW v \in Arrays \cup {Nil}, Declare(n, i, v)
      PROVE  IInv'
    BY <1>3, DeclareInv
<1>4. ASSUME NEW n \in Names, NEW i \in Slots, NEW v \in Arrays \cup Instances \cup {Nil},
             CallByValue(n, i, v)
      PROVE  IInv'
    BY <1>4, CallByValueInv
<1>5. ASSUME NEW n \in Names, NEW typed \in BOOLEAN, CallByRef(n, typed) PROVE IInv'
    BY <1>5, CallByRefInv
<1>6. ASSUME NEW n \in Names, CallStatic(n) PROVE IInv'
    BY <1>6, CallStaticInv
<1>7. ASSUME NEW k \in BlockKinds, EnterBlock(k) PROVE IInv'
    BY <1>7, EnterBlockInv
<1>8. ASSUME NEW n \in Names, NEW i \in Slots, NEW v \in Instances \cup {Nil}, EnterCatch(n, i, v)
      PROVE  IInv'
    BY <1>8, EnterCatchInv
<1>9. ASSUME NEW t \in todo, UnsetMemObj(t[1], t[2]) PROVE IInv'
    <2>1. t[1] \in Slots /\ t[2] \in {0, 1}
        BY DEF IInv, TypeOK
    <2>. QED  BY <1>9, <2>1, UnsetMemObjInv
<1>10. ASSUME NEW i \in Slots, Load(i) \/ Unset(i) PROVE IInv'
    BY <1>10, LoadInv, UnsetInv
<1>11. ASSUME NEW a \in Arrays, NEW n \in Nodes, NEW i \in Slots, NEW v \in Instances \cup {Nil},
              ArrayInsert(a, n, i, v)
       PROVE  IInv'
    BY <1>11, ArrayInsertInv
<1>12. ASSUME NEW n \in Nodes, ArrayRemove(n) PROVE IInv'
    BY <1>12, ArrayRemoveInv
<1>13. ASSUME NEW s \in Slots, NEW o \in Instances, NEW i \in Slots, NEW j \in Slots,
              NEW v \in Arrays \cup {Nil}, NewInstance(s, o, i, j, v)
       PROVE  IInv'
    BY <1>13, NewInstanceInv
<1>14. ASSUME NEW s \in Slots, NEW t \in Slots, Assign(s, t) PROVE IInv'
    BY <1>14, AssignInv
<1>15. ASSUME NEW t \in Slots, NEW a \in Arrays, AssignArray(t, a) PROVE IInv'
    BY <1>15, AssignArrayInv
<1>. QED  BY <1>1, <1>2, <1>3, <1>4, <1>5, <1>6, <1>7, <1>8, <1>9, <1>10, <1>11, <1>12,
             <1>13, <1>14, <1>15, CallInv, PopInv, LeaveFrameInv, FinishLeaveInv DEF Next

\* IInv holds in every reachable state.
THEOREM Invariance == Spec => []IInv
<1>1. Init => IInv
    BY InitInv
<1>2. IInv /\ [Next]_vars => IInv'
    BY NextInv
<1>. QED  BY <1>1, <1>2, PTL DEF Spec

\* Every variable of the model keeps its type.
THEOREM TypeCorrect == Spec => []TypeOK
<1>1. IInv => TypeOK
    BY DEF IInv
<1>. QED  BY <1>1, Invariance, PTL

\* PH7_VmUnsetMemObj and PH7_VmDestroyMemObj never push an index on aFreeObj
\* twice, nor one that is still installed, an attribute or the static variable.
THEOREM FreeListIsSound == Spec => []FreeListSound
<1>1. IInv => FreeListSound
    BY DEF IInv
<1>. QED  BY <1>1, Invariance, PTL

\* An array node and the slot it names always know of each other, so that
\* VmRefObjUnlink never reaches a released node.
THEOREM NodesAreBacked == Spec => []NodesBacked
<1>1. IInv => NodesBacked
    BY DEF IInv
<1>. QED  BY <1>1, Invariance, PTL

\* A variable the current frame created is on record in the reference table,
\* so that whoever destroys its slot deletes the variable, too.
THEOREM SymbolsAreBacked == Spec => []SymbolsBacked
<1>1. IInv => SymbolsBacked
    BY DEF IInv
<1>. QED  BY <1>1, Invariance, PTL

(***************************************************************************)
(* What a script that unsets nothing and stores over no instance can rely  *)
(* on, whatever frames it enters and leaves: PureBindingsLive and          *)
(* PureLeaveKeepsOuter.                                                    *)
(*                                                                         *)
(* The slots the frames above depth d may still destroy are a set T that   *)
(* is closed: what only slots of T hold has its elements and its attribute *)
(* in T.  No name, operand or local at depth d or below reaches T.         *)
(***************************************************************************)


\* The slots that the frames up to depth d name: by a variable, by a
\* parameter handed on by reference, by an operand or as a local.
IsRoot(i, d) ==
    \/ i = static
    \/ \E e \in Entry : hVar[e] = i /\ (e[1] <= d \/ (e \in loose /\ e[1] <= d + 1))
    \/ \E e \in Depths : e <= d /\ operand[e] # Nil /\ operand[e].slot = i
    \/ \E e \in Depths : e <= d /\ i \in sLocal[e]

Live(i) == i \in aMemObj /\ aFreeObj[i] = 0

RootsLive == \A i \in Slots : IsRoot(i, pFrame) => Live(i)

\* A slot PH7_ReserveMemObj may return refers to nothing.
FreeBlank == \A i \in Slots : ~ Live(i) => slotVal[i] = Nil

\* The container an operand refers to is still in the slot it was loaded from,
\* so popping the operand releases nothing.
OperandsHeld ==
    \A d \in Depths : operand[d] # Nil /\ operand[d].val # Nil =>
        slotVal[operand[d].slot] = operand[d].val \/ operand[d].val \in leaked

Containers == Arrays \cup Instances

\* Slot i is the attribute, or an element, of the container c.
PartOf(i, c) ==
    \/ c \in Instances /\ attr[c] = i
    \/ \E n \in Nodes : nodeArr[n] = c /\ nodeSlot[n] = i

\* Some slot refers to every container that still has parts.
PartsHeld ==
    \A c \in Containers, i \in Slots :
        PartOf(i, c) => c \in leaked \/ \E k \in Slots : slotVal[k] = c

\* Destroying all of T destroys no slot outside of it.
Closed(T) ==
    \A c \in Containers \ leaked :
        (\A i \in Slots : slotVal[i] = c => i \in T) =>
            \A i \in Slots : PartOf(i, c) => i \in T

\* Whatever the frames above depth d destroy when they are left is in T, and
\* nothing the frames up to d name is.
Confines(T, d) ==
    /\ \A e \in Depths : e > d => sLocal[e] \subseteq T
    /\ \A t \in todo : t[1] \in T
    /\ Closed(T)
    /\ \A i \in T : ~ IsRoot(i, d)

Confined == \A d \in 1 .. pFrame : \E T \in SUBSET Slots : Confines(T, d)

\* Above the active frames there is only the frame being left.
Above ==
    /\ \A d \in Depths : d > pFrame => operand[d] = Nil
    /\ \A d \in Depths : d > pFrame /\ d # leaving => sLocal[d] = {}
    /\ \A e \in loose : hVar[e] # Nil
    /\ leaving = 0 => todo = {}

\* The reference table has at most one entry or one node on record for a slot
\* that is going to be destroyed with its frame or its container.
References ==
    /\ \A d \in Depths : \A i \in sLocal[d] :
          aArrEntries[i] = {} /\ \A e \in aReference[i] : e[1] = d
    /\ \A t \in todo :
          aArrEntries[t[1]] = {} /\ \A e \in aReference[t[1]] : e[1] = leaving
    /\ \A o \in Instances : attr[o] # Nil => aArrEntries[attr[o]] = {} /\ aReference[attr[o]] = {}
    /\ \A n \in Nodes : nodeSlot[n] # Nil => aReference[nodeSlot[n]] = {}
    /\ \A m, n \in Nodes : nodeSlot[m] # Nil /\ nodeSlot[m] = nodeSlot[n] => m = n

Sheltered ==
    /\ RootsLive /\ FreeBlank
    /\ OperandsHeld /\ PartsHeld
    /\ Confined
    /\ Above /\ References

(***************************************************************************)
(* Lemmas about the parts of the invariant.                                *)
(***************************************************************************)
\* What the frames up to a depth name, those up to a greater depth name, too.
LEMMA RootUp ==
    ASSUME NEW i, NEW d \in Int, NEW c \in Int, d <= c, IsRoot(i, d)
    PROVE  IsRoot(i, c)
<1>1. \A e \in Depths : e \in Int
    BY DEF Depths
<1>2. \A e \in Entry : e[1] \in Int
    BY DEF Entry, Depths
<1>. QED  BY <1>1, <1>2 DEF IsRoot

\* A slot that is not live is nobody's.
LEMMA FreshSlot ==
    ASSUME IInv, Sheltered, leaving = 0, NEW i \in Slots, ~ Live(i)
    PROVE  /\ slotVal[i] = Nil
           /\ \A d \in Int : d <= pFrame => ~ IsRoot(i, d)
           /\ \A d \in Depths : i \notin sLocal[d]
           /\ \A d \in Depths : operand[d] # Nil => operand[d].slot # i
           /\ \A c : ~ PartOf(i, c)
           /\ i \notin installed /\ aReference[i] = {} /\ aArrEntries[i] = {}
<1>1. slotVal[i] = Nil
    BY DEF Sheltered, FreeBlank
<1>2. pFrame \in Int /\ pFrame >= 1 /\ \A d \in Depths : d \in Int
    BY DEF IInv, TypeOK, Depths
<1>3. ~ IsRoot(i, pFrame)
    BY DEF Sheltered, RootsLive
<1>4. \A d \in Int : d <= pFrame => ~ IsRoot(i, d)
    BY <1>2, <1>3, RootUp
<1>5. \A d \in Depths : i \notin sLocal[d]
    BY <1>2, <1>3 DEF IsRoot, Sheltered, Above
<1>6. \A d \in Depths : operand[d] # Nil => operand[d].slot # i
    BY <1>2, <1>3 DEF IsRoot, Sheltered, Above
<1>7. aFreeObj[i] > 0 \/ i \notin aMemObj
    BY DEF Live, IInv, TypeOK
<1>8. i \notin installed /\ (\A o \in Instances : attr[o] # i) /\ \A n \in Nodes : nodeSlot[n] # i
    BY <1>7, Reservable
<1>9. \A c : ~ PartOf(i, c)
    BY <1>8 DEF PartOf
<1>. QED  BY <1>1, <1>4, <1>5, <1>6, <1>8, <1>9 DEF IInv, TableSound

\* Slots in use stay in use, and a part of a container is in use.
LEMMA PartLive ==
    ASSUME IInv, NEW i \in Slots, NEW c, PartOf(i, c)
    PROVE  Live(i) /\ i # static
<1>1. CASE c \in Instances /\ attr[c] = i
    BY SMTT(40), <1>1, MemObjAssumption DEF IInv, AttrSound, FreeListSound, TypeOK, Live
<1>2. CASE \E n \in Nodes : nodeArr[n] = c /\ nodeSlot[n] = i
    BY <1>2, MemObjAssumption DEF IInv, NodesBacked, TableSound, FreeListSound, TypeOK, Live
<1>. QED  BY <1>1, <1>2 DEF PartOf

\* An operation carries a closed set over: the holders outside of it stay, and
\* the parts it adds are in the set.
LEMMA ClosedStep ==
    ASSUME NEW T, NEW U, Closed(T), leaked \subseteq leaked',
           \A c \in Containers \ leaked', k \in Slots :
              slotVal[k] = c /\ k \notin T => slotVal'[k] = c /\ k \notin U,
           \A c \in Containers \ leaked', i \in Slots :
              PartOf(i, c)' => i \in U \/ (PartOf(i, c) /\ (i \in T => i \in U))
    PROVE  Closed(U)'
<1> SUFFICES ASSUME NEW c \in Containers \ leaked',
                    \A k \in Slots : slotVal'[k] = c => k \in U,
                    NEW i \in Slots, PartOf(i, c)'
             PROVE  i \in U
    BY DEF Closed, Containers
<1>1. \A k \in Slots : slotVal[k] = c => k \in T
    OBVIOUS
<1>2. PartOf(i, c) => i \in T
    BY <1>1 DEF Closed
<1>. QED  BY <1>2

\* As long as no frame is being left, the empty set confines what is above the
\* top frame; the sets for the frames below have to be carried over.
LEMMA ConfinedStep ==
    ASSUME IInv', PartsHeld', Above', leaving' = 0,
           \A d \in 1 .. pFrame' : d < pFrame' => \E U \in SUBSET Slots : Confines(U, d)'
    PROVE  Confined'
<1>1. ASSUME NEW d \in Int, d = pFrame' PROVE Confines({}, d)'
    <2>1. \A e \in Depths : e > d => sLocal'[e] \subseteq {}
        <3>1. \A e \in Depths : e \in Int /\ e >= 0
            BY DEF Depths
        <3>2. d >= 1
            BY <1>1 DEF IInv, TypeOK
        <3>. QED  BY <1>1, <3>1, <3>2 DEF Above
    <2>2. todo' = {}
        BY DEF Above
    <2>3. Closed({})'
        BY DEF Closed, PartsHeld
    <2>. QED  BY <2>1, <2>2, <2>3 DEF Confines
<1>2. \A d \in 1 .. pFrame' : d \in Int /\ (d < pFrame' \/ d = pFrame')
    BY DEF IInv, TypeOK
<1>3. {} \in SUBSET Slots
    OBVIOUS
<1>. QED  BY <1>1, <1>2, <1>3 DEF Confined

\* As long as no frame is being left, no frame above the top one names anything.
LEMMA RootsTop ==
    ASSUME IInv, Above, leaving = 0, NEW i \in Slots, NEW d \in Int, IsRoot(i, d)
    PROVE  IsRoot(i, pFrame)
<1>1. /\ \A e \in Depths : e \in Int /\ e >= 0
      /\ \A e \in Entry : e[1] \in Int /\ e[1] >= 0
      /\ pFrame \in Int /\ pFrame >= 1
    BY DEF Depths, Entry, IInv, TypeOK
<1>2. i # Nil
    BY MemObjAssumption
<1>3. \A e \in Entry : hVar[e] = i => e[1] <= pFrame
    BY <1>1, <1>2 DEF IInv, FramesSound
<1>4. \A e \in Depths : operand[e] # Nil => e <= pFrame
    BY <1>1 DEF Above
<1>5. \A e \in Depths : i \in sLocal[e] => e <= pFrame
    BY <1>1 DEF Above
<1>. QED  BY <1>3, <1>4, <1>5 DEF IsRoot

(***************************************************************************)
(* Entering frames.                                                        *)
(***************************************************************************)
\* Entering a frame without variables changes nothing but the top.
LEMMA EnterSheltered ==
    ASSUME IInv, IInv', Sheltered, leaving = 0, pFrame' = pFrame + 1,
           UNCHANGED <<poolVars, slotVal, refVars, hVar, loose, sLocal, sRef, arrayVars,
                       attr, static, operand, unsetVars>>
    PROVE  Sheltered'
<1>0. pFrame \in Int /\ pFrame >= 1 /\ \A e \in Depths : e \in Int
    BY DEF IInv, TypeOK, Depths
<1>1. \A i \in Slots, d \in Int : IsRoot(i, d)' => IsRoot(i, d)
    BY DEF IsRoot
<1>2. RootsLive'
    <2> SUFFICES ASSUME NEW i \in Slots, NEW d \in Int, d = pFrame + 1, IsRoot(i, d)
                 PROVE  Live(i)
        BY <1>0, <1>1 DEF RootsLive, Live, IsRoot
    <2>1. IsRoot(i, pFrame)
        BY RootsTop DEF Sheltered
    <2>. QED  BY <2>1 DEF Sheltered, RootsLive
<1>3. FreeBlank' /\ OperandsHeld' /\ PartsHeld'
    BY DEF Sheltered, FreeBlank, OperandsHeld, PartsHeld, Live, PartOf, Containers
<1>4. Above'
    BY <1>0 DEF Sheltered, Above
<1>5. References'
    BY DEF Sheltered, References
<1>6. Confined'
    <2>1. ASSUME NEW d \in 1 .. pFrame', d < pFrame'
          PROVE  \E U \in SUBSET Slots : Confines(U, d)'
        <3>1. d \in 1 .. pFrame
            BY <1>0, <2>1
        <3>2. PICK T \in SUBSET Slots : Confines(T, d)
            BY <3>1 DEF Sheltered, Confined
        <3>3. Confines(T, d)'
            BY <3>2 DEF Confines, Closed, PartOf, IsRoot
        <3>. QED  BY <3>3
    <2>. QED  BY <1>3, <1>4, <2>1, ConfinedStep
<1>. QED  BY <1>2, <1>3, <1>4, <1>5, <1>6 DEF Sheltered

\* VmCreateMemObj in the frame that is, or becomes, the top one.
LEMMA CreateSheltered ==
    ASSUME IInv, IInv', Sheltered, leaving = 0,
           NEW t \in Depths \ {0}, NEW b \in 1 .. t, NEW n \in Names, NEW i \in Slots,
           NEW v, CreateMemObj(t, b, n, i, v),
           pFrame' = t, pFrame <= t, t <= pFrame + 1,
           UNCHANGED <<loose, arrayVars, attr, static, operand, unsetVars>>
    PROVE  Sheltered'
<1>0. /\ pFrame \in Int /\ pFrame >= 1 /\ t \in Int
      /\ \A e \in Depths : e \in Int
      /\ \A e \in Entry : e[1] \in Int
      /\ <<t, n>> \in Entry
    BY DEF IInv, TypeOK, Depths, Entry
<1>1. /\ hVar[<<t, n>>] = Nil
      /\ aMemObj' = aMemObj \cup {i}
      /\ slotVal' = [slotVal EXCEPT ![i] = v]
      /\ hVar' = [hVar EXCEPT ![<<t, n>>] = i]
      /\ sLocal' = [sLocal EXCEPT ![t] = @ \cup {i}]
      /\ aReference' = [aReference EXCEPT ![i] = @ \cup {<<t, n>>}]
      /\ aArrEntries' = [aArrEntries EXCEPT ![i] = @ \cup {}]
    BY DEF CreateMemObj, Reserve, RefObjInstall
<1>2. aFreeObj[i] > 0 \/ i \notin aMemObj
    BY DEF CreateMemObj, Reserve, CanReserve
<1>3. ~ Live(i)
    BY <1>2 DEF Live, IInv, TypeOK
<1>4. aFreeObj'[i] = 0 /\ \A k \in Slots \ {i} : aFreeObj'[k] = aFreeObj[k]
    BY <1>2, Reservable DEF CreateMemObj, Reserve
<1>5. /\ Live(i)'
      /\ \A k \in Slots : k # i => (Live(k)' <=> Live(k))
    BY <1>1, <1>4 DEF Live
<1>6. /\ slotVal[i] = Nil
      /\ \A d \in Int : d <= pFrame => ~ IsRoot(i, d)
      /\ \A d \in Depths : i \notin sLocal[d]
      /\ \A d \in Depths : operand[d] # Nil => operand[d].slot # i
      /\ \A c : ~ PartOf(i, c)
      /\ aReference[i] = {} /\ aArrEntries[i] = {}
    BY <1>3, FreshSlot
<1>7. \A k \in Slots : k # i => slotVal'[k] = slotVal[k]
    BY <1>1 DEF IInv, TypeOK
<1>8. \A e \in Entry : hVar'[e] = IF e = <<t, n>> THEN i ELSE hVar[e]
    BY <1>0, <1>1 DEF IInv, TypeOK
<1>9. /\ \A e \in Depths : e # t => sLocal'[e] = sLocal[e]
      /\ sLocal'[t] = sLocal[t] \cup {i}
    <2>1. sLocal \in [Depths -> SUBSET Slots] /\ t \in Depths
        BY DEF IInv, TypeOK
    <2>. QED  BY ONLY <1>1, <2>1
<1>10. /\ \A k \in Slots : k # i => aReference'[k] = aReference[k]
       /\ aReference'[i] = {<<t, n>>}
    BY <1>1, <1>6 DEF IInv, TypeOK
<1>11. aArrEntries' = aArrEntries
    BY <1>1 DEF IInv, TypeOK
<1>12. <<t, n>> \notin loose
    BY <1>0, <1>1 DEF Sheltered, Above
<1>13. \A k \in Slots, d \in Int : IsRoot(k, d)' => k = i \/ IsRoot(k, d)
    <2> SUFFICES ASSUME NEW k \in Slots, NEW d \in Int, IsRoot(k, d)', k # i PROVE IsRoot(k, d)
        OBVIOUS
    <2>1. static' = static /\ operand' = operand /\ loose' = loose
        OBVIOUS
    <2>2. \A e \in Entry : hVar'[e] = k => hVar[e] = k
        BY <1>8
    <2>3. \A e \in Depths : k \in sLocal'[e] => k \in sLocal[e]
        BY <1>9
    <2>. QED  BY <2>1, <2>2, <2>3 DEF IsRoot
<1>14. \A d \in Int : d < t => ~ IsRoot(i, d)'
    <2> SUFFICES ASSUME NEW d \in Int, d < t, IsRoot(i, d)' PROVE IsRoot(i, d)
        BY <1>0, <1>6
    <2>1. static' = static /\ operand' = operand /\ loose' = loose
        OBVIOUS
    <2>2. \A e \in Entry : e[1] <= d \/ (e \in loose /\ e[1] <= d + 1) => hVar'[e] = hVar[e]
        BY <1>0, <1>8, <1>12
    <2>3. \A e \in Depths : e <= d => sLocal'[e] = sLocal[e]
        BY <1>0, <1>9
    <2>. QED  BY <2>1, <2>2, <2>3 DEF IsRoot
<1>15. RootsLive'
    <2> SUFFICES ASSUME NEW k \in Slots, NEW d \in Int, d = pFrame', IsRoot(k, d)'
                 PROVE  Live(k)'
        BY <1>0 DEF RootsLive
    <2>1. CASE k = i
        BY <1>5, <2>1
    <2>2. CASE k # i
        <3>1. IsRoot(k, pFrame)
            BY <1>13, <2>2, RootsTop DEF Sheltered
        <3>. QED  BY <1>5, <2>2, <3>1 DEF Sheltered, RootsLive
    <2>. QED  BY <2>1, <2>2
<1>16. FreeBlank'
    BY <1>5, <1>7 DEF Sheltered, FreeBlank
<1>17. OperandsHeld'
    <2>1. \A d \in Depths : operand[d] # Nil => operand[d].slot \in Slots
        BY DEF IInv, TypeOK, Loaded
    <2>. QED  BY <1>6, <1>7, <2>1 DEF Sheltered, OperandsHeld
<1>18. PartsHeld'
    <2>1. \A k \in Slots : \A c : PartOf(k, c)' <=> PartOf(k, c)
        BY DEF PartOf
    <2>2. \A c \in Containers : c # Nil
        BY MemObjAssumption DEF Containers
    <2>. QED  BY <1>6, <1>7, <2>1, <2>2 DEF Sheltered, PartsHeld
<1>19. Above'
    <2>1. \A e \in Depths : e > pFrame' => operand'[e] = Nil
        BY <1>0 DEF Sheltered, Above
    <2>2. \A e \in Depths : e > pFrame' /\ e # leaving' => sLocal'[e] = {}
        BY <1>0, <1>9 DEF Sheltered, Above
    <2>3. \A e \in loose' : hVar'[e] # Nil
        BY <1>8, MemObjAssumption DEF Sheltered, Above, IInv, TypeOK
    <2>. QED  BY <2>1, <2>2, <2>3 DEF Sheltered, Above
<1>20. References'
    <2>1. ASSUME NEW d \in Depths, NEW k \in sLocal'[d]
          PROVE  aArrEntries'[k] = {} /\ \A e \in aReference'[k] : e[1] = d
        <3>1. CASE k = i
            <4>1. i \in sLocal'[d] /\ i \notin sLocal[d]
                BY <1>6, <2>1, <3>1
            <4>3. d = t
                BY <1>9, <4>1
            <4>2. aReference'[k] = {<<t, n>>} /\ aArrEntries'[k] = {}
                BY <1>6, <1>10, <1>11, <3>1
            <4>. QED  BY <4>2, <4>3
        <3>2. CASE k # i
            BY <1>9, <1>10, <1>11, <2>1, <3>2 DEF IInv, TypeOK, Sheltered, References
        <3>. QED  BY <3>1, <3>2
    <2>2. todo' = {}
        BY DEF Sheltered, Above
    <2>3. \A o \in Instances : attr[o] # i
        BY <1>6 DEF PartOf
    <2>4. \A m \in Nodes : nodeSlot[m] # i
        BY <1>2, Reservable
    <2>. QED  BY <1>10, <1>11, <2>1, <2>2, <2>3, <2>4 DEF IInv, TypeOK, Sheltered, References
<1>21. Confined'
    <2>1. ASSUME NEW d \in 1 .. pFrame', d < pFrame'
          PROVE  \E U \in SUBSET Slots : Confines(U, d)'
        <3>1. d \in 1 .. pFrame /\ d \in Int /\ d < t
            BY <1>0, <2>1
        <3>2. PICK T \in SUBSET Slots : Confines(T, d)
            BY <3>1 DEF Sheltered, Confined
        <3> DEFINE U == T \cup {i}
        <3>3. \A e \in Depths : e > d => sLocal'[e] \subseteq U
            BY <1>9, <3>2 DEF Confines
        <3>4. todo' = {}
            BY DEF Sheltered, Above
        <3>5. Closed(U)'
            <4>1. \A k \in Slots : \A c : PartOf(k, c)' <=> PartOf(k, c)
                BY DEF PartOf
            <4>2. \A c \in Containers : c # Nil
                BY MemObjAssumption DEF Containers
            <4>3. \A c \in Containers \ leaked', k \in Slots :
                     slotVal[k] = c /\ k \notin T => slotVal'[k] = c /\ k \notin U
                BY <1>6, <1>7, <4>2
            <4>4. \A c \in Containers \ leaked', k \in Slots :
                     PartOf(k, c)' => k \in U \/ (PartOf(k, c) /\ (k \in T => k \in U))
                BY <4>1
            <4>5. Closed(T) /\ leaked \subseteq leaked'
                BY <3>2 DEF Confines
            <4> HIDE DEF U
            <4>. QED  BY <4>3, <4>4, <4>5, ClosedStep
        <3>6. \A k \in U : ~ IsRoot(k, d)'
            BY <1>13, <1>14, <3>1, <3>2 DEF Confines
        <3>7. U \in SUBSET Slots
            OBVIOUS
        <3> HIDE DEF U
        <3>8. Confines(U, d)'
            BY <3>3, <3>4, <3>5, <3>6 DEF Confines
        <3>. QED  BY <3>7, <3>8
    <2>. QED  BY <1>18, <1>19, <2>1, ConfinedStep
<1>. QED  BY <1>15, <1>16, <1>17, <1>18, <1>19, <1>20, <1>21 DEF Sheltered

\* A call without parameters.
LEMMA CallSheltered == ASSUME IInv, IInv', Sheltered, Call PROVE Sheltered'
<1>1. pFrame' = pFrame + 1
    BY DEF Call, EnterFrame
<1>. QED  BY <1>1, EnterSheltered DEF Call, Idle

\* Entering a block.
LEMMA EnterBlockSheltered ==
    ASSUME IInv, IInv', Sheltered, NEW k \in BlockKinds, EnterBlock(k) PROVE Sheltered'
<1>1. pFrame' = pFrame + 1 /\ leaving = 0
    BY DEF EnterBlock, EnterFrame, Statement, Idle
<1>. QED  BY <1>1, EnterSheltered DEF EnterBlock

\* Declaring a variable.
LEMMA DeclareSheltered ==
    ASSUME IInv, IInv', Sheltered, NEW n \in Names, NEW i \in Slots,
           NEW v \in Arrays \cup {Nil}, Declare(n, i, v)
    PROVE  Sheltered'
<1>1. PICK b \in 1 .. pFrame : CreateMemObj(pFrame, b, n, i, v)
    BY DEF Declare
<1>2. /\ leaving = 0 /\ pFrame \in Depths \ {0} /\ pFrame' = pFrame
      /\ pFrame <= pFrame /\ pFrame <= pFrame + 1
      /\ UNCHANGED <<loose, arrayVars, attr, static, operand, unsetVars>>
    BY TopFrame DEF Declare, Statement, Idle
<1>. QED  BY <1>1, <1>2, CreateSheltered

\* Entering a function, or a catch block, with a variable of its own.
LEMMA EnterWithSheltered ==
    ASSUME IInv, IInv', Sheltered, leaving = 0, NEW n \in Names, NEW i \in Slots, NEW v,
           NEW k \in Kinds, EnterFrame(k), CreateMemObj(pFrame + 1, pFrame + 1, n, i, v),
           UNCHANGED <<loose, arrayVars, attr, static, operand, unsetVars>>
    PROVE  Sheltered'
<1>1. /\ pFrame + 1 \in Depths \ {0} /\ pFrame + 1 \in 1 .. pFrame + 1 /\ pFrame' = pFrame + 1
      /\ pFrame <= pFrame + 1 /\ pFrame + 1 <= pFrame + 1
    BY EnterFrameType DEF IInv, TypeOK
<1>. QED  BY <1>1, CreateSheltered

\* A call whose parameter is declared in the new frame.
LEMMA CallByValueSheltered ==
    ASSUME IInv, IInv', Sheltered, NEW n \in Names, NEW i \in Slots,
           NEW v \in Arrays \cup Instances \cup {Nil}, CallByValue(n, i, v)
    PROVE  Sheltered'
BY EnterWithSheltered DEF CallByValue, Idle, Kinds

\* A catch block, whose exception variable is declared in its frame.
LEMMA EnterCatchSheltered ==
    ASSUME IInv, IInv', Sheltered, NEW n \in Names, NEW i \in Slots,
           NEW v \in Instances \cup {Nil}, EnterCatch(n, i, v)
    PROVE  Sheltered'
BY EnterWithSheltered DEF EnterCatch, Statement, Idle, Kinds, BlockKinds

\* The host's variables are at the bottom: there is no frame to confine yet.
LEMMA ConfigCreateSheltered ==
    ASSUME IInv, IInv', Sheltered, NEW d \in {0, 1}, NEW n \in Names, NEW i \in Slots,
           ConfigCreate(d, n, i)
    PROVE  Sheltered'
<1>0. /\ pFrame = 1 /\ pFrame' = 1 /\ leaving = 0 /\ leaving' = 0
      /\ <<d, n>> \in Entry /\ d <= 1
      /\ UNCHANGED <<loose, sLocal, arrayVars, attr, static, operand, unsetVars>>
    BY MemObjAssumption DEF ConfigCreate, Idle, Entry, Depths
<1>1. /\ hVar[<<d, n>>] = Nil
      /\ aMemObj' = aMemObj \cup {i}
      /\ slotVal' = [slotVal EXCEPT ![i] = Nil]
      /\ hVar' = [hVar EXCEPT ![<<d, n>>] = i]
      /\ aReference' = [aReference EXCEPT ![i] = @ \cup {<<d, n>>}]
      /\ aArrEntries' = [aArrEntries EXCEPT ![i] = @ \cup {}]
    BY DEF ConfigCreate, Reserve, RefObjInstall
<1>2. aFreeObj[i] > 0 \/ i \notin aMemObj
    BY DEF ConfigCreate, Reserve, CanReserve
<1>3. ~ Live(i)
    BY <1>2 DEF Live, IInv, TypeOK
<1>4. aFreeObj'[i] = 0 /\ \A k \in Slots \ {i} : aFreeObj'[k] = aFreeObj[k]
    BY <1>2, Reservable DEF ConfigCreate, Reserve
<1>5. /\ Live(i)'
      /\ \A k \in Slots : k # i => (Live(k)' <=> Live(k))
    BY <1>1, <1>4 DEF Live
<1>6. /\ slotVal[i] = Nil
      /\ \A e \in Depths : i \notin sLocal[e]
      /\ \A e \in Depths : operand[e] # Nil => operand[e].slot # i
      /\ \A c : ~ PartOf(i, c)
    BY <1>0, <1>3, FreshSlot
<1>7. slotVal' = slotVal
    BY <1>1, <1>6 DEF IInv, TypeOK
<1>8. \A e \in Entry : hVar'[e] = IF e = <<d, n>> THEN i ELSE hVar[e]
    BY <1>0, <1>1 DEF IInv, TypeOK
<1>9. /\ \A k \in Slots : k # i => aReference'[k] = aReference[k]
      /\ aArrEntries' = aArrEntries
    BY <1>1 DEF IInv, TypeOK
<1>10. RootsLive'
    <2> SUFFICES ASSUME NEW k \in Slots, k # i, IsRoot(k, 1)' PROVE Live(k)
        BY <1>0, <1>5 DEF RootsLive, IsRoot
    <2>1. \A e \in Entry : hVar'[e] = k => hVar[e] = k
        BY <1>8
    <2>2. IsRoot(k, 1)
        BY <1>0, <2>1 DEF IsRoot
    <2>. QED  BY <1>0, <2>2 DEF Sheltered, RootsLive
<1>11. FreeBlank'
    BY <1>5, <1>7 DEF Sheltered, FreeBlank
<1>12. OperandsHeld' /\ PartsHeld'
    BY <1>0, <1>7 DEF Sheltered, OperandsHeld, PartsHeld, PartOf, Containers
<1>13. Above'
    BY <1>0, <1>8, MemObjAssumption DEF Sheltered, Above, IInv, TypeOK
<1>14. References'
    <2>1. todo' = {}
        BY <1>0 DEF Sheltered, Above
    <2>2. \A o \in Instances : attr[o] # i
        BY <1>6 DEF PartOf
    <2>3. \A m \in Nodes : nodeSlot[m] # i
        BY <1>2, Reservable
    <2>. QED  BY <1>0, <1>6, <1>9, <2>1, <2>2, <2>3 DEF IInv, TypeOK, Sheltered, References
<1>15. Confined'
    <2>1. \A e \in 1 .. pFrame' : ~ e < pFrame'
        BY <1>0
    <2>. QED  BY <1>0, <1>12, <1>13, <2>1, ConfinedStep
<1>. QED  BY <1>10, <1>11, <1>12, <1>13, <1>14, <1>15 DEF Sheltered

(***************************************************************************)
(* Operands.                                                               *)
(***************************************************************************)
\* What a statement can load is in use.
LEMMA LvalueLive ==
    ASSUME IInv, Sheltered, NEW i \in Slots, i \in Lvalues
    PROVE  Live(i)
<1>0. pFrame \in Int /\ \A e \in Entry : e[1] \in Int
    BY DEF IInv, TypeOK, Entry, Depths
<1>1. ASSUME i \in VisibleVars PROVE Live(i)
    <2>1. PICK n \in Names : Resolves(n, i)
        BY <1>1 DEF VisibleVars
    <2>2. \E e \in Entry : e[1] <= pFrame /\ hVar[e] = i
        <3>1. CASE hVar[<<0, n>>] # Nil
            <4>1. <<0, n>> \in Entry
                BY MemObjAssumption DEF Entry, Depths
            <4>. QED  BY <2>1, <3>1, <4>1 DEF Resolves, IInv, TypeOK
        <3>2. CASE hVar[<<0, n>>] = Nil
            <4>1. PICK b \in 1 .. pFrame : \E d \in 1 .. b : hVar[<<d, n>>] = i
                BY <2>1, <3>2 DEF Resolves
            <4>2. PICK d \in 1 .. b : hVar[<<d, n>>] = i
                BY <4>1
            <4>3. <<d, n>> \in Entry /\ d <= pFrame
                BY MemObjAssumption DEF Entry, Depths, IInv, TypeOK
            <4>. QED  BY <4>2, <4>3
        <3>. QED  BY <3>1, <3>2
    <2>. QED  BY <2>2 DEF IsRoot, Sheltered, RootsLive
<1>2. ASSUME i \in LiveAttrs PROVE Live(i)
    <2>1. PICK o \in Instances : attr[o] = i
        BY <1>2 DEF LiveAttrs
    <2>. QED  BY <2>1, PartLive DEF PartOf
<1>3. ASSUME i \in ElementsOf(Reachable) PROVE Live(i)
    <2>1. PICK n \in Nodes : nodeSlot[n] = i
        BY <1>3 DEF ElementsOf
    <2>. QED  BY <2>1, PartLive DEF PartOf
<1>. QED  BY <1>1, <1>2, <1>3 DEF Lvalues, Reachable

\* Loading an lvalue makes its slot a root of the top frame.
LEMMA LoadSheltered ==
    ASSUME IInv, IInv', Sheltered, NEW i \in Slots, Load(i) PROVE Sheltered'
<1>0. /\ leaving = 0 /\ leaving' = 0 /\ pFrame' = pFrame /\ pFrame \in Depths \ {0}
      /\ pFrame \in Int /\ pFrame >= 1 /\ \A e \in Depths : e \in Int
      /\ UNCHANGED <<poolVars, slotVal, refVars, hVar, loose, sLocal, arrayVars, attr, static,
                     unsetVars>>
      /\ operand' = [operand EXCEPT ![pFrame] = [slot |-> i, val |-> slotVal[i]]]
      /\ i \in Lvalues
    BY TopFrame DEF Load, Statement, Idle, frameVars, IInv, TypeOK, Depths
<1>1. /\ operand'[pFrame].slot = i /\ operand'[pFrame].val = slotVal[i]
      /\ \A d \in Depths : d # pFrame => operand'[d] = operand[d]
    BY <1>0 DEF IInv, TypeOK
<1>2. Live(i)
    BY <1>0, LvalueLive
<1>3. \A k \in Slots, d \in Int : IsRoot(k, d)' => IsRoot(k, d) \/ (k = i /\ d >= pFrame)
    <2> SUFFICES ASSUME NEW k \in Slots, NEW d \in Int, IsRoot(k, d)', ~ (k = i /\ d >= pFrame)
                 PROVE  IsRoot(k, d)
        OBVIOUS
    <2>1. \A e \in Depths : e <= d /\ operand'[e] # Nil /\ operand'[e].slot = k =>
             operand[e] # Nil /\ operand[e].slot = k
        BY <1>0, <1>1
    <2>. QED  BY <1>0, <2>1 DEF IsRoot
<1>4. RootsLive'
    <2> SUFFICES ASSUME NEW k \in Slots, NEW d \in Int, d = pFrame, IsRoot(k, d)' PROVE Live(k)
        BY <1>0 DEF RootsLive, Live, IsRoot
    <2>. QED  BY <1>2, <1>3 DEF Sheltered, RootsLive
<1>5. FreeBlank' /\ PartsHeld'
    BY <1>0 DEF Sheltered, FreeBlank, PartsHeld, Live, PartOf, Containers
<1>6. OperandsHeld'
    BY <1>0, <1>1 DEF Sheltered, OperandsHeld
<1>7. Above'
    BY <1>0, <1>1 DEF Sheltered, Above
<1>8. References'
    BY <1>0 DEF Sheltered, References
<1>9. Confined'
    <2>1. ASSUME NEW d \in 1 .. pFrame', d < pFrame'
          PROVE  \E U \in SUBSET Slots : Confines(U, d)'
        <3>1. d \in 1 .. pFrame /\ d \in Int
            BY <1>0, <2>1
        <3>2. PICK T \in SUBSET Slots : Confines(T, d)
            BY <3>1 DEF Sheltered, Confined
        <3>3. \A k \in T : ~ IsRoot(k, d)'
            BY <1>0, <1>3, <2>1, <3>1, <3>2 DEF Confines
        <3>4. Closed(T)'
            BY <1>0, <3>2 DEF Confines, Closed, PartOf, Containers
        <3>5. Confines(T, d)'
            BY <1>0, <3>2, <3>3, <3>4 DEF Confines
        <3>. QED  BY <3>5
    <2>. QED  BY <1>0, <1>5, <1>7, <2>1, ConfinedStep
<1>. QED  BY <1>4, <1>5, <1>6, <1>7, <1>8, <1>9 DEF Sheltered

\* Popping the operand releases nothing: its container is held elsewhere.
LEMMA PopsNothing ==
    ASSUME IInv, Sheltered, leaving = 0, PopOperand
    PROVE  /\ operand[pFrame] # Nil
           /\ \A d \in Depths : operand'[d] = IF d = pFrame THEN Nil ELSE operand[d]
           /\ todo' = {} /\ attr' = attr /\ aArrEntries' = aArrEntries
           /\ nodeArr' = nodeArr /\ nodeSlot' = nodeSlot /\ leaked' = leaked
<1> DEFINE x  == operand[pFrame].val
           cs == Lost(slotVal, operand', x)
<1>1. /\ operand[pFrame] # Nil /\ operand' = [operand EXCEPT ![pFrame] = Nil]
      /\ todo' = Unsets(cs)
      /\ attr' = Kept(cs)
      /\ nodeArr' = [n \in Nodes |-> IF n \in ElementsIn(cs) THEN Nil ELSE nodeArr[n]]
      /\ nodeSlot' = [n \in Nodes |-> IF n \in ElementsIn(cs) THEN Nil ELSE nodeSlot[n]]
      /\ leaked' = leaked
      /\ aArrEntries' = [i \in Slots |-> aArrEntries[i] \ ElementsIn(cs)]
    BY DEF PopOperand, FreeNodes
<1>2. cs = {}
    <2>1. operand[pFrame].slot \in Slots
        BY <1>1, TopFrame DEF IInv, TypeOK, Loaded
    <2>2. x # Nil => x \in Held(slotVal, operand')
        BY <1>1, <2>1, TopFrame DEF Sheltered, OperandsHeld, Held
    <2>. QED  BY <2>2 DEF Lost
<1> HIDE DEF cs
<1>3. ElementsIn(cs) = {}
    BY <1>2 DEF ElementsIn
<1>4. todo' = {}
    BY <1>1, <1>2, <1>3 DEF Unsets
<1>5. attr' = attr
    BY <1>1, <1>2 DEF Kept, IInv, TypeOK
<1>6. nodeArr' = nodeArr /\ nodeSlot' = nodeSlot /\ aArrEntries' = aArrEntries
    BY <1>1, <1>3 DEF IInv, TypeOK
<1>7. \A d \in Depths : operand'[d] = IF d = pFrame THEN Nil ELSE operand[d]
    BY <1>1 DEF IInv, TypeOK
<1>. QED  BY <1>1, <1>4, <1>5, <1>6, <1>7

\* The end of a statement.
LEMMA PopSheltered == ASSUME IInv, IInv', Sheltered, Pop PROVE Sheltered'
<1>0. /\ leaving = 0 /\ leaving' = 0 /\ pFrame' = pFrame /\ pFrame \in Int /\ todo = {}
      /\ UNCHANGED <<poolVars, slotVal, installed, keep, aReference, frameVars, static>>
      /\ PopOperand
    BY DEF Pop, Idle, frameVars, IInv, TypeOK
<1>1. /\ \A d \in Depths : operand'[d] = IF d = pFrame THEN Nil ELSE operand[d]
      /\ todo' = {} /\ attr' = attr /\ aArrEntries' = aArrEntries
      /\ nodeArr' = nodeArr /\ nodeSlot' = nodeSlot /\ leaked' = leaked
    BY <1>0, PopsNothing
<1>2. \A k \in Slots, d \in Int : IsRoot(k, d)' => IsRoot(k, d)
    <2> SUFFICES ASSUME NEW k \in Slots, NEW d \in Int, IsRoot(k, d)' PROVE IsRoot(k, d)
        OBVIOUS
    <2>1. \A e \in Depths : operand'[e] # Nil => operand'[e] = operand[e]
        BY <1>1
    <2>. QED  BY <1>0, <2>1 DEF IsRoot, frameVars
<1>3. RootsLive'
    BY <1>0, <1>2 DEF Sheltered, RootsLive, Live, IsRoot
<1>4. FreeBlank' /\ PartsHeld'
    BY <1>0, <1>1 DEF Sheltered, FreeBlank, PartsHeld, Live, PartOf, Containers
<1>5. OperandsHeld'
    BY <1>0, <1>1 DEF Sheltered, OperandsHeld
<1>6. Above'
    BY <1>0, <1>1 DEF Sheltered, Above, frameVars
<1>7. References'
    BY <1>0, <1>1 DEF Sheltered, References, frameVars
<1>8. Confined'
    <2>1. ASSUME NEW d \in 1 .. pFrame', d < pFrame'
          PROVE  \E U \in SUBSET Slots : Confines(U, d)'
        <3>1. d \in 1 .. pFrame /\ d \in Int
            BY <1>0, <2>1
        <3>2. PICK T \in SUBSET Slots : Confines(T, d)
            BY <3>1 DEF Sheltered, Confined
        <3>3. Closed(T)'
            BY <1>0, <1>1, <3>2 DEF Confines, Closed, PartOf, Containers
        <3>4. Confines(T, d)'
            BY <1>0, <1>1, <1>2, <3>1, <3>2, <3>3 DEF Confines, frameVars
        <3>. QED  BY <3>4
    <2>. QED  BY <1>0, <1>4, <1>6, <2>1, ConfinedStep
<1>. QED  BY <1>3, <1>4, <1>5, <1>6, <1>7, <1>8 DEF Sheltered

\* A frame entered with a name for slot r: a slot that is a root already, or
\* the one the static variable just got.
LEMMA BindSheltered ==
    ASSUME IInv, IInv', Sheltered, leaving = 0, NEW n \in Names, NEW r \in Slots,
           EnterFrame("call"),
           hVar' = [hVar EXCEPT ![<<pFrame + 1, n>>] = r],
           loose' = loose \cup {<<pFrame + 1, n>>},
           UNCHANGED <<slotVal, aReference, aArrEntries, sLocal, arrayVars, attr, todo, leaving>>,
           \A k \in Slots : Live(k) => Live(k)',
           Live(r)',
           \/ static' = static /\ IsRoot(r, pFrame)
           \/ static' = r /\ ~ Live(r),
           \A d \in Depths : operand'[d] = operand[d] \/ operand'[d] = Nil
    PROVE  Sheltered'
<1>0. /\ pFrame' = pFrame + 1 /\ pFrame \in Int /\ pFrame >= 1
      /\ <<pFrame + 1, n>> \in Entry
      /\ \A e \in Depths : e \in Int
      /\ \A e \in Entry : e[1] \in Int
    BY SMTT(40), EnterFrameType DEF Kinds, Entry, Depths, IInv, TypeOK
<1>1. \A e \in Entry : hVar'[e] = IF e = <<pFrame + 1, n>> THEN r ELSE hVar[e]
    BY <1>0 DEF IInv, TypeOK
<1>2. hVar[<<pFrame + 1, n>>] = Nil
    BY <1>0 DEF IInv, FramesSound
<1>3. \A k \in Slots, d \in Int : IsRoot(k, d)' =>
         IsRoot(k, d) \/ (k = r /\ (d >= pFrame \/ static' = r))
    <2> SUFFICES ASSUME NEW k \in Slots, NEW d \in Int, IsRoot(k, d)',
                        ~ (k = r /\ (d >= pFrame \/ static' = r))
                 PROVE  IsRoot(k, d)
        OBVIOUS
    <2>1. \A e \in Entry : /\ hVar'[e] = k
                           /\ e[1] <= d \/ (e \in loose' /\ e[1] <= d + 1)
                           => hVar[e] = k /\ (e[1] <= d \/ (e \in loose /\ e[1] <= d + 1))
        BY <1>0, <1>1
    <2>2. \A e \in Depths : operand'[e] # Nil => operand'[e] = operand[e]
        OBVIOUS
    <2>3. k = static' => k = static
        OBVIOUS
    <2>4. sLocal' = sLocal
        OBVIOUS
    <2>. QED  BY <2>1, <2>2, <2>3, <2>4 DEF IsRoot
<1>4. RootsLive'
    <2> SUFFICES ASSUME NEW k \in Slots, NEW d \in Int, d = pFrame', IsRoot(k, d)' PROVE Live(k)'
        BY <1>0 DEF RootsLive
    <2>1. CASE k = r
        BY <2>1
    <2>2. CASE IsRoot(k, d)
        <3>1. IsRoot(k, pFrame)
            BY <2>2, RootsTop DEF Sheltered
        <3>. QED  BY <3>1 DEF Sheltered, RootsLive
    <2>. QED  BY <1>3, <2>1, <2>2
<1>5. FreeBlank' /\ PartsHeld'
    BY DEF Sheltered, FreeBlank, PartsHeld, PartOf, Containers
<1>6. OperandsHeld'
    <2>1. \A e \in Depths : operand'[e] # Nil => operand'[e] = operand[e]
        OBVIOUS
    <2>. QED  BY <2>1 DEF Sheltered, OperandsHeld
<1>7. Above'
    <2>1. \A e \in Depths : e > pFrame' => operand'[e] = Nil
        BY <1>0 DEF Sheltered, Above
    <2>2. \A e \in Depths : e > pFrame' /\ e # leaving' => sLocal'[e] = {}
        BY <1>0 DEF Sheltered, Above
    <2>3. \A e \in loose' : hVar'[e] # Nil
        BY <1>1, MemObjAssumption DEF Sheltered, Above, IInv, TypeOK
    <2>. QED  BY <2>1, <2>2, <2>3 DEF Sheltered, Above
<1>8. References'
    BY DEF Sheltered, References
<1>9. ASSUME NEW d \in 1 .. pFrame', d < pFrame'
      PROVE  \E U \in SUBSET Slots : Confines(U, d)'
    <2>0. d \in 1 .. pFrame /\ d \in Int
        BY <1>0, <1>9
    <2>1. PICK T \in SUBSET Slots : Confines(T, d)
        BY <2>0 DEF Sheltered, Confined
    <2>2. todo' = {}
        BY DEF Sheltered, Above
    <2>3. CASE static' = static /\ IsRoot(r, pFrame)
        <3>1. \A k \in T : ~ IsRoot(k, d)'
            <4> SUFFICES ASSUME NEW k \in T, IsRoot(k, d)' PROVE FALSE
                OBVIOUS
            <4>1. ~ IsRoot(k, d)
                BY <2>1 DEF Confines
            <4>2. k = r /\ (d >= pFrame \/ static' = r)
                BY <1>3, <2>0, <4>1
            <4>3. CASE d >= pFrame
                BY <1>0, <2>0, <2>3, <4>1, <4>2, <4>3
            <4>4. CASE static' = r
                BY <2>3, <4>1, <4>2, <4>4 DEF IsRoot
            <4>. QED  BY <4>2, <4>3, <4>4
        <3>2. Closed(T)'
            BY <2>1 DEF Confines, Closed, PartOf, Containers
        <3>3. Confines(T, d)'
            BY <2>1, <2>2, <3>1, <3>2 DEF Confines
        <3>. QED  BY <3>3
    <2>4. CASE static' = r /\ ~ Live(r)
        <3> DEFINE U == T \ {r}
        <3>1. /\ slotVal[r] = Nil
              /\ \A e \in Depths : r \notin sLocal[e]
              /\ \A c : ~ PartOf(r, c)
            BY <2>4, FreshSlot
        <3>2. \A k \in U : ~ IsRoot(k, d)'
            BY <1>3, <2>0, <2>1 DEF Confines
        <3>3. \A e \in Depths : e > d => sLocal'[e] \subseteq U
            BY <2>1, <3>1 DEF Confines
        <3>4. Closed(U)'
            <4>1. \A k \in Slots : \A c : PartOf(k, c)' <=> PartOf(k, c)
                BY DEF PartOf
            <4>2. \A c \in Containers \ leaked', k \in Slots :
                     slotVal[k] = c /\ k \notin T => slotVal'[k] = c /\ k \notin U
                OBVIOUS
            <4>3. \A c \in Containers \ leaked', k \in Slots :
                     PartOf(k, c)' => k \in U \/ (PartOf(k, c) /\ (k \in T => k \in U))
                BY <3>1, <4>1
            <4>4. Closed(T) /\ leaked \subseteq leaked'
                BY <2>1 DEF Confines
            <4> HIDE DEF U
            <4>. QED  BY <4>2, <4>3, <4>4, ClosedStep
        <3>5. U \in SUBSET Slots
            OBVIOUS
        <3> HIDE DEF U
        <3>6. Confines(U, d)'
            BY <2>2, <3>2, <3>3, <3>4 DEF Confines
        <3>. QED  BY <3>5, <3>6
    <2>. QED  BY <2>3, <2>4
<1>10. Confined'
    BY <1>5, <1>7, <1>9, ConfinedStep
<1>. QED  BY <1>4, <1>5, <1>6, <1>7, <1>8, <1>10 DEF Sheltered

\* Calling a function whose parameter is passed by reference: the operand named
\* the slot, and the parameter goes on naming it.
LEMMA CallByRefSheltered ==
    ASSUME IInv, IInv', Sheltered, NEW n \in Names, NEW typed \in BOOLEAN, CallByRef(n, typed)
    PROVE  Sheltered'
<1>0. /\ leaving = 0 /\ todo = {} /\ PopOperand /\ EnterFrame("call")
      /\ hVar' = [hVar EXCEPT ![<<pFrame + 1, n>>] = operand[pFrame].slot]
      /\ loose' = loose \cup {<<pFrame + 1, n>>}
      /\ UNCHANGED <<slotVal, aReference, sLocal, static, leaving>>
    BY DEF CallByRef, Idle
<1>1. /\ operand[pFrame] # Nil
      /\ \A d \in Depths : operand'[d] = IF d = pFrame THEN Nil ELSE operand[d]
      /\ todo' = {} /\ attr' = attr /\ aArrEntries' = aArrEntries
      /\ nodeArr' = nodeArr /\ nodeSlot' = nodeSlot /\ leaked' = leaked
    BY <1>0, PopsNothing
<1>2. pFrame \in Depths /\ pFrame \in Int
    BY TopFrame
<1>3. PICK r \in Slots : r = operand[pFrame].slot
    BY <1>1, <1>2 DEF IInv, TypeOK, Loaded
<1>4. IsRoot(r, pFrame)
    BY <1>1, <1>2, <1>3 DEF IsRoot
<1>5. \A k \in Slots : Live(k) => Live(k)'
    <2>1. CASE UNCHANGED poolVars
        BY <2>1 DEF Live
    <2>2. CASE \E k \in Slots \ aMemObj : /\ aMemObj' = aMemObj \cup {k}
                                          /\ aFreeObj' = [aFreeObj EXCEPT ![k] = 1]
        BY <2>2 DEF Live, IInv, TypeOK
    <2>. QED  BY <2>1, <2>2 DEF CallByRef
<1>6. Live(r)'
    BY <1>3, <1>4, <1>5 DEF Sheltered, RootsLive
<1>7. /\ UNCHANGED <<slotVal, aReference, aArrEntries, sLocal, arrayVars, attr, todo, leaving>>
      /\ hVar' = [hVar EXCEPT ![<<pFrame + 1, n>>] = r]
    BY <1>0, <1>1, <1>3
<1>8. \A d \in Depths : operand'[d] = operand[d] \/ operand'[d] = Nil
    BY <1>1
<1>. QED  BY <1>0, <1>3, <1>4, <1>5, <1>6, <1>7, <1>8, BindSheltered

\* Calling the function that has a static variable.
LEMMA CallStaticSheltered ==
    ASSUME IInv, IInv', Sheltered, NEW n \in Names, CallStatic(n) PROVE Sheltered'
<1>0. /\ leaving = 0 /\ EnterFrame("call")
      /\ hVar' = [hVar EXCEPT ![<<pFrame + 1, n>>] = static']
      /\ loose' = loose \cup {<<pFrame + 1, n>>}
      /\ UNCHANGED <<refVars, sLocal, arrayVars, attr, operand, unsetVars>>
    BY DEF CallStatic, Idle
<1>1. CASE static # Nil
    <2>1. UNCHANGED <<static, poolVars, slotVal>>
        BY <1>1 DEF CallStatic
    <2>2. PICK r \in Slots : r = static
        BY <1>1 DEF IInv, TypeOK
    <2>3. IsRoot(r, pFrame)
        BY <2>2 DEF IsRoot
    <2>4. \A k \in Slots : Live(k) => Live(k)'
        BY <2>1 DEF Live
    <2>5. Live(r)'
        BY <2>3, <2>4 DEF Sheltered, RootsLive
    <2>6. /\ hVar' = [hVar EXCEPT ![<<pFrame + 1, n>>] = r]
          /\ UNCHANGED <<slotVal, aReference, aArrEntries, sLocal, arrayVars, attr, todo, leaving>>
          /\ \A d \in Depths : operand'[d] = operand[d] \/ operand'[d] = Nil
        BY <1>0, <2>1, <2>2 DEF refVars, unsetVars
    <2>. QED  BY <1>0, <2>1, <2>3, <2>4, <2>5, <2>6, BindSheltered
<1>2. CASE static = Nil
    <2>1. PICK i \in Slots \ aMemObj, j \in Slots :
               /\ static' = i
               /\ CanReserve(aFreeObj, aMemObj \cup {i}, j)
               /\ aFreeObj' = Taken(aFreeObj, j)
               /\ aMemObj' = aMemObj \cup {i, j}
               /\ slotVal' = [slotVal EXCEPT ![i] = Nil, ![j] = Nil]
        BY <1>2 DEF CallStatic
    <2>2. aFreeObj[i] = 0 /\ ~ Live(i)
        <3>0. i \in Slots /\ i \notin aMemObj /\ aFreeObj \in [Slots -> Nat] /\ FreeListSound
            BY <2>1 DEF IInv, TypeOK
        <3>1. aFreeObj[i] = 0
            BY ONLY <3>0 DEF FreeListSound
        <3>. QED  BY <3>0, <3>1 DEF Live
    <2>3. j # i /\ (aFreeObj[j] > 0 \/ j \notin aMemObj)
        BY <2>1, <2>2 DEF CanReserve
    <2>4. /\ aFreeObj'[j] = 0
          /\ \A k \in Slots \ {j} : aFreeObj'[k] = aFreeObj[k]
        BY <2>1, <2>3, Reservable
    <2>5. ~ Live(j)
        BY <2>3 DEF Live, IInv, TypeOK
    <2>6. slotVal[i] = Nil /\ slotVal[j] = Nil
        BY <2>2, <2>5 DEF Sheltered, FreeBlank
    <2>7. slotVal' = slotVal
        BY <2>1, <2>6 DEF IInv, TypeOK
    <2>8. \A k \in Slots : Live(k) => Live(k)'
        BY <2>1, <2>4, <2>5 DEF Live
    <2>9. Live(i)'
        BY <2>1, <2>2, <2>3, <2>4 DEF Live
    <2>10. /\ hVar' = [hVar EXCEPT ![<<pFrame + 1, n>>] = i]
           /\ UNCHANGED <<slotVal, aReference, aArrEntries, sLocal, arrayVars, attr, todo, leaving>>
           /\ \A d \in Depths : operand'[d] = operand[d] \/ operand'[d] = Nil
        BY <1>0, <2>1, <2>7 DEF refVars, unsetVars
    <2>. QED  BY <1>0, <2>1, <2>2, <2>8, <2>9, <2>10, BindSheltered
<1>. QED  BY <1>1, <1>2

(***************************************************************************)
(* Leaving a frame.                                                        *)
(***************************************************************************)
\* VmLeaveFrame: what the frame is going to destroy was confined all along.
LEMMA LeaveFrameSheltered == ASSUME IInv, IInv', Sheltered, LeaveFrame PROVE Sheltered'
<1>0. /\ leaving = 0 /\ todo = {} /\ operand[pFrame] = Nil
      /\ pFrame > 1 /\ pFrame' = pFrame - 1 /\ pFrame \in Int /\ pFrame \in Depths
      /\ \A e \in Depths : e \in Int
      /\ \A e \in Entry : e[1] \in Int
      /\ UNCHANGED <<poolVars, slotVal, refVars, arrayVars, attr, static, operand>>
    BY TopFrame DEF LeaveFrame, Statement, Idle, IInv, TypeOK, Entry, Depths
<1>1. \/ BlankLevel(pFrame) /\ todo' = {} /\ leaving' = 0
      \/ /\ leaving' = pFrame
         /\ todo' = {<<i, 0>> : i \in sLocal[pFrame]}
         /\ UNCHANGED <<hVar, loose, sLocal>>
    BY <1>0 DEF LeaveFrame, Locals
<1>2. /\ \A e \in Entry : hVar'[e] = hVar[e] \/ (e[1] = pFrame /\ hVar'[e] = Nil)
      /\ \A e \in Depths : sLocal'[e] \subseteq sLocal[e]
      /\ \A e \in loose' : e \in loose /\ hVar'[e] = hVar[e]
      /\ leaving' = 0 => sLocal'[pFrame] = {}
      /\ leaving' = 0 \/ leaving' = pFrame
    <2>1. CASE BlankLevel(pFrame) /\ todo' = {} /\ leaving' = 0
        BY <1>0, <2>1 DEF BlankLevel, IInv, TypeOK
    <2>2. CASE leaving' = pFrame /\ UNCHANGED <<hVar, loose, sLocal>>
        BY <1>0, <2>2
    <2>. QED  BY <1>1, <2>1, <2>2
<1>3. \A t \in todo' : leaving' = pFrame /\ t[1] \in sLocal[pFrame]
    BY <1>1
<1>4. \A k \in Slots, d \in Int : IsRoot(k, d)' => IsRoot(k, d)
    <2> SUFFICES ASSUME NEW k \in Slots, NEW d \in Int, IsRoot(k, d)' PROVE IsRoot(k, d)
        OBVIOUS
    <2>1. k # Nil
        BY MemObjAssumption
    <2>2. \A e \in Entry : hVar'[e] = k => hVar[e] = k
        BY <1>2, <2>1
    <2>. QED  BY <1>0, <1>2, <2>2 DEF IsRoot
<1>5. RootsLive'
    <2> SUFFICES ASSUME NEW k \in Slots, NEW d \in Int, d = pFrame', IsRoot(k, d)' PROVE Live(k)
        BY <1>0 DEF RootsLive, Live
    <2>1. IsRoot(k, pFrame)
        BY <1>0, <1>4, RootUp
    <2>. QED  BY <2>1 DEF Sheltered, RootsLive
<1>6. FreeBlank' /\ OperandsHeld' /\ PartsHeld'
    BY <1>0 DEF Sheltered, FreeBlank, OperandsHeld, PartsHeld, Live, PartOf, Containers
<1>7. Above'
    <2>1. \A e \in Depths : e > pFrame' => operand'[e] = Nil
        BY <1>0 DEF Sheltered, Above
    <2>2. ASSUME NEW e \in Depths, e > pFrame', e # leaving' PROVE sLocal'[e] = {}
        <3>1. CASE e = pFrame
            BY <1>2, <2>2, <3>1
        <3>2. CASE e # pFrame
            <4>1. e > pFrame /\ e # leaving
                BY <1>0, <2>2, <3>2
            <4>2. sLocal[e] = {}
                BY <4>1 DEF Sheltered, Above
            <4>. QED  BY <1>2, <4>2
        <3>. QED  BY <3>1, <3>2
    <2>3. \A e \in loose' : hVar'[e] # Nil
        BY <1>2 DEF Sheltered, Above
    <2>4. leaving' = 0 => todo' = {}
        BY <1>0, <1>3
    <2>. QED  BY <2>1, <2>2, <2>3, <2>4 DEF Above
<1>8. References'
    BY <1>0, <1>2, <1>3 DEF Sheltered, References
<1>9. Confined'
    <2> SUFFICES ASSUME NEW d \in 1 .. pFrame' PROVE \E U \in SUBSET Slots : Confines(U, d)'
        BY DEF Confined
    <2>0. d \in 1 .. pFrame /\ d \in Int /\ pFrame > d
        BY <1>0
    <2>1. PICK T \in SUBSET Slots : Confines(T, d)
        BY <2>0 DEF Sheltered, Confined
    <2>2. Closed(T)'
        BY <1>0, <2>1 DEF Confines, Closed, PartOf, Containers
    <2>3. \A t \in todo' : t[1] \in T
        BY <1>0, <1>3, <2>0, <2>1 DEF Confines
    <2>4. \A k \in T : ~ IsRoot(k, d)'
        BY <1>4, <2>0, <2>1 DEF Confines
    <2>5. Confines(T, d)'
        BY <1>2, <2>1, <2>2, <2>3, <2>4 DEF Confines
    <2>. QED  BY <2>5
<1>. QED  BY <1>5, <1>6, <1>7, <1>8, <1>9 DEF Sheltered

\* The end of VmLeaveFrame drops the names of the frame.
LEMMA FinishLeaveSheltered == ASSUME IInv, IInv', Sheltered, FinishLeave PROVE Sheltered'
<1>0. /\ leaving = pFrame + 1 /\ leaving' = 0 /\ todo = {} /\ todo' = {}
      /\ pFrame' = pFrame /\ pFrame \in Int
      /\ UNCHANGED <<poolVars, slotVal, installed, aArrEntries, arrayVars, attr, static, operand>>
      /\ BlankLevel(leaving)
    BY DEF FinishLeave, IInv, TypeOK, FramesSound
<1>1. /\ \A e \in Entry : hVar'[e] = hVar[e] \/ hVar'[e] = Nil
      /\ \A e \in Depths : sLocal'[e] = IF e = leaving THEN {} ELSE sLocal[e]
      /\ \A e \in loose' : e \in loose /\ hVar'[e] = hVar[e]
    BY <1>0 DEF BlankLevel, IInv, TypeOK
<1>2. \A i \in Slots : aReference'[i] \subseteq aReference[i]
    BY DEF FinishLeave
<1>3. \A k \in Slots, d \in Int : IsRoot(k, d)' => IsRoot(k, d)
    <2> SUFFICES ASSUME NEW k \in Slots, NEW d \in Int, IsRoot(k, d)' PROVE IsRoot(k, d)
        OBVIOUS
    <2>1. k # Nil
        BY MemObjAssumption
    <2>2. \A e \in Entry : hVar'[e] = k => hVar[e] = k
        BY <1>1, <2>1
    <2>3. \A e \in Depths : k \in sLocal'[e] => k \in sLocal[e]
        BY <1>1
    <2>. QED  BY <1>0, <1>1, <2>2, <2>3 DEF IsRoot
<1>4. RootsLive'
    BY <1>0, <1>3 DEF Sheltered, RootsLive, Live, IsRoot
<1>5. FreeBlank' /\ OperandsHeld' /\ PartsHeld'
    BY <1>0 DEF Sheltered, FreeBlank, OperandsHeld, PartsHeld, Live, PartOf, Containers
<1>6. Above'
    BY <1>0, <1>1 DEF Sheltered, Above
<1>7. References'
    <2>1. \A d \in Depths : \A i \in sLocal'[d] : i \in Slots /\ i \in sLocal[d]
        BY <1>1 DEF IInv, TypeOK
    <2>. QED  BY <1>0, <1>2, <2>1 DEF IInv, TypeOK, Sheltered, References
<1>8. Confined'
    <2> SUFFICES ASSUME NEW d \in 1 .. pFrame PROVE \E U \in SUBSET Slots : Confines(U, d)'
        BY <1>0 DEF Confined
    <2>1. PICK T \in SUBSET Slots : Confines(T, d)
        BY DEF Sheltered, Confined
    <2>2. Closed(T)'
        BY <1>0, <2>1 DEF Confines, Closed, PartOf, Containers
    <2>3. \A k \in T : ~ IsRoot(k, d)'
        BY <1>3, <2>1 DEF Confines
    <2>4. Confines(T, d)'
        BY <1>0, <1>1, <2>1, <2>2, <2>3 DEF Confines
    <2>. QED  BY <2>4
<1>. QED  BY <1>4, <1>5, <1>6, <1>7, <1>8 DEF Sheltered

(***************************************************************************)
(* Destroying a slot.                                                      *)
(***************************************************************************)
\* The container that loses its last reference with slot i, if it does.
LostWith(i) == Lost([slotVal EXCEPT ![i] = Nil], operand, slotVal[i])

\* What one call of PH7_VmUnsetMemObj does while a frame is being left.
Destroys(i, force) ==
    /\ leaving = pFrame + 1 /\ <<i, force>> \in todo
    /\ ~ IsRoot(i, pFrame)
    /\ aArrEntries[i] = {}
    /\ \A e \in Entries(i) : e \in Entry /\ e[1] = leaving
    /\ \A k \in Slots : slotVal'[k] = IF k = i THEN Nil ELSE slotVal[k]
    /\ \A e \in Entry : hVar'[e] = IF e \in Entries(i) THEN Nil ELSE hVar[e]
    /\ loose' = loose \ Entries(i)
    /\ \A n \in Nodes : nodeArr'[n] = IF n \in ElementsIn(LostWith(i)) THEN Nil ELSE nodeArr[n]
    /\ \A n \in Nodes : nodeSlot'[n] = IF n \in ElementsIn(LostWith(i)) THEN Nil ELSE nodeSlot[n]
    /\ \A k \in Slots : aArrEntries'[k] =
          IF k = i THEN {} ELSE aArrEntries[k] \ ElementsIn(LostWith(i))
    /\ \A k \in Slots : aReference'[k] = IF k = i THEN {} ELSE aReference[k]
    /\ \A o \in Instances : attr'[o] = IF o \in LostWith(i) THEN Nil ELSE attr[o]
    /\ todo' = (todo \ {<<i, force>>}) \cup Unsets(LostWith(i))
    /\ \A k \in Slots : k # i => aFreeObj'[k] = aFreeObj[k]
    /\ UNCHANGED <<aMemObj, pFrame, sLocal, static, operand, leaving, leaked>>

\* What one call of PH7_VmUnsetMemObj does, seen from the slots that stay.
LEMMA UnsetFacts ==
    ASSUME IInv, Sheltered, NEW i \in Slots, NEW force \in {0, 1}, UnsetMemObj(i, force)
    PROVE  Destroys(i, force)
<1>1. <<i, force>> \in todo
    BY DEF UnsetMemObj
<1>2. leaving = pFrame + 1
    BY <1>1 DEF Sheltered, Above, IInv, FramesSound
<1>3. pFrame \in 1 .. pFrame /\ pFrame \in Int
    BY DEF IInv, TypeOK
<1>4. ~ IsRoot(i, pFrame)
    <2>1. PICK T \in SUBSET Slots : Confines(T, pFrame)
        BY <1>3 DEF Sheltered, Confined
    <2>. QED  BY <1>1, <2>1 DEF Confines
<1>5. aArrEntries[i] = {} /\ \A e \in aReference[i] : e[1] = leaving
    BY <1>1 DEF Sheltered, References
<1>6. \A e \in Entries(i) : e \in Entry /\ e[1] = leaving
    BY <1>5 DEF Entries, IInv, TypeOK
<1>7. /\ slotVal' = [slotVal EXCEPT ![i] = Nil]
      /\ todo' = (todo \ {<<i, force>>}) \cup Unsets(LostWith(i))
      /\ attr' = Kept(LostWith(i))
      /\ hVar' = [e \in Entry |-> IF e \in Entries(i) THEN Nil ELSE hVar[e]]
      /\ loose' = loose \ Entries(i)
      /\ FreeNodes(ElementsIn(LostWith(i)) \cup (IF i \in installed THEN aArrEntries[i] ELSE {}))
      /\ aArrEntries' = [j \in Slots |-> IF j = i THEN {} ELSE aArrEntries[j] \ ElementsIn(LostWith(i))]
      /\ aReference' = [aReference EXCEPT ![i] = {}]
      /\ aFreeObj' = IF Restored(i, force) THEN [aFreeObj EXCEPT ![i] = @ + 1] ELSE aFreeObj
      /\ UNCHANGED <<aMemObj, pFrame, sLocal, static, operand, leaving>>
    BY DEF UnsetMemObj, LostWith
<1>8. FreeNodes(ElementsIn(LostWith(i)))
    BY <1>5, <1>7
<1>9. \A o \in Instances : attr'[o] = IF o \in LostWith(i) THEN Nil ELSE attr[o]
    BY <1>7 DEF Kept
<1>10. \A k \in Slots : k # i => aFreeObj'[k] = aFreeObj[k]
    BY <1>7 DEF IInv, TypeOK
<1>11. \A k \in Slots : slotVal'[k] = IF k = i THEN Nil ELSE slotVal[k]
    BY <1>7 DEF IInv, TypeOK
<1>12. \A k \in Slots : aReference'[k] = IF k = i THEN {} ELSE aReference[k]
    BY <1>7 DEF IInv, TypeOK
<1>13. /\ \A n \in Nodes : nodeArr'[n] = IF n \in ElementsIn(LostWith(i)) THEN Nil ELSE nodeArr[n]
       /\ \A n \in Nodes : nodeSlot'[n] = IF n \in ElementsIn(LostWith(i)) THEN Nil ELSE nodeSlot[n]
       /\ leaked' = leaked
    BY <1>8 DEF FreeNodes
<1>. QED  BY <1>1, <1>2, <1>4, <1>5, <1>6, <1>7, <1>9, <1>10, <1>11, <1>12, <1>13 DEF Destroys

\* The container that is lost with slot i was in no other slot; one that is not
\* lost is still in some slot, leaked, or an operand's.
LEMMA LostFacts ==
    ASSUME IInv, NEW i \in Slots
    PROVE  /\ \A c \in LostWith(i) :
                 /\ c = slotVal[i] /\ c \in Containers \ leaked /\ c # Nil
                 /\ \A k \in Slots : slotVal[k] = c => k = i
           /\ slotVal[i] # Nil /\ slotVal[i] \notin LostWith(i) =>
                 \/ \E k \in Slots : k # i /\ slotVal[k] = slotVal[i]
                 \/ slotVal[i] \in leaked
                 \/ \E d \in Depths : operand[d] # Nil /\ operand[d].val = slotVal[i]
<1> DEFINE v == [slotVal EXCEPT ![i] = Nil]
<1>1. /\ \A k \in Slots : v[k] = IF k = i THEN Nil ELSE slotVal[k]
      /\ slotVal[i] \in Arrays \cup Instances \cup {Nil}
    BY DEF IInv, TypeOK
<1>2. LostWith(i) = {slotVal[i]} \ (Held(v, operand) \cup {Nil})
    BY DEF LostWith, Lost
<1> HIDE DEF v
<1>3. \A c \in LostWith(i) : /\ c = slotVal[i] /\ c \in Containers \ leaked /\ c # Nil
                             /\ \A k \in Slots : slotVal[k] = c => k = i
    BY <1>1, <1>2 DEF Held, Containers
<1>4. slotVal[i] # Nil /\ slotVal[i] \notin LostWith(i) =>
         \/ \E k \in Slots : k # i /\ slotVal[k] = slotVal[i]
         \/ slotVal[i] \in leaked
         \/ \E d \in Depths : operand[d] # Nil /\ operand[d].val = slotVal[i]
    <2> SUFFICES ASSUME slotVal[i] # Nil, slotVal[i] \in Held(v, operand)
                 PROVE  \/ \E k \in Slots : k # i /\ slotVal[k] = slotVal[i]
                        \/ slotVal[i] \in leaked
                        \/ \E d \in Depths : operand[d] # Nil /\ operand[d].val = slotVal[i]
        BY <1>2
    <2>. QED  BY <1>1 DEF Held
<1>. QED  BY <1>3, <1>4

\* The slots released with the container lost belong to it.
LEMMA UnsetsArePart ==
    ASSUME IInv, NEW cs, NEW t \in Unsets(cs), \A c \in cs : c # Nil
    PROVE  \/ \E o \in cs \cap Instances : t[1] = attr[o]
           \/ \E n \in ElementsIn(cs) : t[1] = nodeSlot[n]
BY DEF Unsets

\* One call of PH7_VmUnsetMemObj: what it destroys was confined to the frame
\* that is being left, and so is what it leaves to destroy.
LEMMA UnsetMemObjSheltered ==
    ASSUME IInv, IInv', Sheltered, NEW i \in Slots, NEW force \in {0, 1}, UnsetMemObj(i, force)
    PROVE  Sheltered'
<1>0. Destroys(i, force)
    BY UnsetFacts
<1>1. /\ leaving = pFrame + 1 /\ <<i, force>> \in todo
      /\ ~ IsRoot(i, pFrame)
      /\ \A e \in Entries(i) : e \in Entry /\ e[1] = leaving
      /\ \A k \in Slots : slotVal'[k] = IF k = i THEN Nil ELSE slotVal[k]
      /\ \A e \in Entry : hVar'[e] = IF e \in Entries(i) THEN Nil ELSE hVar[e]
      /\ loose' = loose \ Entries(i)
      /\ todo' = (todo \ {<<i, force>>}) \cup Unsets(LostWith(i))
      /\ \A k \in Slots : k # i => aFreeObj'[k] = aFreeObj[k]
      /\ UNCHANGED <<aMemObj, pFrame, sLocal, static, operand, leaving, leaked>>
    BY <1>0 DEF Destroys
<1>2. /\ \A n \in Nodes : nodeArr'[n] = IF n \in ElementsIn(LostWith(i)) THEN Nil ELSE nodeArr[n]
      /\ \A n \in Nodes : nodeSlot'[n] = IF n \in ElementsIn(LostWith(i)) THEN Nil ELSE nodeSlot[n]
      /\ \A o \in Instances : attr'[o] = IF o \in LostWith(i) THEN Nil ELSE attr[o]
    BY <1>0 DEF Destroys
<1>3. /\ \A k \in Slots : aArrEntries'[k] =
            IF k = i THEN {} ELSE aArrEntries[k] \ ElementsIn(LostWith(i))
      /\ \A k \in Slots : aReference'[k] = IF k = i THEN {} ELSE aReference[k]
    BY <1>0 DEF Destroys
<1>4. /\ \A c \in LostWith(i) : /\ c = slotVal[i] /\ c \in Containers \ leaked /\ c # Nil
                                /\ \A k \in Slots : slotVal[k] = c => k = i
      /\ slotVal[i] # Nil /\ slotVal[i] \notin LostWith(i) =>
            \/ \E k \in Slots : k # i /\ slotVal[k] = slotVal[i]
            \/ slotVal[i] \in leaked
            \/ \E d \in Depths : operand[d] # Nil /\ operand[d].val = slotVal[i]
    BY LostFacts
<1>5. pFrame \in Int /\ \A e \in Depths : e \in Int
    BY DEF IInv, TypeOK, Depths
<1>6. \A k \in Slots, d \in Int : IsRoot(k, d)' => IsRoot(k, d)
    <2> SUFFICES ASSUME NEW k \in Slots, NEW d \in Int, IsRoot(k, d)' PROVE IsRoot(k, d)
        OBVIOUS
    <2>1. k # Nil
        BY MemObjAssumption
    <2>2. \A e \in Entry : hVar'[e] = k => hVar[e] = k
        BY <1>1, <2>1
    <2>3. \A e : e \in loose' => e \in loose
        BY <1>1
    <2>. QED  BY <1>1, <2>2, <2>3 DEF IsRoot
<1>7. \A k \in Slots : k # i => (Live(k)' <=> Live(k))
    BY <1>1 DEF Live
<1>8. RootsLive'
    <2> SUFFICES ASSUME NEW k \in Slots, NEW d \in Int, d = pFrame, IsRoot(k, d)' PROVE Live(k)'
        BY <1>1, <1>5 DEF RootsLive, IsRoot
    <2>1. IsRoot(k, pFrame)
        BY <1>6
    <2>. QED  BY <1>1, <1>7, <2>1 DEF Sheltered, RootsLive
<1>9. FreeBlank'
    BY <1>1, <1>7 DEF Sheltered, FreeBlank
<1>10. OperandsHeld'
    <2> SUFFICES ASSUME NEW d \in Depths, operand[d] # Nil, operand[d].val # Nil
                 PROVE  slotVal'[operand[d].slot] = operand[d].val \/ operand[d].val \in leaked
        BY <1>1 DEF OperandsHeld
    <2>1. d <= pFrame
        BY <1>5 DEF Sheltered, Above
    <2>2. operand[d].slot \in Slots
        BY DEF IInv, TypeOK, Loaded
    <2>3. operand[d].slot # i
        BY <1>1, <2>1 DEF IsRoot
    <2>. QED  BY <1>1, <2>2, <2>3 DEF Sheltered, OperandsHeld
<1>11. \A k \in Slots, c \in Containers : PartOf(k, c)' => PartOf(k, c) /\ c \notin LostWith(i)
    <2>1. \A k \in Slots : k # Nil
        BY MemObjAssumption
    <2>2. \A c \in Containers : c # Nil
        BY MemObjAssumption DEF Containers
    <2>. QED  BY <1>2, <2>1, <2>2 DEF PartOf, ElementsIn
<1>12. PartsHeld'
    <2> SUFFICES ASSUME NEW c \in Containers, NEW k \in Slots, PartOf(k, c)', c \notin leaked
                 PROVE  \E j \in Slots : slotVal'[j] = c
        BY <1>1 DEF PartsHeld, Containers
    <2>0. c # Nil
        BY MemObjAssumption DEF Containers
    <2>1. PICK j \in Slots : slotVal[j] = c
        BY <1>11 DEF Sheltered, PartsHeld
    <2>2. CASE j # i
        BY <1>1, <2>1, <2>2
    <2>3. CASE j = i
        <3>1. CASE \E m \in Slots : m # i /\ slotVal[m] = slotVal[i]
            BY <1>1, <2>1, <2>3, <3>1
        <3>2. CASE \E d \in Depths : operand[d] # Nil /\ operand[d].val = slotVal[i]
            <4>1. PICK d \in Depths : operand[d] # Nil /\ operand[d].val = c
                BY <2>1, <2>3, <3>2
            <4>2. operand[d].slot \in Slots
                BY <4>1 DEF IInv, TypeOK, Loaded
            <4>3. slotVal'[operand[d].slot] = c
                BY <1>1, <1>10, <2>0, <4>1 DEF OperandsHeld
            <4>. QED  BY <4>2, <4>3
        <3>. QED  BY <1>4, <1>11, <2>0, <2>1, <2>3, <3>1, <3>2
    <2>. QED  BY <2>2, <2>3
<1>13. Above'
    <2>1. leaving' # 0
        BY <1>1 DEF IInv, TypeOK
    <2>2. \A e \in loose' : hVar'[e] # Nil
        BY <1>1 DEF Sheltered, Above, IInv, TypeOK
    <2>. QED  BY <1>1, <2>1, <2>2 DEF Sheltered, Above
<1>14. ASSUME NEW t \in Unsets(LostWith(i))
       PROVE  \E c \in LostWith(i) : PartOf(t[1], c)
    <2>1. CASE \E o \in LostWith(i) \cap Instances : t[1] = attr[o]
        BY <2>1 DEF PartOf
    <2>2. CASE \E n \in ElementsIn(LostWith(i)) : t[1] = nodeSlot[n]
        BY <2>2 DEF PartOf, ElementsIn
    <2>. QED  BY <1>4, <2>1, <2>2, UnsetsArePart
<1>15. ASSUME NEW t \in Unsets(LostWith(i))
       PROVE  aArrEntries'[t[1]] = {} /\ aReference'[t[1]] = {}
    <2>0. t[1] \in Slots
        <3>1. t \in todo'
            BY <1>1
        <3>. QED  BY <3>1 DEF IInv, TypeOK
    <2>1. CASE \E o \in LostWith(i) \cap Instances : t[1] = attr[o]
        <3>1. PICK o \in Instances : t[1] = attr[o]
            BY <2>1
        <3>2. attr[o] # Nil
            BY <2>0, <3>1, MemObjAssumption
        <3>3. aArrEntries[t[1]] = {} /\ aReference[t[1]] = {}
            BY <3>1, <3>2 DEF Sheltered, References
        <3>. QED  BY <1>3, <2>0, <3>3
    <2>2. CASE \E n \in ElementsIn(LostWith(i)) : t[1] = nodeSlot[n]
        <3>1. PICK n \in ElementsIn(LostWith(i)) : t[1] = nodeSlot[n]
            BY <2>2
        <3>2. n \in Nodes /\ nodeSlot[n] # Nil
            BY <2>0, <3>1, MemObjAssumption DEF ElementsIn
        <3>3. aReference[t[1]] = {} /\ t[1] \in installed
            BY <3>1, <3>2 DEF Sheltered, References, IInv, NodesBacked
        <3>4. \A m \in aArrEntries[t[1]] : m \in Nodes /\ nodeSlot[m] = nodeSlot[n]
            BY <2>0, <3>1, <3>3 DEF IInv, TypeOK, NodesBacked
        <3>5. \A m \in aArrEntries[t[1]] : m = n
            BY <3>2, <3>4 DEF Sheltered, References
        <3>. QED  BY <1>3, <2>0, <3>1, <3>3, <3>5
    <2>. QED  BY <1>4, <2>1, <2>2, UnsetsArePart
<1>16. References'
    <2>1. ASSUME NEW d \in Depths, NEW k \in sLocal'[d]
          PROVE  aArrEntries'[k] = {} /\ \A e \in aReference'[k] : e[1] = d
        <3>1. k \in Slots /\ k \in sLocal[d]
            BY <1>1, <2>1 DEF IInv, TypeOK
        <3>2. aArrEntries[k] = {} /\ \A e \in aReference[k] : e[1] = d
            BY <3>1 DEF Sheltered, References
        <3>. QED  BY <1>3, <3>1, <3>2
    <2>2. ASSUME NEW t \in todo'
          PROVE  aArrEntries'[t[1]] = {} /\ \A e \in aReference'[t[1]] : e[1] = leaving'
        <3>1. CASE t \in todo
            <4>1. t[1] \in Slots
                BY <3>1 DEF IInv, TypeOK
            <4>2. aArrEntries[t[1]] = {} /\ \A e \in aReference[t[1]] : e[1] = leaving
                BY <3>1 DEF Sheltered, References
            <4>. QED  BY <1>1, <1>3, <4>1, <4>2
        <3>2. CASE t \in Unsets(LostWith(i))
            BY <1>15, <3>2
        <3>. QED  BY <1>1, <2>2, <3>1, <3>2
    <2>3. ASSUME NEW o \in Instances, attr'[o] # Nil
          PROVE  aArrEntries'[attr'[o]] = {} /\ aReference'[attr'[o]] = {}
        <3>1. attr'[o] = attr[o] /\ attr[o] \in Slots /\ attr[o] # Nil
            BY <1>2, <2>3 DEF IInv, TypeOK
        <3>2. aArrEntries[attr[o]] = {} /\ aReference[attr[o]] = {}
            BY <3>1 DEF Sheltered, References
        <3>. QED  BY <1>3, <3>1, <3>2
    <2>4. ASSUME NEW n \in Nodes, nodeSlot'[n] # Nil PROVE aReference'[nodeSlot'[n]] = {}
        <3>1. nodeSlot'[n] = nodeSlot[n] /\ nodeSlot[n] \in Slots /\ nodeSlot[n] # Nil
            BY <1>2, <2>4 DEF IInv, TypeOK
        <3>2. aReference[nodeSlot[n]] = {}
            BY <3>1 DEF Sheltered, References
        <3>. QED  BY <1>3, <3>1, <3>2
    <2>5. \A m, n \in Nodes : nodeSlot'[m] # Nil /\ nodeSlot'[m] = nodeSlot'[n] => m = n
        BY <1>2 DEF Sheltered, References
    <2>. QED  BY <2>1, <2>2, <2>3, <2>4, <2>5 DEF References
<1>17. Confined'
    <2> SUFFICES ASSUME NEW d \in 1 .. pFrame PROVE \E U \in SUBSET Slots : Confines(U, d)'
        BY <1>1 DEF Confined
    <2>1. PICK T \in SUBSET Slots : Confines(T, d)
        BY DEF Sheltered, Confined
    <2>2. i \in T
        BY <1>1, <2>1 DEF Confines
    <2>3. \A t \in todo' : t[1] \in T
        <3> SUFFICES ASSUME NEW t \in Unsets(LostWith(i)) PROVE t[1] \in T
            BY <1>1, <2>1 DEF Confines
        <3>1. PICK c \in LostWith(i) : PartOf(t[1], c)
            BY <1>14
        <3>2. c \in Containers \ leaked /\ \A k \in Slots : slotVal[k] = c => k \in T
            BY <1>4, <2>2
        <3>3. t[1] \in Slots
            <4>1. t \in todo'
                BY <1>1
            <4>. QED  BY <4>1 DEF IInv, TypeOK
        <3>. QED  BY <2>1, <3>1, <3>2, <3>3 DEF Confines, Closed
    <2>4. Closed(T)'
        <3>1. Closed(T) /\ leaked \subseteq leaked'
            BY <1>1, <2>1 DEF Confines
        <3>2. \A c \in Containers \ leaked', k \in Slots :
                 slotVal[k] = c /\ k \notin T => slotVal'[k] = c /\ k \notin T
            BY <1>1, <2>2
        <3>3. \A c \in Containers \ leaked', k \in Slots :
                 PartOf(k, c)' => k \in T \/ (PartOf(k, c) /\ (k \in T => k \in T))
            BY <1>11
        <3>. QED  BY <3>1, <3>2, <3>3, ClosedStep
    <2>5. \A k \in T : ~ IsRoot(k, d)'
        BY <1>6, <2>1 DEF Confines
    <2>6. Confines(T, d)'
        BY <1>1, <2>1, <2>3, <2>4, <2>5 DEF Confines
    <2>. QED  BY <2>6
<1>. QED  BY <1>8, <1>9, <1>10, <1>12, <1>13, <1>16, <1>17 DEF Sheltered

(***************************************************************************)
(* Stores, elements and instances.                                         *)
(***************************************************************************)
\* A statement that gives containers new parts, in slots it reserved, and lets
\* no slot but those of leaked containers forget what it refers to.
LEMMA GrowSheltered ==
    ASSUME IInv, IInv', Sheltered, leaving = 0, leaving' = 0, todo' = {}, pFrame' = pFrame,
           UNCHANGED <<hVar, loose, sLocal, static, operand>>,
           NEW new \in SUBSET Slots, \A i \in new : ~ Live(i),
           \A k \in Slots : Live(k) => Live(k)',
           \A k \in Slots : ~ Live(k)' => slotVal'[k] = Nil,
           \A k \in Slots : slotVal[k] # Nil => slotVal'[k] = slotVal[k] \/ slotVal[k] \in leaked',
           leaked \subseteq leaked',
           \A k \in Slots, c \in Containers : PartOf(k, c)' =>
              PartOf(k, c) \/ (k \in new /\ \E j \in Slots : slotVal'[j] = c),
           References'
    PROVE  Sheltered'
<1>0. pFrame \in Int /\ \A c \in Containers : c # Nil
    BY MemObjAssumption DEF IInv, TypeOK, Containers
<1>1. \A k \in Slots, d \in Int : IsRoot(k, d)' => IsRoot(k, d)
    BY DEF IsRoot
<1>2. RootsLive'
    <2> SUFFICES ASSUME NEW k \in Slots, NEW d \in Int, d = pFrame, IsRoot(k, d)' PROVE Live(k)'
        BY <1>0 DEF RootsLive, IsRoot
    <2>. QED  BY <1>1 DEF Sheltered, RootsLive
<1>3. FreeBlank'
    BY DEF FreeBlank
<1>4. OperandsHeld'
    <2> SUFFICES ASSUME NEW d \in Depths, operand[d] # Nil, operand[d].val # Nil
                 PROVE  slotVal'[operand[d].slot] = operand[d].val \/ operand[d].val \in leaked'
        BY DEF OperandsHeld
    <2>1. operand[d].slot \in Slots
        BY DEF IInv, TypeOK, Loaded
    <2>2. slotVal[operand[d].slot] = operand[d].val \/ operand[d].val \in leaked
        BY DEF Sheltered, OperandsHeld
    <2>. QED  BY <2>1, <2>2
<1>5. PartsHeld'
    <2> SUFFICES ASSUME NEW c \in Containers, NEW k \in Slots, PartOf(k, c)', c \notin leaked'
                 PROVE  \E j \in Slots : slotVal'[j] = c
        BY DEF PartsHeld, Containers
    <2>1. CASE PartOf(k, c)
        <3>1. PICK j \in Slots : slotVal[j] = c
            BY <2>1 DEF Sheltered, PartsHeld
        <3>. QED  BY <1>0, <3>1
    <2>. QED  BY <2>1
<1>6. Above'
    BY DEF Sheltered, Above
<1>7. ASSUME NEW d \in 1 .. pFrame', d < pFrame'
      PROVE  \E U \in SUBSET Slots : Confines(U, d)'
    <2>0. d \in 1 .. pFrame /\ d \in Int /\ d <= pFrame
        BY <1>0, <1>7
    <2>1. PICK T \in SUBSET Slots : Confines(T, d)
        BY <2>0 DEF Sheltered, Confined
    <2> DEFINE U == T \cup new
    <2>2. \A k \in U : ~ IsRoot(k, d)'
        <3>1. \A k \in new : ~ IsRoot(k, d)
            BY <2>0, FreshSlot
        <3>. QED  BY <1>1, <2>0, <2>1, <3>1 DEF Confines
    <2>3. \A e \in Depths : e > d => sLocal'[e] \subseteq U
        BY <2>1 DEF Confines
    <2>4. Closed(U)'
        <3>1. Closed(T) /\ leaked \subseteq leaked'
            BY <2>1 DEF Confines
        <3>2. \A k \in new : slotVal[k] = Nil
            BY DEF Sheltered, FreeBlank
        <3>3. \A c \in Containers \ leaked', k \in Slots :
                 slotVal[k] = c /\ k \notin T => slotVal'[k] = c /\ k \notin U
            BY <1>0, <3>2
        <3>4. \A c \in Containers \ leaked', k \in Slots :
                 PartOf(k, c)' => k \in U \/ (PartOf(k, c) /\ (k \in T => k \in U))
            OBVIOUS
        <3> HIDE DEF U
        <3>. QED  BY <3>1, <3>3, <3>4, ClosedStep
    <2>5. U \in SUBSET Slots
        OBVIOUS
    <2> HIDE DEF U
    <2>6. Confines(U, d)'
        BY <2>2, <2>3, <2>4 DEF Confines
    <2>. QED  BY <2>5, <2>6
<1>8. Confined'
    BY <1>5, <1>6, <1>7, ConfinedStep
<1>. QED  BY <1>2, <1>3, <1>4, <1>5, <1>6, <1>8 DEF Sheltered

\* Adding an element to an array.
LEMMA ArrayInsertSheltered ==
    ASSUME IInv, IInv', Sheltered, NEW a \in Arrays, NEW n \in Nodes, NEW i \in Slots,
           NEW v \in Instances \cup {Nil}, ArrayInsert(a, n, i, v)
    PROVE  Sheltered'
<1>0. /\ leaving = 0 /\ leaving' = 0 /\ todo = {} /\ todo' = {} /\ pFrame' = pFrame
      /\ UNCHANGED <<hVar, loose, sLocal, static, operand, leaked, attr>>
      /\ \E s \in Reachable : slotVal[s] = a
      /\ nodeArr[n] = Nil
      /\ slotVal' = [slotVal EXCEPT ![i] = v]
      /\ nodeArr' = [nodeArr EXCEPT ![n] = a]
      /\ nodeSlot' = [nodeSlot EXCEPT ![n] = i]
      /\ aMemObj' = aMemObj \cup {i}
      /\ aReference' = [aReference EXCEPT ![i] = @ \cup {}]
      /\ aArrEntries' = [aArrEntries EXCEPT ![i] = @ \cup {n}]
    BY DEF ArrayInsert, Statement, Idle, Reserve, RefObjInstall, frameVars
<1>1. aFreeObj[i] > 0 \/ i \notin aMemObj
    BY DEF ArrayInsert, Reserve, CanReserve
<1>2. ~ Live(i)
    BY <1>1 DEF Live, IInv, TypeOK
<1>3. /\ aFreeObj'[i] = 0 /\ \A k \in Slots \ {i} : aFreeObj'[k] = aFreeObj[k]
      /\ \A m \in Nodes : nodeSlot[m] # i
      /\ \A o \in Instances : attr[o] # i
    BY <1>1, Reservable DEF ArrayInsert, Reserve
<1>4. slotVal[i] = Nil /\ aReference[i] = {} /\ \A d \in Depths : i \notin sLocal[d]
    BY <1>0, <1>2, FreshSlot
<1>5. /\ aReference' = aReference
      /\ \A k \in Slots : k # i => aArrEntries'[k] = aArrEntries[k]
      /\ \A k \in Slots : slotVal'[k] = IF k = i THEN v ELSE slotVal[k]
      /\ \A m \in Nodes : nodeArr'[m] = IF m = n THEN a ELSE nodeArr[m]
      /\ \A m \in Nodes : nodeSlot'[m] = IF m = n THEN i ELSE nodeSlot[m]
    BY <1>0 DEF IInv, TypeOK
<1>6. Live(i)' /\ \A k \in Slots : k # i => (Live(k)' <=> Live(k))
    BY <1>0, <1>3 DEF Live
<1>7. PICK s \in Slots : slotVal[s] = a
    <2>1. Reachable \subseteq Slots
        BY DEF Reachable, VisibleVars, LiveAttrs, IInv, TypeOK
    <2>. QED  BY <1>0, <2>1
<1>8. \A k \in Slots, c \in Containers : PartOf(k, c)' =>
         PartOf(k, c) \/ (k = i /\ \E j \in Slots : slotVal'[j] = c)
    <2>1. slotVal'[s] = a
        BY <1>4, <1>5, <1>7, MemObjAssumption
    <2> SUFFICES ASSUME NEW k \in Slots, NEW c \in Containers, PartOf(k, c)'
                 PROVE  PartOf(k, c) \/ (k = i /\ c = a)
        BY <2>1
    <2>. QED  BY <1>0, <1>5 DEF PartOf
<1>9. References'
    <2>1. \A d \in Depths : \A k \in sLocal'[d] : k \in Slots /\ k # i /\ k \in sLocal[d]
        BY <1>0, <1>4 DEF IInv, TypeOK
    <2>2. \A o \in Instances : attr'[o] # Nil => attr'[o] \in Slots /\ attr'[o] # i
        BY <1>0, <1>3 DEF IInv, TypeOK
    <2>3. \A m \in Nodes : nodeSlot'[m] # Nil => aReference'[nodeSlot'[m]] = {}
        BY <1>4, <1>5 DEF Sheltered, References
    <2>4. \A l, m \in Nodes : nodeSlot'[l] # Nil /\ nodeSlot'[l] = nodeSlot'[m] => l = m
        BY <1>3, <1>5 DEF Sheltered, References
    <2>. QED  BY <1>0, <1>5, <2>1, <2>2, <2>3, <2>4 DEF Sheltered, References
<1>10. PICK new \in SUBSET Slots : new = {i}
    OBVIOUS
<1>11. \A k \in Slots : ~ Live(k)' => slotVal'[k] = Nil
    BY <1>5, <1>6 DEF Sheltered, FreeBlank
<1>12. \A k \in Slots : slotVal[k] # Nil => slotVal'[k] = slotVal[k] \/ slotVal[k] \in leaked'
    BY <1>4, <1>5
<1>13. \A k \in Slots, c \in Containers : PartOf(k, c)' =>
          PartOf(k, c) \/ (k \in new /\ \E j \in Slots : slotVal'[j] = c)
    BY <1>8, <1>10
<1>14. \A k \in new : ~ Live(k)
    BY <1>2, <1>10
<1>15. \A k \in Slots : Live(k) => Live(k)'
    BY <1>6
<1>. QED  BY <1>0, <1>9, <1>11, <1>12, <1>13, <1>14, <1>15, GrowSheltered

\* Storing over a slot that held nothing, the same container, or an array that
\* is leaked from now on.
LEMMA StoreSheltered ==
    ASSUME IInv, IInv', Sheltered, leaving = 0, leaving' = 0, NEW t \in VisibleVars, NEW x,
           slotVal' = [slotVal EXCEPT ![t] = x],
           slotVal[t] = Nil \/ slotVal[t] = x \/ slotVal[t] \in leaked',
           leaked \subseteq leaked', todo' = {}, attr' = attr,
           UNCHANGED <<poolVars, refVars, frameVars, nodeArr, nodeSlot, static, operand>>
    PROVE  Sheltered'
<1>0. t \in Slots /\ Live(t)
    <2>1. t \in Slots
        BY DEF VisibleVars
    <2>2. t \in Lvalues
        BY DEF Lvalues, Reachable
    <2>. QED  BY <2>1, <2>2, LvalueLive
<1>1. \A k \in Slots : slotVal'[k] = IF k = t THEN x ELSE slotVal[k]
    BY <1>0 DEF IInv, TypeOK
<1>2. \A k \in Slots : Live(k)' <=> Live(k)
    BY DEF Live
<1>3. \A k \in Slots, c \in Containers : PartOf(k, c)' => PartOf(k, c)
    BY DEF PartOf
<1>4. References'
    BY DEF Sheltered, References, frameVars
<1>5. PICK new \in SUBSET Slots : new = {}
    OBVIOUS
<1>6. \A k \in Slots : ~ Live(k)' => slotVal'[k] = Nil
    BY <1>0, <1>1, <1>2 DEF Sheltered, FreeBlank
<1>7. \A k \in Slots : slotVal[k] # Nil => slotVal'[k] = slotVal[k] \/ slotVal[k] \in leaked'
    BY <1>1
<1>8. \A k \in Slots, c \in Containers : PartOf(k, c)' =>
         PartOf(k, c) \/ (k \in new /\ \E j \in Slots : slotVal'[j] = c)
    BY <1>3
<1>9. \A k \in new : ~ Live(k)
    BY <1>5
<1>10. pFrame' = pFrame /\ UNCHANGED <<hVar, loose, sLocal, static, operand>>
    BY DEF frameVars
<1>. QED  BY <1>2, <1>4, <1>6, <1>7, <1>8, <1>9, <1>10, GrowSheltered

\* Storing an array over another one.
LEMMA AssignArraySheltered ==
    ASSUME IInv, IInv', Sheltered, NEW t \in Slots, NEW a \in Arrays, AssignArray(t, a)
    PROVE  Sheltered'
<1>1. /\ leaving = 0 /\ leaving' = 0 /\ t \in VisibleVars /\ slotVal[t] \in Arrays
      /\ StoreVal(slotVal, t, a)
      /\ leaked' = leaked \cup {slotVal[t]}
      /\ UNCHANGED <<poolVars, refVars, frameVars, nodeArr, nodeSlot, attr, static, operand>>
    BY DEF AssignArray, Statement, Idle
<1>2. Overwritten(slotVal, t, a) = {}
    BY <1>1, MemObjAssumption DEF Overwritten, Lost
<1>3. slotVal' = [slotVal EXCEPT ![t] = a] /\ todo' = {}
    BY <1>1, <1>2 DEF StoreVal, Unsets, ElementsIn, IInv, TypeOK
<1>. QED  BY <1>1, <1>3, StoreSheltered

\* Sharing an instance: as long as pure holds, none is stored over.
LEMMA AssignSheltered ==
    ASSUME IInv, IInv', Sheltered, pure', NEW s \in Slots, NEW t \in Slots, Assign(s, t)
    PROVE  Sheltered'
<1>1. /\ leaving = 0 /\ leaving' = 0 /\ t \in VisibleVars
      /\ slotVal[t] \in {Nil} \cup Instances /\ slotVal[s] \in Instances
      /\ StoreVal(slotVal, t, slotVal[s])
      /\ attr' = Kept(Overwritten(slotVal, t, slotVal[s]))
      /\ leaked' = leaked
      /\ UNCHANGED <<poolVars, refVars, frameVars, nodeArr, nodeSlot, static, operand>>
    BY DEF Assign, Statement, Idle
<1>2. slotVal[t] = Nil \/ slotVal[t] = slotVal[s]
    BY <1>1 DEF StoreVal
<1>3. Overwritten(slotVal, t, slotVal[s]) = {}
    <2>1. slotVal[s] \in Held([slotVal EXCEPT ![t] = slotVal[s]], operand)
        BY DEF Held, IInv, TypeOK
    <2>. QED  BY <1>2, <2>1 DEF Overwritten, Lost
<1>4. slotVal' = [slotVal EXCEPT ![t] = slotVal[s]] /\ todo' = {}
    BY <1>1, <1>3 DEF StoreVal, Unsets, ElementsIn, IInv, TypeOK
<1>5. attr' = attr
    BY <1>1, <1>3 DEF Kept, IInv, TypeOK
<1>6. PICK x : x = slotVal[s]
    OBVIOUS
<1>7. /\ slotVal' = [slotVal EXCEPT ![t] = x]
      /\ slotVal[t] = Nil \/ slotVal[t] = x \/ slotVal[t] \in leaked'
      /\ leaked \subseteq leaked'
    BY <1>1, <1>2, <1>4, <1>6
<1>. QED  BY <1>1, <1>4, <1>5, <1>7, StoreSheltered

\* Creating an instance in a variable that held none: its attribute is new.
LEMMA NewInstanceSheltered ==
    ASSUME IInv, IInv', Sheltered, pure', NEW s \in Slots, NEW o \in Instances, NEW i \in Slots,
           NEW j \in Slots, NEW v \in Arrays \cup {Nil}, NewInstance(s, o, i, j, v)
    PROVE  Sheltered'
<1> DEFINE slots == [slotVal EXCEPT ![i] = v, ![j] = Nil]
<1>1. /\ leaving = 0 /\ leaving' = 0 /\ todo = {} /\ pFrame' = pFrame
      /\ UNCHANGED <<hVar, loose, sLocal, static, operand, nodeArr, nodeSlot, leaked>>
      /\ o \notin HeldInstances /\ attr[o] = Nil
      /\ s \in VisibleVars /\ slotVal[s] \in {Nil} \cup Instances
      /\ CanReserve(aFreeObj, aMemObj, i)
      /\ CanReserve(Taken(aFreeObj, i), aMemObj \cup {i}, j)
      /\ aFreeObj' = Taken(Taken(aFreeObj, i), j)
      /\ aMemObj' = aMemObj \cup {i, j}
      /\ RefObjInstall(i, {}, {}, TRUE)
      /\ StoreVal(slots, s, o)
      /\ attr' = [Kept(Overwritten(slots, s, o)) EXCEPT ![o] = i]
    BY DEF NewInstance, Statement, Idle, ReserveTwo, frameVars
<1>2. /\ \A p \in Instances : attr[p] # i
      /\ \A n \in Nodes : nodeSlot[n] # i
      /\ Taken(aFreeObj, i) \in [Slots -> Nat] /\ Taken(aFreeObj, i)[i] = 0
      /\ \A k \in Slots \ {i} : Taken(aFreeObj, i)[k] = aFreeObj[k]
      /\ aFreeObj[i] > 0 \/ i \notin aMemObj
    BY <1>1, Reservable DEF CanReserve
<1>3. i # j /\ (aFreeObj[j] > 0 \/ j \notin aMemObj)
    BY <1>1, <1>2 DEF CanReserve, IInv, TypeOK
<1>4. /\ aFreeObj'[i] = 0 /\ aFreeObj'[j] = 0
      /\ \A k \in Slots \ {i, j} : aFreeObj'[k] = aFreeObj[k]
    <2>1. aFreeObj[j] <= 1 /\ aFreeObj[j] \in Nat /\ Taken(aFreeObj, i)[j] = aFreeObj[j]
        BY <1>2, <1>3 DEF IInv, TypeOK, FreeListSound
    <2>. QED  BY <1>1, <1>2, <1>3, <2>1 DEF Taken
<1>5. ~ Live(i) /\ ~ Live(j)
    BY <1>2, <1>3 DEF Live, IInv, TypeOK
<1>6. /\ Live(i)' /\ Live(j)'
      /\ \A k \in Slots : k # i /\ k # j => (Live(k)' <=> Live(k))
    BY <1>1, <1>4 DEF Live
<1>7. /\ slotVal[i] = Nil /\ slotVal[j] = Nil
      /\ aReference[i] = {} /\ aArrEntries[i] = {}
    BY <1>1, <1>5, FreshSlot
<1>8. Live(s) /\ s # i /\ s # j
    <2>1. s \in Lvalues
        BY <1>1 DEF Lvalues, Reachable
    <2>. QED  BY <1>5, <2>1, LvalueLive
<1>9. slots[s] = slotVal[s] /\ \A k \in Slots : slots[k] = IF k = i THEN v ELSE slotVal[k]
    BY <1>3, <1>7, <1>8 DEF IInv, TypeOK
<1>10. slotVal[s] = Nil
    <2>1. slotVal[s] # o
        BY <1>1 DEF HeldInstances, Held
    <2>2. slots[s] \notin Instances \ {o}
        BY <1>1 DEF StoreVal
    <2>. QED  BY <1>1, <1>9, <2>1, <2>2
<1>11. Overwritten(slots, s, o) = {}
    BY <1>9, <1>10 DEF Overwritten, Lost
<1>12. todo' = {}
    BY <1>1, <1>11 DEF StoreVal, Unsets, ElementsIn
<1>13. \A k \in Slots : slotVal'[k] = IF k = s THEN o ELSE IF k = i THEN v ELSE slotVal[k]
    <2>1. slots \in [Slots -> Arrays \cup Instances \cup {Nil}]
        BY DEF IInv, TypeOK
    <2>2. slotVal' = [slots EXCEPT ![s] = o]
        BY <1>1 DEF StoreVal
    <2> HIDE DEF slots
    <2>. QED  BY <1>9, <2>1, <2>2
<1>14. \A p \in Instances : attr'[p] = IF p = o THEN i ELSE attr[p]
    BY <1>1, <1>11 DEF Kept
<1>15. aReference' = aReference /\ aArrEntries' = aArrEntries
    BY <1>1 DEF RefObjInstall, IInv, TypeOK
<1> HIDE DEF slots
<1>16. References'
    <2>1. \A p \in Instances : attr'[p] # Nil => aArrEntries[attr'[p]] = {} /\ aReference[attr'[p]] = {}
        BY <1>7, <1>14 DEF Sheltered, References
    <2>. QED  BY <1>1, <1>12, <1>15, <2>1 DEF Sheltered, References
<1>17. \A k \in Slots : ~ Live(k)' => slotVal'[k] = Nil
    BY <1>6, <1>8, <1>13 DEF Sheltered, FreeBlank
<1>18. \A k \in Slots : slotVal[k] # Nil => slotVal'[k] = slotVal[k] \/ slotVal[k] \in leaked'
    BY <1>7, <1>10, <1>13
<1>19. PICK new \in SUBSET Slots : new = {i}
    OBVIOUS
<1>20. \A k \in Slots, c \in Containers : PartOf(k, c)' =>
          PartOf(k, c) \/ (k \in new /\ \E m \in Slots : slotVal'[m] = c)
    <2>1. slotVal'[s] = o
        BY <1>13
    <2> SUFFICES ASSUME NEW k \in Slots, NEW c \in Containers, PartOf(k, c)'
                 PROVE  PartOf(k, c) \/ (k = i /\ c = o)
        BY <1>19, <2>1
    <2>. QED  BY <1>1, <1>14 DEF PartOf
<1>21. \A k \in new : ~ Live(k)
    BY <1>5, <1>19
<1>22. \A k \in Slots : Live(k) => Live(k)'
    BY <1>6
<1>23. leaked \subseteq leaked'
    BY <1>1
<1>. QED  BY <1>1, <1>12, <1>16, <1>17, <1>18, <1>20, <1>21, <1>22, <1>23, GrowSheltered

(***************************************************************************)
(* The inductive step, and what follows from it.                           *)
(***************************************************************************)
PureInv == pure => Sheltered

\* Nothing is bound at the start.
LEMMA InitPure == Init => PureInv
<1> SUFFICES ASSUME Init PROVE Sheltered
    BY DEF PureInv
<1>1. /\ static = Nil /\ todo = {} /\ leaving = 0 /\ loose = {} /\ pFrame = 1
      /\ \A e \in Entry : hVar[e] = Nil
      /\ \A d \in Depths : operand[d] = Nil /\ sLocal[d] = {}
      /\ \A i \in Slots : slotVal[i] = Nil
      /\ \A n \in Nodes : nodeArr[n] = Nil /\ nodeSlot[n] = Nil
      /\ \A o \in Instances : attr[o] = Nil
    BY DEF Init
<1>2. \A i \in Slots, d \in Int : ~ IsRoot(i, d)
    BY <1>1, MemObjAssumption DEF IsRoot
<1>3. \A i \in Slots, c \in Containers : ~ PartOf(i, c)
    BY <1>1, MemObjAssumption DEF PartOf, Containers
<1>4. RootsLive /\ FreeBlank /\ OperandsHeld /\ PartsHeld
    BY <1>1, <1>2, <1>3 DEF RootsLive, FreeBlank, OperandsHeld, PartsHeld
<1>5. Above /\ References
    BY <1>1 DEF Above, References
<1>6. Confined
    <2>1. \A d \in 1 .. pFrame : Confines({}, d)
        BY <1>1, <1>3 DEF Confines, Closed
    <2>. QED  BY <2>1 DEF Confined
<1>. QED  BY <1>4, <1>5, <1>6 DEF Sheltered

\* Every step of a script that destroys nothing itself preserves the invariant.
LEMMA NextPure == IInv /\ PureInv /\ [Next]_vars => PureInv'
<1> SUFFICES ASSUME IInv, PureInv, [Next]_vars, pure' PROVE Sheltered'
    BY DEF PureInv
<1>0. IInv'
    BY NextInv
<1>1. CASE UNCHANGED vars
    <2>1. UNCHANGED <<poolVars, slotVal, refVars, frameVars, arrayVars, attr, static,
                      operand, unsetVars>>
        BY <1>1 DEF vars
    <2>2. Sheltered
        BY <2>1 DEF PureInv
    <2>3. RootsLive' /\ FreeBlank' /\ OperandsHeld' /\ PartsHeld'
        BY <2>1, <2>2 DEF Sheltered, RootsLive, FreeBlank, OperandsHeld, PartsHeld, IsRoot, Live,
                          PartOf, Containers, frameVars
    <2>4. Above' /\ References'
        BY <2>1, <2>2 DEF Sheltered, Above, References, frameVars
    <2>5. Confined'
        <3> SUFFICES ASSUME NEW d \in 1 .. pFrame PROVE \E U \in SUBSET Slots : Confines(U, d)'
            BY <2>1 DEF Confined, frameVars
        <3>1. PICK T \in SUBSET Slots : Confines(T, d)
            BY <2>2 DEF Sheltered, Confined
        <3>2. Confines(T, d)'
            BY <2>1, <3>1 DEF Confines, Closed, IsRoot, PartOf, frameVars
        <3>. QED  BY <3>2
    <2>. QED  BY <2>3, <2>4, <2>5 DEF Sheltered
<1>2. ASSUME NEW d \in {0, 1}, NEW n \in Names, NEW i \in Slots, ConfigCreate(d, n, i)
      PROVE  Sheltered'
    BY <1>0, <1>2, ConfigCreateSheltered DEF ConfigCreate, PureInv
<1>3. ASSUME NEW n \in Names, NEW i \in Slots, NEW v \in Arrays \cup {Nil}, Declare(n, i, v)
      PROVE  Sheltered'
    BY <1>0, <1>3, DeclareSheltered DEF Declare, PureInv
<1>4. ASSUME NEW n \in Names, NEW i \in Slots, NEW v \in Arrays \cup Instances \cup {Nil},
             CallByValue(n, i, v)
      PROVE  Sheltered'
    BY <1>0, <1>4, CallByValueSheltered DEF CallByValue, PureInv
<1>5. ASSUME NEW n \in Names, NEW typed \in BOOLEAN, CallByRef(n, typed) PROVE Sheltered'
    BY <1>0, <1>5, CallByRefSheltered DEF CallByRef, PureInv
<1>6. ASSUME NEW n \in Names, CallStatic(n) PROVE Sheltered'
    BY <1>0, <1>6, CallStaticSheltered DEF CallStatic, PureInv
<1>7. ASSUME NEW k \in BlockKinds, EnterBlock(k) PROVE Sheltered'
    BY <1>0, <1>7, EnterBlockSheltered DEF EnterBlock, PureInv
<1>8. ASSUME NEW n \in Names, NEW i \in Slots, NEW v \in Instances \cup {Nil}, EnterCatch(n, i, v)
      PROVE  Sheltered'
    BY <1>0, <1>8, EnterCatchSheltered DEF EnterCatch, PureInv
<1>9. ASSUME NEW t \in todo, UnsetMemObj(t[1], t[2]) PROVE Sheltered'
    <2>1. t[1] \in Slots /\ t[2] \in {0, 1}
        BY DEF IInv, TypeOK
    <2>2. pure
        BY <1>9 DEF UnsetMemObj
    <2>. QED  BY <1>0, <1>9, <2>1, <2>2, UnsetMemObjSheltered DEF PureInv
<1>10. ASSUME NEW i \in Slots, Load(i) PROVE Sheltered'
    BY <1>0, <1>10, LoadSheltered DEF Load, PureInv
<1>11. ASSUME NEW i \in Slots, Unset(i) PROVE Sheltered'
    BY <1>11 DEF Unset
<1>12. ASSUME NEW a \in Arrays, NEW n \in Nodes, NEW i \in Slots, NEW v \in Instances \cup {Nil},
              ArrayInsert(a, n, i, v)
       PROVE  Sheltered'
    BY <1>0, <1>12, ArrayInsertSheltered DEF ArrayInsert, PureInv
<1>13. ASSUME NEW n \in Nodes, ArrayRemove(n) PROVE Sheltered'
    BY <1>13 DEF ArrayRemove
<1>14. ASSUME NEW s \in Slots, NEW o \in Instances, NEW i \in Slots, NEW j \in Slots,
              NEW v \in Arrays \cup {Nil}, NewInstance(s, o, i, j, v)
       PROVE  Sheltered'
    BY <1>0, <1>14, NewInstanceSheltered DEF NewInstance, StoreVal, PureInv
<1>15. ASSUME NEW s \in Slots, NEW t \in Slots, Assign(s, t) PROVE Sheltered'
    BY <1>0, <1>15, AssignSheltered DEF Assign, StoreVal, PureInv
<1>16. ASSUME NEW t \in Slots, NEW a \in Arrays, AssignArray(t, a) PROVE Sheltered'
    BY <1>0, <1>16, AssignArraySheltered DEF AssignArray, StoreVal, PureInv
<1>17. CASE Call
    BY <1>0, <1>17, CallSheltered DEF Call, PureInv
<1>18. CASE Pop
    BY <1>0, <1>18, PopSheltered DEF Pop, PureInv
<1>19. CASE LeaveFrame
    BY <1>0, <1>19, LeaveFrameSheltered DEF LeaveFrame, PureInv
<1>20. CASE FinishLeave
    BY <1>0, <1>20, FinishLeaveSheltered DEF FinishLeave, PureInv
<1>. QED  BY <1>1, <1>2, <1>3, <1>4, <1>5, <1>6, <1>7, <1>8, <1>9, <1>10, <1>11, <1>12, <1>13,
             <1>14, <1>15, <1>16, <1>17, <1>18, <1>19, <1>20 DEF Next

\* While a frame is torn down, only destructions run.
LEMMA TearDown ==
    ASSUME IInv, PureInv, pure, leaving # 0, [Next]_vars
    PROVE  OuterKept
<1>1. CASE UNCHANGED vars
    BY <1>1 DEF vars, frameVars, OuterKept, OuterVars, OuterNodes
<1>2. ASSUME NEW t \in todo, UnsetMemObj(t[1], t[2]) PROVE OuterKept
    <2>1. PICK i \in Slots, force \in {0, 1} : UnsetMemObj(i, force)
        BY <1>2 DEF IInv, TypeOK
    <2>2. Destroys(i, force)
        BY <2>1, UnsetFacts DEF PureInv
    <2>3. /\ leaving = pFrame + 1 /\ ~ IsRoot(i, pFrame)
          /\ \A e \in Entries(i) : e \in Entry /\ e[1] = leaving
          /\ \A e \in Entry : hVar'[e] = IF e \in Entries(i) THEN Nil ELSE hVar[e]
          /\ \A n \in Nodes : nodeArr'[n] = IF n \in ElementsIn(LostWith(i)) THEN Nil ELSE nodeArr[n]
        BY <2>2 DEF Destroys
    <2>4. \A e \in OuterVars : hVar[e] \in Slots /\ hVar[e] # i
        <3> SUFFICES ASSUME NEW e \in OuterVars PROVE hVar[e] \in Slots /\ hVar[e] # i
            OBVIOUS
        <3>1. e \in Entry /\ e[1] # leaving /\ hVar[e] # Nil
            BY DEF OuterVars
        <3>2. e[1] <= pFrame
            <4>1. ~ (e[1] > pFrame)
                BY <3>1 DEF IInv, FramesSound
            <4>2. e[1] \in Int /\ pFrame \in Int
                BY DEF IInv, TypeOK, OuterVars, Entry, Depths
            <4>. QED  BY <4>1, <4>2
        <3>. QED  BY <2>3, <3>1, <3>2 DEF IsRoot, IInv, TypeOK
    <2>5. \A e \in OuterVars : hVar'[e] = hVar[e]
        BY <2>3 DEF OuterVars
    <2>6. \A n \in OuterNodes : nodeArr'[n] = nodeArr[n]
        <3> SUFFICES ASSUME NEW n \in OuterNodes, n \in ElementsIn(LostWith(i)) PROVE FALSE
            BY <2>3 DEF OuterNodes
        <3>1. PICK e \in OuterVars : slotVal[hVar[e]] = nodeArr[n]
            BY DEF OuterNodes
        <3>2. nodeArr[n] \in LostWith(i)
            BY DEF ElementsIn
        <3>3. \A k \in Slots : slotVal[k] = nodeArr[n] => k = i
            BY <3>2, LostFacts
        <3>. QED  BY <2>4, <3>1, <3>3
    <2>. QED  BY <2>5, <2>6 DEF OuterKept
<1>3. CASE FinishLeave
    <2>1. /\ hVar' = [e \in Entry |-> IF e[1] = leaving THEN Nil ELSE hVar[e]]
          /\ nodeArr' = nodeArr
        BY <1>3 DEF FinishLeave, BlankLevel
    <2>. QED  BY <2>1 DEF OuterKept, OuterVars
<1>4. Next => \/ \E t \in todo : UnsetMemObj(t[1], t[2])
              \/ FinishLeave
    BY ZenonT(60) DEF Next, ConfigCreate, Declare, Call, CallByValue, CallByRef, CallStatic, EnterBlock,
           EnterCatch, LeaveFrame, Load, Pop, Unset, ArrayInsert, ArrayRemove, NewInstance,
           Assign, AssignArray, Statement, Idle
<1>. QED  BY <1>1, <1>2, <1>3, <1>4

\* As long as a script unsets nothing and stores over no instance, what its
\* frames rely on is out of reach of the frames above them.
THEOREM PureInvariance == Spec => [](IInv /\ PureInv)
<1>1. Init => IInv /\ PureInv
    BY InitInv, InitPure
<1>2. (IInv /\ PureInv) /\ [Next]_vars => (IInv /\ PureInv)'
    BY NextInv, NextPure
<1>. QED  BY <1>1, <1>2, PTL DEF Spec

\* No variable of any frame, parameter handed on by reference, static variable
\* or pending operand ever names a slot on the free list (PH7_VmUnsetMemObj,
\* VmLeaveFrame).
THEOREM BindingsAreLive == Spec => []PureBindingsLive
<1>1. IInv /\ PureInv => PureBindingsLive
    <2> SUFFICES ASSUME IInv, Sheltered PROVE PureBindingsLive
        BY DEF PureInv, PureBindingsLive
    <2>0. pFrame \in Int /\ \A d \in Depths : d \in Int
        BY DEF IInv, TypeOK, Depths
    <2>1. ASSUME NEW d \in Depths, operand[d] # Nil PROVE aFreeObj[operand[d].slot] = 0
        <3>1. d <= pFrame
            BY <2>0, <2>1 DEF Sheltered, Above
        <3>2. operand[d].slot \in Slots
            BY <2>1 DEF IInv, TypeOK, Loaded
        <3>3. IsRoot(operand[d].slot, pFrame)
            BY <2>1, <3>1 DEF IsRoot
        <3>. QED  BY <3>2, <3>3 DEF Sheltered, RootsLive, Live
    <2>2. ASSUME NEW e \in Entry, hVar[e] # Nil PROVE aFreeObj[hVar[e]] = 0
        <3>1. hVar[e] \in Slots /\ e[1] \in Int
            BY <2>2 DEF IInv, TypeOK, Entry, Depths
        <3>2. e[1] <= pFrame + 1
            <4>1. ~ (e[1] > pFrame) \/ e[1] = leaving
                BY <2>2 DEF IInv, FramesSound
            <4>2. leaving = 0 \/ leaving = pFrame + 1
                BY DEF IInv, FramesSound
            <4>3. pFrame >= 1
                BY DEF IInv, TypeOK
            <4>. QED  BY <2>0, <3>1, <4>1, <4>2, <4>3
        <3>3. CASE e[1] <= pFrame \/ e \in loose
            <4>1. IsRoot(hVar[e], pFrame)
                BY <3>2, <3>3 DEF IsRoot
            <4>. QED  BY <3>1, <4>1 DEF Sheltered, RootsLive, Live
        <3>4. CASE e \notin loose
            <4>1. hVar[e] \in installed
                BY <2>2, <3>4 DEF IInv, SymbolsBacked
            <4>. QED  BY <3>1, <4>1 DEF IInv, FreeListSound, TypeOK
        <3>. QED  BY <3>3, <3>4
    <2>. QED  BY <2>1, <2>2 DEF PureBindingsLive
<1>. QED  BY <1>1, PureInvariance, PTL

\* VmLeaveFrame takes no variable and no array element away from another frame.
THEOREM LeaveKeepsOuter == Spec => PureLeaveKeepsOuter
<1>1. (IInv /\ PureInv) /\ [Next]_vars => [(leaving # 0 /\ pure) => OuterKept]_vars
    BY TearDown
<1>. QED  BY <1>1, PureInvariance, PTL DEF Spec, PureLeaveKeepsOuter
=============================================================================
