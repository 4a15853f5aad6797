------------------------------- MODULE Engine -------------------------------
(***************************************************************************)
(* The library, its engines and their virtual machines (api.c, and the      *)
(* states of a VM in vm.c).  The library links its engines, an engine links  *)
(* the VMs it has compiled a script for, and both count what they link: a   *)
(* release walks the list as many steps as the count says, without looking  *)
(* for its end.                                                             *)
(*                                                                          *)
(* The host calls the interface in any order its handles allow.  `misused`  *)
(* notes the calls that the interface accepts and that leave a count and    *)
(* its list apart.                                                          *)
(***************************************************************************)
EXTENDS DList, Integers, FiniteSets

CONSTANTS
    Engines,    \* addresses an engine can have
    Vms,        \* addresses a virtual machine can have
    MaxVm       \* VMs initialised in a behaviour (bound)

ASSUME EngineAssumption == Null \notin Engines \cup Vms /\ MaxVm \in Nat

VARIABLES
    library,    \* sMPGlobal.nMagic: never initialised, in use, shut down
    pEngines,   \* list of the engines
    nEngine,
    engine,     \* which engines are allocated
    pVms,       \* list of the VMs of each engine
    iVm,
    nMagic,     \* state of each VM, or free
    owner,      \* pEngine of each VM
    created,    \* VMs initialised so far
    misused,    \* engines whose count and list the host has set apart
    walk        \* how the walks of the releases went: all to the end, or not

vars == <<library, pEngines, nEngine, engine, pVms, iVm, nMagic, owner, created, misused,
          walk>>
engineVars == <<library, pEngines, nEngine, engine>>

VmStates == {"free", "init", "run", "exec"}

TypeOK ==
    /\ library \in {"new", "init", "shut"}
    /\ pEngines \in [head: Engines \cup {Null}, next: [Engines -> Engines \cup {Null}],
                     prev: [Engines -> Engines \cup {Null}]]
    /\ nEngine \in Int
    /\ engine \in SUBSET Engines
    /\ pVms \in [Engines -> [head: Vms \cup {Null}, next: [Vms -> Vms \cup {Null}],
                             prev: [Vms -> Vms \cup {Null}]]]
    /\ iVm \in [Engines -> Int]
    /\ nMagic \in [Vms -> VmStates]
    /\ owner \in [Vms -> Engines \cup {Null}]
    /\ created \in Nat
    /\ misused \in SUBSET Engines
    /\ walk \in {"ended", "strayed", "short"}

Init ==
    /\ library = "new" /\ pEngines = EmptyList(Engines) /\ nEngine = 0
    /\ engine = {}
    /\ pVms = [e \in Engines |-> EmptyList(Vms)]
    /\ iVm = [e \in Engines |-> 0]
    /\ nMagic = [v \in Vms |-> "free"]
    /\ owner = [v \in Vms |-> Null]
    /\ created = 0 /\ misused = {} /\ walk = "ended"

Allocated(e) == {v \in Vms : owner[v] = e /\ nMagic[v] # "free"}
Compiled(e) == {v \in Allocated(e) : nMagic[v] # "init"}

-----------------------------------------------------------------------------
\* ph7_init, with the automatic PH7CoreInitialize.  (A failed allocation
\* changes nothing.)  A library that was shut down still points to its last
\* engines, so it is not initialised again unless it had none.
ph7_init(e) ==
    /\ e \notin engine
    /\ library = "shut" => pEngines.head = Null
    /\ library' = "init"
    /\ engine' = engine \cup {e}
    /\ pEngines' = PushItem(Zeroed(pEngines, e), e)
    /\ nEngine' = nEngine + 1
    /\ pVms' = [pVms EXCEPT ![e] = EmptyList(Vms)]
    /\ iVm' = [iVm EXCEPT ![e] = 0]
    /\ misused' = misused \ {e}
    /\ UNCHANGED <<nMagic, owner, created, walk>>

\* ph7_vm_init and PH7_VmInit: the VM is not linked yet.
ph7_vm_init(e, v) ==
    /\ e \in engine /\ nMagic[v] = "free" /\ created < MaxVm
    /\ created' = created + 1
    /\ nMagic' = [nMagic EXCEPT ![v] = "init"]
    /\ owner' = [owner EXCEPT ![v] = e]
    /\ UNCHANGED <<engineVars, pVms, iVm, misused, walk>>

VmCounted(e) == [iVm EXCEPT ![e] = @ + 1]

\* ProcessSourceFile: compiled, made ready (PH7_VmMakeReady), linked, counted.
Compile(v) ==
    /\ nMagic[v] = "init" /\ owner[v] \in engine
    /\ nMagic' = [nMagic EXCEPT ![v] = "run"]
    /\ LET e == owner[v]
       IN  /\ pVms' = [pVms EXCEPT ![e] = PushItem(Zeroed(@, v), v)]
           /\ iVm' = VmCounted(e)
    /\ UNCHANGED <<engineVars, owner, created, misused, walk>>

\* PH7_VmMakeReady fails: out of memory, or the VM was made ready before.  The
\* VM is freed, and stays linked if it was.
CompileFails(v) ==
    /\ nMagic[v] # "free" /\ owner[v] \in engine
    /\ nMagic' = [nMagic EXCEPT ![v] = "free"]
    /\ misused' = IF nMagic[v] = "init" THEN misused ELSE misused \cup {owner[v]}
    /\ UNCHANGED <<engineVars, pVms, iVm, owner, created, walk>>

\* ph7_vm_exec: once between resets.
ph7_vm_exec(v) ==
    /\ nMagic[v] = "run" /\ owner[v] \in engine
    /\ nMagic' = [nMagic EXCEPT ![v] = "exec"]
    /\ UNCHANGED <<engineVars, pVms, iVm, owner, created, misused, walk>>

\* ph7_vm_reset
ph7_vm_reset(v) ==
    /\ nMagic[v] \in {"run", "exec"} /\ owner[v] \in engine
    /\ nMagic' = [nMagic EXCEPT ![v] = "run"]
    /\ UNCHANGED <<engineVars, pVms, iVm, owner, created, misused, walk>>

\* ph7_vm_release: the count goes down whether or not the VM was linked.
ph7_vm_release(v) ==
    /\ nMagic[v] # "free" /\ owner[v] \in engine
    /\ LET e == owner[v]
       IN  /\ pVms' = [pVms EXCEPT ![e] = RemoveItem(@, v)]
           /\ iVm' = [iVm EXCEPT ![e] = @ - 1]
           /\ misused' = IF nMagic[v] = "init" THEN misused \cup {e} ELSE misused
    /\ nMagic' = [nMagic EXCEPT ![v] = "free"]
    /\ UNCHANGED <<engineVars, owner, created, walk>>

OneMore(e) == {Steps(pVms[e], iVm[e])[k] : k \in 0 .. iVm[e]}     \* mutant: iVm < 0 ends it

\* The VMs EngineRelease of e releases: iVm steps from the head.
Released(e) == {Steps(pVms[e], iVm[e] - 1)[k] : k \in 0 .. iVm[e] - 1}

\* A step from the last item, or through a VM that was freed.
Strays(e) == ~(Released(e) \subseteq Allocated(e))

\* The engines es and the memory they own, their VMs among it, are given back;
\* what a VM holds itself is given back only by its own release.
FreeEngines(es) ==
    /\ walk' = CASE \E e \in es \ misused : Strays(e) -> "strayed"
                 [] \E e \in es \ misused : ~(Compiled(e) \subseteq Released(e)) -> "short"
                 [] OTHER -> walk
    /\ nMagic' = [v \in Vms |-> IF owner[v] \in es THEN "free" ELSE nMagic[v]]
    /\ engine' = engine \ es

\* ph7_release
ph7_release(e) ==
    /\ e \in engine
    /\ FreeEngines({e})
    /\ pEngines' = RemoveItem(pEngines, e)
    /\ nEngine' = nEngine - 1
    /\ UNCHANGED <<library, pVms, iVm, owner, created, misused>>

\* ph7_lib_shutdown: also what a fatal error does before it leaves the process.
\* The pointer to the list of engines keeps its value.
ph7_lib_shutdown ==
    /\ library = "init"
    /\ LET at == Steps(pEngines, nEngine - 1)
           es == {at[k] : k \in 0 .. nEngine - 1}
       IN  IF es \subseteq engine THEN FreeEngines(es)
           ELSE walk' = "strayed" /\ UNCHANGED <<nMagic, engine>>
    /\ library' = "shut" /\ nEngine' = 0
    /\ UNCHANGED <<pEngines, pVms, iVm, owner, created, misused>>

Next ==
    \/ \E e \in Engines : ph7_init(e) \/ ph7_release(e)
    \/ \E e \in Engines, v \in Vms : ph7_vm_init(e, v)
    \/ \E v \in Vms : \/ Compile(v) \/ CompileFails(v) \/ ph7_vm_exec(v)
                      \/ ph7_vm_reset(v) \/ ph7_vm_release(v)
    \/ ph7_lib_shutdown

Spec == Init /\ [][Next]_vars

-----------------------------------------------------------------------------
(* The list of engines links the allocated ones, the list of an engine the   *)
(* VMs it has compiled a script for, and nEngine and iVm count them, whatever *)
(* is released in whatever order, unless the host releases a VM it never      *)
(* compiled or compiles one twice: then the count of ph7_vm_release or the    *)
(* failure path of ProcessSourceFile sets the list and the count apart.       *)
ListsLinked ==
    /\ library # "shut" => Linked(pEngines, engine) /\ nEngine = Cardinality(engine)
    /\ \A e \in engine \ misused : /\ Linked(pVms[e], Compiled(e))
                                   /\ iVm[e] = Cardinality(Compiled(e))

(* Releasing an engine, or the library, walks its list to the end and no    *)
(* further, and passes every VM that was compiled.                          *)
WalksEnd == walk = "ended"

=============================================================================
