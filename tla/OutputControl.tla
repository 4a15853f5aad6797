---------------------------- MODULE OutputControl ----------------------------
(***************************************************************************)
(* The output of one virtual machine (vm.c): the consumer installed by the  *)
(* host, the stack aOB of output buffers with their filter callbacks, the   *)
(* shutdown callbacks, and the executions around them (PH7_VmByteCodeExec,  *)
(* PH7_VmReset).                                                            *)
(*                                                                          *)
(* The n-th print of the script writes the chunk <<n>>.  A filter is script *)
(* code that VmObConsumer runs for every chunk before it stores it, so the  *)
(* script can do anything to the buffers while VmObConsumer holds a pointer *)
(* to one of them.                                                          *)
(***************************************************************************)
EXTENDS Naturals, Sequences, FiniteSets, SequencesExt

CONSTANTS
    MaxPrint,       \* prints of a behaviour (bound)
    MaxLevel,       \* output buffers open at a time (bound)
    MaxNest,        \* filters running inside each other (bound)
    MaxShutdown,    \* shutdown callbacks registered in a behaviour (bound)
    MaxExec,        \* executions of a behaviour (bound)
    ObCapacity      \* entries in the first allocation of aOB (8 in the code)

ASSUME OutputAssumption == ObCapacity \in Nat \ {0}

VARIABLES
    nMagic,         \* PH7_VM_RUN or PH7_VM_EXEC
    xConsumer,      \* installed consumer: the host's or VmObConsumer
    xDef,           \* consumer saved by ob_start, or none yet
    aOB,            \* stack of VmObEntry: filter or none, contents
    base,           \* allocations of the array of aOB so far, and its capacity
    filters,        \* activations of VmObConsumer whose filter is running
    aShutdown,      \* registered shutdown callbacks
    phase,          \* what runs: nothing, main or a shutdown callback
    next,           \* entry of aShutdown the loop is at, and where it stops
    sConsumer,      \* chunks that reached the host's consumer
    printed, execs,     \* counters
    discarded,      \* chunks the script asked to drop
    called,         \* shutdown callbacks in the order of their calls
    registered,     \* how many were registered, and which before a shutdown loop
    disturbed       \* what the script did that gives up order or integrity

buffers == <<xConsumer, xDef, aOB, base>>
shutdown == <<aShutdown, next, called, registered>>
vars == <<nMagic, phase, buffers, filters, shutdown, sConsumer, printed, execs,
          discarded, disturbed>>

Mark == 0       \* what a filter adds to a chunk

Init ==
    /\ nMagic = "run" /\ phase = "none"
    /\ xConsumer = "default" /\ xDef = "none"
    /\ aOB = <<>> /\ base = [allocs |-> 0, size |-> 0]
    /\ filters = <<>>
    /\ aShutdown = <<>> /\ next = [at |-> 0, nEntry |-> 0]
    /\ sConsumer = <<>>
    /\ printed = 0 /\ execs = 0
    /\ discarded = {} /\ called = <<>>
    /\ registered = [all |-> 0, before |-> {}]
    /\ disturbed = {}

Running == phase # "none"
Level == Len(aOB)
InFilter == filters # <<>>

-----------------------------------------------------------------------------
(* VmObConsumer and the consumers of the host.                              *)

Deliver(data) ==
    /\ sConsumer' = sConsumer \o data
    /\ UNCHANGED <<aOB, filters>>

Store(data) ==
    /\ aOB' = [aOB EXCEPT ![Level].sOB = @ \o data]
    /\ UNCHANGED <<sConsumer, filters>>

CallFilter(data) ==
    /\ Len(filters) < MaxNest
    /\ filters' = Append(filters, [slot |-> Level, allocs |-> base.allocs,
                                   data |-> data])
    /\ UNCHANGED <<aOB, sConsumer>>

\* An empty stack is the case VmObConsumer calls impossible: the chunk is lost.
Consume(data) ==
    IF xConsumer # "VmObConsumer" THEN Deliver(data)
    ELSE IF Level = 0 THEN UNCHANGED <<aOB, filters, sConsumer>>
    ELSE IF aOB[Level].filter THEN CallFilter(data) ELSE Store(data)

\* print, echo, an error message: one chunk to the installed consumer.
print ==
    /\ Running /\ printed < MaxPrint
    /\ printed' = printed + 1
    /\ Consume(<<printed + 1>>)
    /\ disturbed' = IF InFilter THEN disturbed \cup {"nested"} ELSE disturbed
    /\ UNCHANGED <<nMagic, phase, xConsumer, xDef, base, shutdown, execs, discarded>>

\* The filter returns a string, or something else, which keeps the chunk.
Filtered(data, result) ==
    CASE result = "other" -> data
      [] result = "string" -> <<Mark>> \o data
      [] result = "empty" -> <<>>

\* VmObConsumer after the call: it appends through the pointer it took before.
\* The pointer is into the array of aOB: it may name a popped entry, another
\* entry pushed to the same place, or an array that was reallocated.
FilterReturn(result) ==
    LET act == Last(filters)
        data == Filtered(act.data, result)
    IN  /\ Running /\ InFilter
        /\ filters' = Front(filters)
        /\ aOB' = IF act.allocs = base.allocs /\ act.slot <= Level
                  THEN [aOB EXCEPT ![act.slot].sOB = @ \o data]
                  ELSE aOB
        /\ discarded' = IF result = "empty" THEN discarded \cup Range(act.data)
                        ELSE discarded
        /\ UNCHANGED <<nMagic, phase, xConsumer, xDef, base, shutdown, sConsumer,
                       printed, execs, disturbed>>

-----------------------------------------------------------------------------
(* The ob_* functions.                                                      *)

Touched == IF InFilter THEN disturbed \cup {"stack"} ELSE disturbed

\* SySetPut on the stack: a full array is reallocated, twice as large.
Grown == IF Level < base.size THEN base
         ELSE [allocs |-> base.allocs + 1,
               size |-> IF base.size = 0 THEN ObCapacity ELSE 2 * base.size]

InstallConsumer ==
    IF xConsumer # "VmObConsumer"
    THEN xDef' = xConsumer /\ xConsumer' = "VmObConsumer"
    ELSE UNCHANGED <<xDef, xConsumer>>

ob_start(filter) ==
    /\ Running /\ Level < MaxLevel
    /\ aOB' = Append(aOB, [filter |-> filter, sOB |-> <<>>])
    /\ base' = Grown
    /\ InstallConsumer
    /\ disturbed' = Touched
    /\ UNCHANGED <<nMagic, phase, filters, shutdown, sConsumer, printed, execs, discarded>>

\* mutant: the saved consumer never comes back.
RestoreNever(rest) ==
    UNCHANGED xConsumer

\* mutant: the saved consumer comes back one buffer too early.
RestoreEarly(rest) ==
    xConsumer' = IF Len(rest) < 2 THEN xDef ELSE xConsumer

\* VmObRestore on a stack that is left with `rest`.
VmObRestore(rest) ==
    xConsumer' = IF Len(rest) < 1 THEN xDef ELSE xConsumer

\* ob_clean keeps the buffer; SyBlobRelease empties it.
ob_clean ==
    /\ Running /\ Level > 0
    /\ discarded' = discarded \cup Range(aOB[Level].sOB)
    /\ aOB' = [aOB EXCEPT ![Level].sOB = <<>>]
    /\ UNCHANGED <<nMagic, phase, xConsumer, xDef, base, filters, shutdown, sConsumer,
                   printed, execs, disturbed>>

\* ob_end_clean and ob_get_clean, which first copies the contents.
ob_end_clean ==
    /\ Running /\ Level > 0
    /\ discarded' = discarded \cup Range(aOB[Level].sOB)
    /\ aOB' = Front(aOB)
    /\ VmObRestore(Front(aOB))
    /\ disturbed' = Touched
    /\ UNCHANGED <<nMagic, phase, xDef, base, filters, shutdown, sConsumer, printed, execs>>

\* VmObFlush hands the contents to xDef, past the buffers below.
Bypassed(past) == IF past THEN disturbed \cup {"direct"} ELSE disturbed

ob_flush ==
    /\ Running /\ Level > 0
    /\ sConsumer' = sConsumer \o aOB[Level].sOB
    /\ aOB' = [aOB EXCEPT ![Level].sOB = <<>>]
    /\ disturbed' = Bypassed(Level > 1)
    /\ UNCHANGED <<nMagic, phase, xConsumer, xDef, base, filters, shutdown, printed,
                   execs, discarded>>

\* mutant: ob_end_flush that forgets to flush.
EndWithoutFlush ==
    /\ Running /\ Level > 0
    /\ aOB' = Front(aOB)
    /\ VmObRestore(Front(aOB))
    /\ disturbed' = Bypassed(Level > 1) \cup Touched
    /\ UNCHANGED <<nMagic, phase, xDef, base, filters, shutdown, sConsumer, printed,
                   execs, discarded>>

ob_end_flush ==
    /\ Running /\ Level > 0
    /\ sConsumer' = sConsumer \o aOB[Level].sOB
    /\ aOB' = Front(aOB)
    /\ VmObRestore(Front(aOB))
    /\ disturbed' = Bypassed(Level > 1) \cup Touched
    /\ UNCHANGED <<nMagic, phase, xDef, base, filters, shutdown, printed, execs, discarded>>

-----------------------------------------------------------------------------
(* Executions, shutdown callbacks, the host.                                *)

\* PH7_VmByteCodeExec refuses a VM that was not reset since it last ran.
StartExec ==
    /\ nMagic = "run" /\ phase = "none" /\ execs < MaxExec
    /\ nMagic' = "exec" /\ phase' = "main" /\ execs' = execs + 1
    /\ UNCHANGED <<buffers, filters, shutdown, sConsumer, printed, discarded, disturbed>>

register_shutdown_function ==
    /\ Running /\ registered.all < MaxShutdown
    /\ aShutdown' = Append(aShutdown, registered.all + 1)
    /\ registered' = [all |-> registered.all + 1,
                      before |-> IF phase = "main"
                                 THEN registered.before \cup {registered.all + 1}
                                 ELSE registered.before]
    /\ UNCHANGED <<nMagic, phase, buffers, filters, next, called, sConsumer, printed, execs,
                   discarded, disturbed>>

\* mutant: the loop starts at the second entry.
UpcomingLate == IF phase = "main" THEN [at |-> 2, nEntry |-> Len(aShutdown)]
                ELSE [at |-> next.at + 1, nEntry |-> next.nEntry]

\* Where the loop is, and where it stops: its bound is read once, at its start.
Upcoming == IF phase = "main" THEN [at |-> 1, nEntry |-> Len(aShutdown)]
            ELSE [at |-> next.at + 1, nEntry |-> next.nEntry]

\* main returns or exits, or a shutdown callback does, and the loop of
\* VmInvokeShutdownCallbacks takes the next entry or ends and drops them all.
RunEnds ==
    /\ Running /\ ~InFilter
    /\ IF Upcoming.at <= Upcoming.nEntry
       THEN /\ phase' = "shutdown"
            /\ next' = Upcoming
            /\ called' = Append(called, aShutdown[Upcoming.at])
            /\ UNCHANGED aShutdown
       ELSE /\ phase' = "none"
            /\ next' = [at |-> 0, nEntry |-> 0]
            /\ aShutdown' = <<>>
            /\ UNCHANGED called
    /\ UNCHANGED <<nMagic, buffers, filters, registered, sConsumer, printed, execs, discarded,
                   disturbed>>

\* PH7_VmReset clears the default consumer's blob and nothing else.
Reset ==
    /\ phase = "none" /\ nMagic = "exec"
    /\ nMagic' = "run"
    /\ UNCHANGED <<phase, buffers, filters, shutdown, sConsumer, printed, execs, discarded,
                   disturbed>>

\* PH7_VM_CONFIG_OUTPUT replaces whatever consumer is installed.
ConfigOutput ==
    /\ phase = "none" /\ xConsumer # "host"
    /\ xConsumer' = "host"
    /\ disturbed' = Bypassed(Level > 0)
    /\ UNCHANGED <<nMagic, phase, xDef, aOB, base, filters, shutdown, sConsumer,
                   printed, execs, discarded>>

Next ==
    \/ print
    \/ \E result \in {"other", "string", "empty"} : FilterReturn(result)
    \/ \E filter \in BOOLEAN : ob_start(filter)
    \/ ob_clean \/ ob_end_clean \/ ob_flush \/ ob_end_flush
    \/ register_shutdown_function
    \/ StartExec \/ RunEnds \/ Reset \/ ConfigOutput

Spec == Init /\ [][Next]_vars

-----------------------------------------------------------------------------
(* VmObConsumer never meets the empty stack it calls impossible, and there  *)
(* is always a real consumer behind it (VmObRestore, ob_start): buffers can *)
(* be opened and closed by filters and left open by an execution.           *)
ConsumerHasBuffer ==
    xConsumer = "VmObConsumer" => Level > 0 /\ xDef \in {"default", "host"}

\* What the host's consumer received, then the buffers from the outermost to
\* the innermost.
Contents == [k \in 0 .. Level |-> IF k = 0 THEN sConsumer ELSE aOB[k].sOB]

Written(C) == (UNION {Range(C[k]) : k \in DOMAIN C}) \ {Mark}
Held == UNION {Range(filters[i].data) : i \in DOMAIN filters}

\* No chunk is in two places.
Once(C) ==
    \A k, l \in DOMAIN C : \A i \in DOMAIN C[k], j \in DOMAIN C[l] :
        C[k][i] # Mark /\ C[k][i] = C[l][j] => k = l /\ i = j

\* From the first place to the last, the chunks ascend.
Ascending(C) ==
    \A k, l \in DOMAIN C : \A i \in DOMAIN C[k], j \in DOMAIN C[l] :
        /\ k < l \/ (k = l /\ i < j)
        /\ C[k][i] # Mark /\ C[l][j] # Mark
        => C[k][i] < C[l][j]

(* No chunk the script printed is written twice, or written though a clean  *)
(* or its filter dropped it; and unless a filter opens or closes buffers,   *)
(* each of them is delivered, buffered, being filtered, or was dropped.     *)
NothingLost ==
    /\ Once(Contents)
    /\ Written(Contents) \cap (Held \cup discarded) = {}
    /\ "stack" \notin disturbed =>
           1 .. printed \subseteq Written(Contents) \cup Held \cup discarded

(* The host's consumer, followed by the buffers from the outermost to the   *)
(* innermost, holds the chunks in the order of the prints, unless the       *)
(* script flushes a nested buffer (VmObFlush goes past the outer ones), a   *)
(* filter prints (its output is stored before the chunk it filters), or the *)
(* host replaces the consumer while an earlier execution left a buffer.     *)
InOrder == disturbed = {} => Ascending(Contents)

(* Shutdown callbacks run once, in the order of registration, and when an   *)
(* execution is over all those registered by its main program have run      *)
(* (VmInvokeShutdownCallbacks), though a callback may register others.      *)
ShutdownInOrder ==
    /\ \A i, j \in 1 .. Len(called) : i < j => called[i] < called[j]
    /\ phase = "none" => aShutdown = <<>> /\ registered.before \subseteq Range(called)

=============================================================================
