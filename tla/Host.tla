-------------------------------- MODULE Host --------------------------------
(***************************************************************************)
(* What lies below the scripts: the handles the host program has (Engine)    *)
(* and the memory it all comes from (MemBackend).  A behaviour is one of the  *)
(* host's calls or one of the allocators' calls, not both: they are put       *)
(* together to be checked in one run, not to interact.                        *)
(***************************************************************************)
EXTENDS Engine, MemBackend

HostVars == <<vars, memVars>>
HostInit == Init /\ MemInit

Handles == MemInit /\ Next /\ UNCHANGED memVars
Memory == Init /\ MemNext /\ UNCHANGED vars

HostSpec == HostInit /\ [][Handles \/ Memory]_HostVars

=============================================================================
