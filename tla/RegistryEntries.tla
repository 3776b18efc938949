-------------------------- MODULE RegistryEntries --------------------------
(***************************************************************************)
(* What the service registry promises to those who read it (the web        *)
(* application, scaling, the export): a service that is registered stays   *)
(* registered, and one write concerns one service.                         *)
(***************************************************************************)
CONSTANTS Services, Entry, NoEntry

VARIABLE entries

Init == entries \in [Services -> Entry \cup {NoEntry}]

\* CreateService, UpdateServiceLimits, UpdateServiceListeners.
Write(v, entry) == entries' = [entries EXCEPT ![v] = entry]

Next == \E v \in Services, entry \in Entry : Write(v, entry)

Spec == Init /\ [][Next]_entries
=============================================================================
