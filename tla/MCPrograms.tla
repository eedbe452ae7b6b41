---------------------------- MODULE MCPrograms ----------------------------
(***************************************************************************)
(* The repository's two user programs in one instance for TLC: main() of   *)
(* list_example, and when that has ended the viewer.  They share nothing,  *)
(* so letting them run at the same time would show no more.                *)
(***************************************************************************)
EXTENDS ArpTable, FileView

CONSTANTS fir, sec, third

ProgramsInit == ArpInit /\ ViewInit

ProgramsNext ==
  \/ ArpNext /\ UNCHANGED view_vars
  \/ arp_pc \in {"done", "crashed"} /\ ViewNext /\ UNCHANGED arp_vars

ProgramsSpec == ProgramsInit /\ [][ProgramsNext]_<<arp_vars, view_vars>>

============================================================================
