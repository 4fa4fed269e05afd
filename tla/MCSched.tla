------------------------------ MODULE MCSched -------------------------------
(***************************************************************************)
(* Instance of Sched for TLC: the first task and up to four forks, so that *)
(* the list is rotated while fork walks over several tasks.  Memory that   *)
(* the kernel never wrote is zero, as under an emulator, or anything.      *)
(***************************************************************************)
EXTENDS Sched

MCZeroFill == {NULL}
MCAnyFill == {NULL, Wild}
=============================================================================
