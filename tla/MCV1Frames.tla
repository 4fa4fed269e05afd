----------------------------- MODULE MCV1Frames -----------------------------
(***************************************************************************)
(* V1Frames for TLC: pages of four words, memory of 32 pages.  The maps    *)
(* are those of a PC with less than 4 GiB: low memory, a hole, the main    *)
(* region with any end, a region the firmware keeps and perhaps one more   *)
(* available region, not aligned or up to the end of the address space.    *)
(***************************************************************************)
EXTENDS V1Frames

E(a, n, t) == [addr |-> a, len |-> n, type |-> t]

MCMaps ==
    {<<E(0, 10, 1), E(10, 22, 2), E(32, n, 1), E(32 + n, 24, 2)>> \o tail :
        n \in 64 .. 160,
        tail \in {<<>>, <<E(300, 70, 1), E(370, 40, 2)>>, <<E(300, 212, 1)>>}}

\* Nothing that looks like available memory.
MCBehind == {E(0, 0, 0)}

ASSUME OrderedMaps
=============================================================================
