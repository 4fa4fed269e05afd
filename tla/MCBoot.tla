------------------------------- MODULE MCBoot -------------------------------
(***************************************************************************)
(* Instance of Boot for TLC.  Page tables have 4 entries instead of 1024,  *)
(* so that the kernel needs several and the loop that maps it makes itself *)
(* longer.  The ends of the kernel cover every position relative to a page *)
(* boundary at which one of the allocations changes pages.                 *)
(***************************************************************************)
EXTENDS Boot

\* Around a page boundary, and around the positions from which the bit set,
\* the structures of the heap or nothing at all still fit in the page.
MCKernelEnds ==
    {3 * PG_SZ + d : d \in {-1, 0, 1, 4, 1000}} \cup
    {4 * PG_SZ - d : d \in {2, 12, 13, 14, 44, 45, 46, 92, 93, 100, 104, 105, 106, 2000}}
MCReserved == {1, 30}
=============================================================================
