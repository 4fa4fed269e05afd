------------------------------- MODULE MCPMM --------------------------------
(***************************************************************************)
(* Instances of PMM for TLC.  The machine has 32 page frames, so that      *)
(* bs_init rounds up to two words; the reserved regions leave few frames   *)
(* free, on both sides of the word boundary, so that the pool is exhausted *)
(* and refilled.  AddrSpace is 128 frames.                                 *)
(***************************************************************************)
EXTENDS PMM

Page(n) == n * PG_SZ

Region(b, l, t) == [base |-> b, length |-> l, type |-> t]

MCAddrSpace == Page(128)

\* Reserved regions that start on a page boundary and end below AddrSpace;
\* lengths need not be a multiple of the page size.
AlignedMaps ==
    {{Region(0, Page(1), 1), Region(Page(1), Page(30), 2),
      Region(Page(31), Page(3), 1), Region(Page(34), Page(29) - 100, 2)},
     {Region(Page(1), Page(30) + 1, 2), Region(Page(33), Page(30), 2),
      Region(Page(90), Page(4), 2)}}

\* Reserved regions that start inside a page: the memory below 640 KiB of a PC
\* ends with one, and one ends further into its last page than it starts.
UnalignedMaps ==
    {{Region(Page(2) - 1024, Page(28), 2), Region(Page(32) - 1024, 1024, 2),
      Region(Page(33) + 1024, Page(29) + 512, 2)}}

\* A reserved region above the address space, as the ones a PC reports
\* above 4 GiB: its addresses wrap to low frames.
HighMaps ==
    {{Region(Page(2), Page(29), 2), Region(Page(34), Page(29), 2),
      Region(Page(128), Page(1), 2)}}

MCMaps == AlignedMaps \cup UnalignedMaps \cup HighMaps

MCAddrs == {0, Page(1) + 5, Page(31), Page(32), Page(64), MCAddrSpace - 1}

\* Memory that held something before: a bit below and a bit above the
\* boundary of the two words is 1.
UsedRam == {{}, {0, 31}}
=============================================================================
