------------------------------ MODULE MCKHeap -------------------------------
(***************************************************************************)
(* Instances of KHeap for TLC.  Block and page sizes are those of the      *)
(* source; the heap has three or four pages instead of 256.                *)
(***************************************************************************)
EXTENDS KHeap

MCStart == PG_SZ
MCAddrSpace == 2 ^ 24

\* A task, and a size that leaves 88 bytes of a heap of four pages: room for a
\* split, then for a block that is given out whole, then for nothing.
FillingSizes == {28, 3 * PG_SZ + 3968}

PageTableSize == {4096}

\* Memory is zero where the heads come to lie, or it is not for the bin that is
\* searched first for a task, for the one that the rest of the large block goes
\* to, or for the one of the first block.
MCHeads == {{}, {2}, {4}, {8}}
NoHeads == {{}}

\* Takes all of a heap of three pages.
WholeHeap == {3 * PG_SZ - BLCK_OVERHEAD}
=============================================================================
