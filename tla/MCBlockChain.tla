---------------------------- MODULE MCBlockChain ----------------------------
(***************************************************************************)
(* Instance of BlockChain for TLC: a heap of four pages and requests of     *)
(* about a page, so that the heap holds a handful of blocks.  Two requests *)
(* differ by less than what a split needs, so that blocks are also given   *)
(* out whole.                                                              *)
(***************************************************************************)
EXTENDS BlockChain

MCStart == PG_SZ
MCEnd == 5 * PG_SZ
MCSizes == {3000, 3020, 4052}
MCPageSizes == {4096}
=============================================================================
