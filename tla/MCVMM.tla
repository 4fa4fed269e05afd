------------------------------- MODULE MCVMM --------------------------------
(***************************************************************************)
(* Instance of VMM for TLC: a stack of two pages, the directory of the     *)
(* first task and up to three forks.  Memory is large enough for all of    *)
(* them, for some of them, or not even for the first stack.                *)
(***************************************************************************)
EXTENDS VMM

MCBootStates == {{0, 1, 4}, {0} \cup 4 .. 9, Frames \ {5, 7, 8}, Frames \ {3}, Frames}
=============================================================================
