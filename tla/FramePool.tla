----------------------------- MODULE FramePool ------------------------------
(***************************************************************************)
(* What the physical memory manager promises: a pool of page frames, each  *)
(* free or used.  A request takes the lowest free frame and fails only     *)
(* when there is none; a frame can be claimed by number and given back.    *)
(***************************************************************************)
EXTENDS Integers

CONSTANTS
    N,          \* number of frames in the pool
    NoFrame     \* the result that stands for "no frame"

VARIABLES
    used,       \* frames that are not available
    last        \* the last operation and the frame it returned

Frame == 0 .. N - 1

vars == <<used, last>>

Free == Frame \ used

Result(op, f) == [op |-> op, frame |-> f]

Init ==
    /\ used = {}
    /\ last = Result("none", NoFrame)

\* Start-up decides which frames the machine cannot give away.
Boot ==
    /\ last.op = "none"
    /\ used' \in SUBSET Frame
    /\ last' = Result("boot", NoFrame)

Running == last.op # "none"

Take ==
    /\ Running
    /\ \E f \in Free :
          /\ \A g \in Free : f <= g
          /\ used' = used \cup {f}
          /\ last' = Result("take", f)

TakeFails ==
    /\ Running
    /\ Free = {}
    /\ last' = Result("take", NoFrame)
    /\ UNCHANGED used

\* Claim a frame whatever its state.
Claim ==
    /\ Running
    /\ \E f \in Frame :
          /\ used' = used \cup {f}
          /\ last' = Result("claim", f)

\* A frame that the pool does not have is refused.
ClaimFails ==
    /\ Running
    /\ last' = Result("claim", NoFrame)
    /\ UNCHANGED used

GiveBack ==
    /\ Running
    /\ \E f \in Frame :
          /\ used' = used \ {f}
          /\ last' = Result("free", NoFrame)

Next == Boot \/ Take \/ TakeFails \/ Claim \/ ClaimFails \/ GiveBack

Spec == Init /\ [][Next]_vars
=============================================================================
