------------------------------ MODULE HeapSpec ------------------------------
(***************************************************************************)
(* What the callers of kmalloc and kfree rely on: every address that was   *)
(* returned and not freed yet owns a range of bytes of the heap that is at *)
(* least as long as the request and that nobody else owns.                 *)
(***************************************************************************)
EXTENDS Integers

CONSTANTS
    Start, End,     \* the bytes Start .. End - 1 are the heap
    Sizes           \* the sizes callers ask for

VARIABLES
    live,           \* live[a]: number of bytes that address a owns
    halted          \* the machine stopped in the page fault handler

vars == <<live, halted>>

\* The ranges of m bytes at a and n bytes at b have no byte in common.
Apart(a, m, b, n) == a + m <= b \/ b + n <= a

Init == live = [a \in {} |-> 0] /\ halted = FALSE

\* The new owner's range is whatever the implementation chose, as long as it
\* is long enough, in the heap, and apart from all others.
Alloc(sz) ==
    /\ ~ halted
    /\ \E a \in DOMAIN live' \ DOMAIN live :
          /\ live' = [b \in DOMAIN live \cup {a} |-> IF b = a THEN live'[a] ELSE live[b]]
          /\ live'[a] >= sz
          /\ Start <= a /\ a + live'[a] <= End
          /\ \A b \in DOMAIN live : Apart(a, live'[a], b, live[b])
    /\ UNCHANGED halted

\* Out of memory: kheap_alloc has no way to report it.
Stop == halted' = TRUE /\ UNCHANGED live

Free(a) ==
    /\ ~ halted
    /\ live' = [b \in DOMAIN live \ {a} |-> live[b]]
    /\ UNCHANGED halted

Next ==
    \/ \E sz \in Sizes : Alloc(sz)
    \/ Stop
    \/ \E a \in DOMAIN live : Free(a)

Spec == Init /\ [][Next]_vars
=============================================================================
