----------------------------- MODULE BlockChain -----------------------------
(***************************************************************************)
(* The kernel heap of kern/mm/kheap.c as a chain of blocks: which blocks   *)
(* the heap is cut into, their sizes, and which of them are in a bin.  The *)
(* layout of headers, footers and bin lists is KHeap's subject; here the   *)
(* header of a block takes 16 bytes, its footer 4, and the address callers *)
(* see is OFFSET bytes into the header.                                    *)
(***************************************************************************)
EXTENDS Integers

CONSTANTS
    Start, End,     \* KHEAP_START, KHEAP_END
    Sizes,          \* sizes asked of kheap_alloc
    PageSizes       \* sizes asked of kheap_alloc_a

PG_SZ == 4096
BLCK_OVERHEAD == 20
OFFSET == 8
MIN_ALLOC_SZ == 4

ASSUME ChainAssumption ==
    /\ Start \in Nat /\ End \in Nat
    /\ Start + BLCK_OVERHEAD <= End
    /\ Sizes \subseteq Nat
    /\ PageSizes \subseteq Nat

VARIABLES
    sizeOf,     \* sizeOf[b] for the header address b of every block
    free,       \* the blocks that are in a bin
    halted      \* out of memory: the page fault handler stopped the machine

vars == <<sizeOf, free, halted>>

Blocks == DOMAIN sizeOf

-----------------------------------------------------------------------------
(* Operations on the map f from blocks to their sizes.                     *)

\* Address of the byte after the footer of block b.
After(f, b) == b + f[b] + BLCK_OVERHEAD

\* Mutant of Cut: the overhead of the new block is not taken off its size.
Cut_NoOverhead(f, b, sz) ==
    [c \in DOMAIN f \cup {b + sz + BLCK_OVERHEAD} |->
        CASE c = b                      -> sz
          [] c = b + sz + BLCK_OVERHEAD -> f[b] - sz
          [] OTHER                      -> f[c]]

\* Block b keeps sz bytes, the rest of it becomes a block of its own.
Cut(f, b, sz) ==
    [c \in DOMAIN f \cup {b + sz + BLCK_OVERHEAD} |->
        CASE c = b                      -> sz
          [] c = b + sz + BLCK_OVERHEAD -> f[b] - sz - BLCK_OVERHEAD
          [] OTHER                      -> f[c]]

\* Mutant of Join: the size of the second block is forgotten.
Join_OverheadOnly(f, b) ==
    [c \in DOMAIN f \ {After(f, b)} |->
        IF c = b THEN f[b] + BLCK_OVERHEAD ELSE f[c]]

\* Block b takes in the block behind it.
Join(f, b) ==
    [c \in DOMAIN f \ {After(f, b)} |->
        IF c = b THEN f[b] + BLCK_OVERHEAD + f[After(f, b)] ELSE f[c]]

-----------------------------------------------------------------------------
Init ==
    /\ sizeOf = [b \in {Start} |-> End - Start - BLCK_OVERHEAD]
    /\ free = {Start}
    /\ halted = FALSE

\* The blocks that can hold sz bytes.
Fits(sz) == {b \in free : sizeOf[b] >= sz}

\* Mutant of AllocSplit: the header and footer of the rest are not counted.
AllocSplit_NoOverhead(sz, b) ==
    /\ ~ halted
    /\ \A c \in Fits(sz) : sizeOf[b] <= sizeOf[c]
    /\ sizeOf[b] - sz > MIN_ALLOC_SZ
    /\ sizeOf' = Cut(sizeOf, b, sz)
    /\ free' = (free \ {b}) \cup {b + sz + BLCK_OVERHEAD}
    /\ UNCHANGED halted

\* The bins are sorted and searched from the smallest size that can fit, so
\* the block found is a smallest one that fits.
AllocSplit(sz, b) ==
    /\ ~ halted
    /\ \A c \in Fits(sz) : sizeOf[b] <= sizeOf[c]
    /\ sizeOf[b] - sz > BLCK_OVERHEAD + MIN_ALLOC_SZ
    /\ sizeOf' = Cut(sizeOf, b, sz)
    /\ free' = (free \ {b}) \cup {b + sz + BLCK_OVERHEAD}
    /\ UNCHANGED halted

AllocWhole(sz, b) ==
    /\ ~ halted
    /\ \A c \in Fits(sz) : sizeOf[b] <= sizeOf[c]
    /\ sizeOf[b] - sz <= BLCK_OVERHEAD + MIN_ALLOC_SZ
    /\ free' = free \ {b}
    /\ UNCHANGED <<sizeOf, halted>>

AllocFails(sz) ==
    /\ ~ halted
    /\ Fits(sz) = {}
    /\ halted' = TRUE
    /\ UNCHANGED <<sizeOf, free>>

\* Bytes from block w to the next page boundary, a whole page if w is on one.
Extra(w) == PG_SZ - (w % PG_SZ)

\* Size of the small block that kheap_alloc_a leaves in front of the page.
Lead(w) == Extra(w) - BLCK_OVERHEAD - 8

\* What callers of kheap_alloc_a have to see to, as nothing in it looks: the
\* last block is free, the lead block gets a size of at least 0 and the page
\* and a new last block fit behind it.
RoomForPage(w, sz) ==
    /\ w \in free
    /\ After(sizeOf, w) = End
    /\ Lead(w) >= 0
    /\ Lead(w) + sz + 2 * BLCK_OVERHEAD <= sizeOf[w]

\* The last block w is cut twice: in front of the page and behind it.
AllocPage(sz, w) ==
    LET ret == w + Lead(w) + BLCK_OVERHEAD
    IN  /\ ~ halted
        /\ RoomForPage(w, sz)
        /\ sizeOf' = Cut(Cut(sizeOf, w, Lead(w)), ret, sz)
        /\ free' = free \cup {ret + sz + BLCK_OVERHEAD}
        /\ UNCHANGED halted

\* The first block is put in a bin as it is.
FreeFirst ==
    /\ ~ halted
    /\ Start \in Blocks \ free
    /\ free' = free \cup {Start}
    /\ UNCHANGED <<sizeOf, halted>>

\* Any other block b, with p the block in front of it: joined to p if p is
\* free, then to the block behind it if that one is free.
FreeOther(b, p) ==
    LET next  == After(sizeOf, b)
        first == IF p \in free THEN p ELSE b
        f1    == IF p \in free THEN Join(sizeOf, p) ELSE sizeOf
    IN  /\ ~ halted
        /\ b \notin free
        /\ After(sizeOf, p) = b
        /\ sizeOf' = IF next \in free THEN Join(f1, first) ELSE f1
        /\ free' = (free \ {next}) \cup {first}
        /\ UNCHANGED halted

Next ==
    \/ \E sz \in Sizes : \E b \in Fits(sz) : AllocSplit(sz, b) \/ AllocWhole(sz, b)
    \/ \E sz \in Sizes : AllocFails(sz)
    \/ \E sz \in PageSizes : \E w \in Blocks : AllocPage(sz, w)
    \/ FreeFirst
    \/ \E b \in Blocks \ {Start} : \E p \in Blocks : FreeOther(b, p)

Spec == Init /\ [][Next]_vars

-----------------------------------------------------------------------------
(* Properties.                                                             *)

TypeOK ==
    /\ sizeOf \in [Blocks -> Nat]
    /\ Blocks \subseteq Start .. End - 1
    /\ free \subseteq Blocks
    /\ halted \in BOOLEAN

\* The blocks of f tile the heap: the first one is at its start, each is
\* followed by the next one or by the end of the heap, and no two overlap.
Tiling(f) ==
    /\ Start \in DOMAIN f
    /\ \A b \in DOMAIN f : After(f, b) = End \/ After(f, b) \in DOMAIN f
    /\ \A b, c \in DOMAIN f : b < c => After(f, b) <= c

\* Splitting, page requests and coalescing in any order leave no gap between
\* blocks and no byte in two blocks.
Tiled == Tiling(sizeOf)

\* Address that callers get for block b, and the number of bytes it owns: the
\* next and prev fields belong to the caller as well.
Live == {b + OFFSET : b \in Blocks \ free}

Heap == INSTANCE HeapSpec
            WITH Sizes <- Sizes \cup PageSizes,
                 live  <- [a \in Live |-> sizeOf[a - OFFSET] + 8]

\* Cutting and joining blocks never gives a byte to two callers, moves the
\* range of one, or takes it away before it is freed.
HeapContract == Heap!Spec
=============================================================================
