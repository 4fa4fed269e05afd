------------------------------- MODULE KHeap --------------------------------
(***************************************************************************)
(* The kernel heap at work: callers ask for memory through kheap_alloc and *)
(* kheap_alloc_a, store into what they own, so that freed memory holds     *)
(* leftovers, and give it back through kheap_free.  Sizes are multiples of *)
(* the word, as those of the kernel's own structures are.                  *)
(*                                                                         *)
(* Two words that the code reads are never written before: the head of a   *)
(* bin, which kheap_pre_init allocates and leaves as memory held it, and   *)
(* the byte at KHEAP_END, which kheap_free reads as a hole flag when it is *)
(* given the last block.  Either may hold anything.  Once the code follows *)
(* one of them nothing is known of the heap any more, and the model stops. *)
(***************************************************************************)
EXTENDS KHeapOps

CONSTANTS
    Sizes,          \* sizes asked of kheap_alloc
    PageSizes,      \* sizes asked of kheap_alloc_a
    BootHeads,      \* bins whose heads may hold something when they are taken
    PastEnd,        \* what the hole flag at KHEAP_END may hold
    Careful,        \* callers ask for a page only when it fits (RoomForPage)
    MaxLive         \* bound on the number of addresses callers own

ASSUME KHeapAssumption ==
    /\ \A sz \in Sizes \cup PageSizes : sz \in Nat /\ sz % 4 = 0
    /\ BootHeads \subseteq SUBSET (0 .. BIN_CNT - 1)
    /\ PastEnd \subseteq Nat
    /\ Careful \in BOOLEAN
    /\ MaxLive \in Nat

VARIABLES
    heap,       \* the memory of the heap and the bins
    live,       \* live[a]: what the caller asked for at a, and stored there
    stray,      \* bins whose heads point to where nobody put a block
    behind,     \* the hole flag at KHEAP_END, which nobody writes
    astray,     \* the code has followed a word that nobody wrote
    halted      \* the page fault handler stopped the machine

vars == <<heap, live, stray, behind, astray, halted>>

Chain == INSTANCE BlockChain
            WITH sizeOf <- [b \in BlocksOf(heap) |-> size(heap, b)],
                 free <- InBins(heap)

-----------------------------------------------------------------------------
(* Words that nobody wrote.  A bin in stray has NULL for its head in heap: *)
(* no operation that meets its true head goes on.                          *)

\* A block was added to a bin whose head is stray: add_block_sorted walks
\* from the head.
AddedAstray(g) == \E i \in stray : g.bins[i] # NULL

\* The bins whose heads kheap_alloc reads until it finds a block.
Searched(sz) ==
    get_bin_index(sz) .. IF FittingBins(heap, sz) = {} THEN BIN_CNT - 1
                         ELSE FoundBin(heap, sz)

AllocStrays(sz) ==
    \/ Searched(sz) \cap stray # {}
    \/ FittingBins(heap, sz) # {} /\ AddedAstray(kheap_alloc(heap, sz))

AllocAStrays(sz) ==
    \/ get_bin_index(size(heap, get_wilderness(heap))) \in stray
    \/ AddedAstray(kheap_alloc_a(heap, sz))

\* kheap_free looks behind its block, also behind the last one of the heap.
\* (The first block of the heap goes to its bin before that.)
FreeStrays(a) ==
    LET b == a - OFFSET
    IN  \/ b # Start /\ get_foot(heap, b) + 4 = End /\ behind # 0
        \/ AddedAstray(kheap_free(heap, a))

-----------------------------------------------------------------------------
(* The machine.                                                            *)

Pattern == 7    \* what callers store

\* Words that callers use: the first two, where next and prev were, and the
\* last one, in front of the footer.
UsedWords(a, sz) == {a, a + 4, a + 4 + sz}

\* kheap_pre_init takes the bins as memory held them; kheap_init puts one block
\* into its bin and does not assign its hole field.
Init ==
    LET sz    == End - Start - BLCK_OVERHEAD
        empty == [mem |-> <<>>, bins |-> [i \in 0 .. BIN_CNT - 1 |-> NULL]]
    IN  /\ stray \in BootHeads
        /\ behind \in PastEnd
        /\ \E v \in {0, 1} :
             LET h == SetSize(SetHole(empty, Start, v), Start, sz)
             IN  heap = add_block_sorted(create_foot(h, Start), get_bin_index(sz), Start)
        /\ live = <<>>
        /\ astray = (get_bin_index(sz) \in stray)
        /\ halted = FALSE

Owned(a, sz) == live' = [b \in DOMAIN live \cup {a} |->
                           IF b = a THEN [sz |-> sz, data |-> 0] ELSE live[b]]

Running == ~ halted /\ ~ astray

MayAlloc == Running /\ Cardinality(DOMAIN live) < MaxLive

MayAllocA(sz) == MayAlloc /\ (Careful => Chain!RoomForPage(get_wilderness(heap), sz))

Alloc(sz) ==
    /\ MayAlloc /\ ~ AllocStrays(sz)
    /\ FittingBins(heap, sz) # {}
    /\ heap' = kheap_alloc(heap, sz)
    /\ Owned(Found(heap, sz) + OFFSET, sz)
    /\ UNCHANGED <<stray, behind, astray, halted>>

\* No bin has a block: the loop of kheap_alloc goes on to bins[9], which is
\* the head of bin 0 taken for a bin, and faults on an address near 0.
AllocFaults(sz) ==
    /\ MayAlloc /\ ~ AllocStrays(sz)
    /\ FittingBins(heap, sz) = {}
    /\ halted' = TRUE
    /\ UNCHANGED <<heap, live, stray, behind, astray>>

AllocA(sz) ==
    /\ MayAllocA(sz) /\ ~ AllocAStrays(sz)
    /\ heap' = kheap_alloc_a(heap, sz)
    /\ Owned(PageBlock(heap) + OFFSET, sz)
    /\ UNCHANGED <<stray, behind, astray, halted>>

Free(a) ==
    /\ Running /\ ~ FreeStrays(a)
    /\ heap' = kheap_free(heap, a)
    /\ live' = [b \in DOMAIN live \ {a} |-> live[b]]
    /\ UNCHANGED <<stray, behind, astray, halted>>

\* A call follows a word that nobody wrote.
GoAstray ==
    /\ Running
    /\ \/ MayAlloc /\ \E sz \in Sizes : AllocStrays(sz)
       \/ \E sz \in PageSizes : MayAllocA(sz) /\ AllocAStrays(sz)
       \/ \E a \in DOMAIN live : FreeStrays(a)
    /\ astray' = TRUE
    /\ UNCHANGED <<heap, live, stray, behind, halted>>

\* The caller uses its memory.
Use(a) ==
    /\ Running
    /\ heap' = Store(heap, UsedWords(a, live[a].sz), Pattern)
    /\ live' = [live EXCEPT ![a].data = Pattern]
    /\ UNCHANGED <<stray, behind, astray, halted>>

Next ==
    \/ \E sz \in Sizes : Alloc(sz)
    \/ \E sz \in Sizes : AllocFaults(sz)
    \/ \E sz \in PageSizes : AllocA(sz)
    \/ \E a \in DOMAIN live : Free(a)
    \/ \E a \in DOMAIN live : Use(a)
    \/ GoAstray

Spec == Init /\ [][Next]_vars

-----------------------------------------------------------------------------
(* Properties.                                                             *)

\* Words are 32-bit values at word addresses of the heap, and callers own
\* addresses inside the heap.
TypeOK ==
    /\ \A a \in DOMAIN heap.mem :
          /\ a \in Start .. End - 1 /\ a % 4 = 0
          /\ heap.mem[a] \in 1 .. AddrSpace - 1
    /\ \A i \in 0 .. BIN_CNT - 1 : heap.bins[i] \in {NULL} \cup Start .. End - 1
    /\ \A a \in DOMAIN live : /\ a \in Start .. End - 1
                              /\ live[a] \in [sz : Sizes \cup PageSizes, data : {0, Pattern}]
    /\ stray \in BootHeads /\ behind \in PastEnd
    /\ {astray, halted} \subseteq BOOLEAN

\* Walking the heap by sizes ends exactly at KHEAP_END, and the footer of
\* every block leads back to its header: what kheap_free finds in front of a
\* block is its neighbour.
FootersMatch ==
    \A b \in BlocksOf(heap) :
        /\ get_foot(heap, b) + 4 <= End
        /\ Load(heap, get_foot(heap, b)) = b

\* Each bin whose head is not stray is sorted by size, holds blocks of its
\* sizes only, and the back links that remove_block follows are right, whatever
\* callers stored into the same words while they owned the blocks.
BinsWellFormed == \A i \in (0 .. BIN_CNT - 1) \ stray : BinWellFormed(heap, i)

\* The hole flag, which decides whether kheap_free joins two blocks, agrees
\* with the bins.  (The flag of the first block is not set by kheap_init; it
\* is not read before it is assigned.)
HolesAreBinned ==
    \A b \in BlocksOf(heap) \ {Start} : (hole(heap, b) # 0) <=> (b \in InBins(heap))

\* What a caller owns is untouched by everybody else's operations: zero until
\* the caller stores, and then what it stored.
PayloadIntact ==
    \A a \in DOMAIN live :
        LET used == {w \in DOMAIN heap.mem : a <= w /\ w < a + live[a].sz + 8}
        IN  IF live[a].data = 0 THEN used = {}
            ELSE /\ used = UsedWords(a, live[a].sz)
                 /\ \A w \in used : heap.mem[w] = Pattern

\* No byte that a caller owns belongs to a block in a bin, which the next
\* request may be given.
LiveNotFree ==
    \A a \in DOMAIN live : \A b \in InBins(heap) :
        \/ a + live[a].sz + 12 <= b
        \/ b + size(heap, b) + BLCK_OVERHEAD <= a - OFFSET

\* The bytes callers own do not overlap.
LiveDisjoint ==
    \A a, b \in DOMAIN live : a < b => a + live[a].sz + 8 <= b

\* Headers, footers and bins implement the chain of blocks: best fit, split,
\* pages cut from the last block, and joining of neighbours.
ChainSpec == Chain!Spec
=============================================================================
