------------------------------ MODULE KHeapOps ------------------------------
(***************************************************************************)
(* The functions of kern/mm/kheap.c on the words of the heap's memory:     *)
(* block headers (hole, size, next, prev), footers that point back to the  *)
(* header and nine bins of free blocks, each a doubly linked list sorted   *)
(* by size.                                                                *)
(*                                                                         *)
(* A heap is a record: mem maps the address of every word that is not zero *)
(* to its content, bins gives the head of every bin.  The functions of the *)
(* source are operators from a heap to a heap.                             *)
(***************************************************************************)
EXTENDS Integers, SequencesExt

CONSTANTS
    Start, End,     \* KHEAP_START, KHEAP_END
    AddrSpace       \* 2^32: address and size arithmetic wraps

PG_SZ == 4096
BIN_CNT == 9
BLCK_OVERHEAD == 20
OFFSET == 8
MIN_ALLOC_SZ == 4
MaxBlocks == (End - Start) \div BLCK_OVERHEAD
NULL == 0

ASSUME KHeapOpsAssumption ==
    /\ {Start, End, AddrSpace} \subseteq Nat \ {0}
    /\ Start % PG_SZ = 0 /\ End % PG_SZ = 0
    /\ Start < End /\ End < AddrSpace

u32(x) == x % AddrSpace

-----------------------------------------------------------------------------
(* Memory.                                                                 *)

Load(h, a) == IF a \in DOMAIN h.mem THEN h.mem[a] ELSE 0

\* Stores v at every address of A.
Store(h, A, v) ==
    LET words == (DOMAIN h.mem \ A) \cup (IF v = 0 THEN {} ELSE A)
    IN  [h EXCEPT !.mem = [a \in words |-> IF a \in A THEN v ELSE h.mem[a]]]

\* memset(lo, 0, n)
Zero(h, lo, n) ==
    [h EXCEPT !.mem = [a \in {x \in DOMAIN h.mem : ~ (lo <= x /\ x < lo + n)} |-> h.mem[a]]]

hole(h, b) == Load(h, b)
size(h, b) == Load(h, b + 4)
next(h, b) == Load(h, b + 8)
prev(h, b) == Load(h, b + 12)

SetHole(h, b, v) == Store(h, {b}, v)
SetSize(h, b, v) == Store(h, {b + 4}, v)
SetNext(h, b, v) == Store(h, {b + 8}, v)
SetPrev(h, b, v) == Store(h, {b + 12}, v)
ClearLinks(h, b) == Store(h, {b + 8, b + 12}, NULL)
SetHead(h, i, b) == [h EXCEPT !.bins[i] = b]

get_foot(h, b) == u32(b + 16 + size(h, b))

create_foot(h, b) == Store(h, {get_foot(h, b)}, b)

-----------------------------------------------------------------------------
(* Bins.                                                                   *)

\* floor(log2(size)) - 2, between 0 and the last bin.
get_bin_index(sz) ==
    IF sz < 4 THEN 0 ELSE CHOOSE i \in 0 .. BIN_CNT - 1 :
        /\ 2 ^ (i + 2) <= sz
        /\ i = BIN_CNT - 1 \/ sz < 2 ^ (i + 3)

\* The blocks of a bin: node[k] is met after k steps along the next pointers.
Bin(h, i) ==
    LET node[k \in Nat] == IF k = 0 THEN h.bins[i] ELSE next(h, node[k - 1])
        len == CHOOSE n \in 0 .. MaxBlocks :
                   node[n] = NULL /\ \A k \in 0 .. n - 1 : node[k] # NULL
    IN  [k \in 1 .. len |-> node[k - 1]]

\* The first of the places in a list, or 0.
First(places) == IF places = {} THEN 0 ELSE Min(places)

\* Block b is linked in at place pos of the list of bin i, as its last block if
\* pos is 0.
LinkAt(h, i, list, pos, b) ==
    CASE list = <<>> -> SetHead(h, i, b)
      [] list # <<>> /\ pos = 0 -> SetPrev(SetNext(h, Last(list), b), b, Last(list))
      [] pos = 1 -> SetHead(SetPrev(SetNext(h, b, h.bins[i]), h.bins[i], b), i, b)
      [] pos > 1 -> SetPrev(SetPrev(SetNext(SetNext(h, b, list[pos]), list[pos - 1], b),
                                    b, list[pos - 1]), list[pos], b)

\* The block goes behind the leading blocks that are not larger.
add_block_sorted(h0, i, b) ==
    LET h    == ClearLinks(h0, b)
        list == Bin(h, i)
    IN  LinkAt(h, i, list, First({k \in DOMAIN list : size(h, list[k]) > size(h, b)}), b)

\* Mutant of remove_block: the back link of the following block is not reset.
remove_block_NoRelink(h, i, b) ==
    CASE h.bins[i] = NULL -> h
      [] h.bins[i] = b /\ b # NULL -> ClearLinks(SetHead(h, i, next(h, b)), b)
      [] OTHER -> IF b \notin ToSet(Bin(h, i)) THEN h
                  ELSE ClearLinks(SetNext(h, prev(h, b), next(h, b)), b)

\* A block that is not in the bin is reported and nothing changes.  The back
\* link of a new head keeps its old value.
remove_block(h, i, b) ==
    CASE h.bins[i] = NULL -> h
      [] h.bins[i] = b /\ b # NULL -> ClearLinks(SetHead(h, i, next(h, b)), b)
      [] OTHER ->
           IF b \notin ToSet(Bin(h, i)) THEN h
           ELSE LET g == SetNext(h, prev(h, b), next(h, b))
                IN  ClearLinks(IF next(h, b) = NULL THEN g
                               ELSE SetPrev(g, next(h, b), prev(h, b)), b)

\* Mutant of get_first_fit: a block of exactly the size is passed over.
get_first_fit_Larger(h, i, sz) ==
    LET pos == First({k \in DOMAIN Bin(h, i) : size(h, Bin(h, i)[k]) > sz})
    IN  IF pos = 0 THEN NULL ELSE Bin(h, i)[pos]

\* The first block of the bin that is large enough, or NULL.
get_first_fit(h, i, sz) ==
    LET pos == First({k \in DOMAIN Bin(h, i) : size(h, Bin(h, i)[k]) >= sz})
    IN  IF pos = 0 THEN NULL ELSE Bin(h, i)[pos]

\* The block whose footer is the last word of the heap.
get_wilderness(h) == Load(h, End - 4)

-----------------------------------------------------------------------------
(* kheap_alloc, kheap_alloc_a and kheap_free.                              *)

\* Mutant of Give: the words of the next and prev fields are not counted.
Give_Short(h, b) == Zero(h, b + OFFSET, size(h, b))

\* Both allocators clear the words from the next field to the footer.
Give(h, b) == Zero(h, b + OFFSET, size(h, b) + 8)

\* The bins that have a block for a request of sz bytes.
FittingBins(h, sz) ==
    {i \in get_bin_index(sz) .. BIN_CNT - 1 : get_first_fit(h, i, sz) # NULL}

\* The bin in which kheap_alloc finds a block, and the block.
FoundBin(h, sz) ==
    CHOOSE i \in FittingBins(h, sz) : \A j \in FittingBins(h, sz) : i <= j
Found(h, sz) == get_first_fit(h, FoundBin(h, sz), sz)

\* Mutant of Carve: the footer of the shortened block is not written.
Carve_NoFoot(h, b, sz) ==
    LET split == b + BLCK_OVERHEAD + sz
        rest  == size(h, b) - sz - BLCK_OVERHEAD
        h1    == create_foot(SetHole(SetSize(h, split, rest), split, 1), split)
        h2    == add_block_sorted(h1, get_bin_index(rest), split)
    IN  SetSize(h2, b, sz)

\* Block b is split: the rest of it becomes a hole in its bin, then b shrinks.
Carve(h, b, sz) ==
    LET split == b + BLCK_OVERHEAD + sz
        rest  == size(h, b) - sz - BLCK_OVERHEAD
        h1    == create_foot(SetHole(SetSize(h, split, rest), split, 1), split)
        h2    == add_block_sorted(h1, get_bin_index(rest), split)
    IN  create_foot(SetSize(h2, b, sz), b)

\* Mutant of kheap_alloc: the block keeps its hole flag.
kheap_alloc_StillHole(h, sz) ==
    LET b  == Found(h, sz)
        h1 == IF size(h, b) - sz > BLCK_OVERHEAD + MIN_ALLOC_SZ
              THEN Carve(h, b, sz) ELSE h
    IN  Give(remove_block(h1, FoundBin(h, sz), b), b)

\* The heap after kheap_alloc gave out block Found(h, sz).
kheap_alloc(h, sz) ==
    LET b  == Found(h, sz)
        h1 == IF size(h, b) - sz > BLCK_OVERHEAD + MIN_ALLOC_SZ
              THEN Carve(h, b, sz) ELSE h
        h2 == remove_block(SetHole(h1, b, 0), FoundBin(h, sz), b)
    IN  Give(h2, b)

\* Bytes from block w to the next page boundary, a whole page if w is on one.
Extra(w) == PG_SZ - (w % PG_SZ)

\* Size of the block left between block w and the page.  It is not checked
\* and wraps when the boundary is less than 28 bytes away.
Lead(w) == u32(Extra(w) - BLCK_OVERHEAD - 8)

\* Mutant of NewWild: the header and footer of the page are not counted.
NewWild_NoOverhead(ret, sz) == ret + sz

NewWild(ret, sz) == ret + sz + BLCK_OVERHEAD

\* Header of the block that kheap_alloc_a gives out.
PageBlock(h) ==
    LET w == get_wilderness(h) IN u32(w + Lead(w) + BLCK_OVERHEAD)

\* The last block w shrinks to the lead block in front of the page.
CutLead(h, w) ==
    LET h1 == remove_block(SetHole(h, w, 1), get_bin_index(size(h, w)), w)
        h2 == SetHole(create_foot(SetSize(h1, w, Lead(w)), w), w, 1)
    IN  add_block_sorted(h2, get_bin_index(size(h2, w)), w)

\* The page, with its header at ret, and a new last block follow it; w had m
\* bytes before.
CutPage(h, w, m, ret, sz) ==
    LET h1   == SetHole(create_foot(SetSize(h, ret, sz), ret), ret, 0)
        new  == NewWild(ret, sz)
        left == u32(m - size(h1, w) - size(h1, ret) - 2 * BLCK_OVERHEAD)
        h2   == create_foot(SetHole(SetSize(h1, new, left), new, 1), new)
    IN  add_block_sorted(h2, get_bin_index(size(h2, new)), new)

\* The last block becomes a lead block, the page and a new last block.  The
\* test for a block that lies on a page boundary already uses && for & and
\* never succeeds, so its branch is dead.  Nothing checks that the last block
\* is a hole or large enough.
kheap_alloc_a(h, sz) ==
    LET w   == get_wilderness(h)
        g   == CutLead(h, w)
        ret == u32(w + size(g, w) + BLCK_OVERHEAD)
    IN  Give(CutPage(g, w, size(h, w), ret, sz), ret)

\* Block b is joined to the hole p in front of it.
JoinPrev(h, b, p) ==
    LET h1 == remove_block(h, get_bin_index(size(h, p)), p)
        h2 == SetSize(h1, p, size(h1, p) + BLCK_OVERHEAD + size(h1, b))
    IN  Store(h2, {get_foot(h2, b)}, p)

\* Mutant of JoinNext: the overhead is added twice.
JoinNext_Longer(h, b, n) ==
    LET h1 == remove_block(h, get_bin_index(size(h, n)), n)
        h2 == SetSize(h1, b, size(h1, b) + 2 * BLCK_OVERHEAD + size(h1, n))
    IN  create_foot(SetSize(Store(h2, {get_foot(h2, n)}, 0), n, 0), b)

\* The hole n behind block b is joined to b.
JoinNext(h, b, n) ==
    LET h1 == remove_block(h, get_bin_index(size(h, n)), n)
        h2 == SetSize(h1, b, size(h1, b) + BLCK_OVERHEAD + size(h1, n))
        h3 == SetSize(Store(h2, {get_foot(h2, n)}, 0), n, 0)
    IN  create_foot(h3, b)

\* Holes in front of and behind the block are joined to it, except that the
\* first block of the heap goes to its bin as it is.
kheap_free(h, addr) ==
    LET b  == addr - OFFSET
        n  == get_foot(h, b) + 4
        p  == Load(h, b - 4)
        h1 == IF hole(h, p) # 0 THEN JoinPrev(h, b, p) ELSE h
        b1 == IF hole(h, p) # 0 THEN p ELSE b
        h2 == IF hole(h1, n) # 0 THEN JoinNext(h1, b1, n) ELSE h1
        InBin(g, c) == add_block_sorted(SetHole(g, c, 1), get_bin_index(size(g, c)), c)
    IN  IF b = Start THEN InBin(h, b) ELSE InBin(h2, b1)

-----------------------------------------------------------------------------
(* Views of a heap, for the properties.                                    *)

\* Headers met when walking the heap by sizes; from[b] are those from b on.
BlocksOf(h) ==
    LET from[b \in Nat] ==
            IF b >= End THEN {} ELSE {b} \cup from[b + size(h, b) + BLCK_OVERHEAD]
    IN  from[Start]

InBins(h) == UNION {ToSet(Bin(h, i)) : i \in 0 .. BIN_CNT - 1}

\* Bin i is sorted by size, holds blocks of its sizes only, and the back
\* links that remove_block follows (all but the head's) are right.
BinWellFormed(h, i) ==
    LET list == Bin(h, i)
    IN  /\ \A k \in DOMAIN list : get_bin_index(size(h, list[k])) = i
        /\ \A k \in 2 .. Len(list) :
              /\ size(h, list[k - 1]) <= size(h, list[k])
              /\ prev(h, list[k]) = list[k - 1]
=============================================================================
