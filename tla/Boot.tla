-------------------------------- MODULE Boot --------------------------------
(***************************************************************************)
(* Memory set-up at boot: the allocation pointer of kern/mm/kmalloc.c,     *)
(* which pmm_init, vmm_init and kheap_pre_init take their structures from, *)
(* and the mapping of the kernel and its heap by vmm_init.                 *)
(*                                                                         *)
(* Addresses are offsets from 0xC0000000, where they equal the physical    *)
(* address.  Page i is the page at offset i * PG_SZ.                       *)
(***************************************************************************)
EXTENDS PageOps

CONSTANTS
    KernelEnds,     \* where the kernel image may end
    BitsetBytes,    \* size of the words of the frame bit set
    TabPages,       \* pages of one page table (1024)
    HeapStart,      \* first page of the heap, KHEAP_START
    HeapPages,      \* number of pages from KHEAP_START to KHEAP_END
    Reserved        \* frames that pmm_init marks

PG_SZ == 4096

ASSUME BootAssumption ==
    /\ KernelEnds \subseteq Nat /\ BitsetBytes \in Nat
    /\ TabPages \in Nat \ {0}
    /\ HeapPages \in 0 .. TabPages
    /\ HeapStart \in Nat /\ HeapStart % TabPages = 0
    /\ Reserved \subseteq Frames

VARIABLES
    alloc_ptr,  \* the static alloc_ptr
    taken,      \* ranges that kmalloc returned: <<first byte, last byte>>
    used,       \* marked frames
    tables,     \* indices of the page tables of kern_dir that exist
    pages,      \* pages[i]: entry of every page that was mapped
    next,       \* the page that vaddr of the current loop is on
    phase       \* how far the boot is

vars == <<alloc_ptr, taken, used, tables, pages, next, phase>>

-----------------------------------------------------------------------------
\* An address on a page boundary is moved to the next one as well.
PG_ROUND_UP(a) == (a \div PG_SZ) * PG_SZ + PG_SZ

Aligned(a, aligned) == IF aligned THEN PG_ROUND_UP(a) ELSE a

\* Mutant of kmalloc_helper: the pointer does not move past the padding.
kmalloc_helper_Padding(a, sz, aligned) == a + sz

\* kmalloc_helper before the heap exists: sz bytes at the pointer.
kmalloc_helper(a, sz, aligned) == Aligned(a, aligned) + sz
Range(a, sz, aligned) == <<Aligned(a, aligned), Aligned(a, aligned) + sz - 1>>

PgDirBytes == 2 * 4096 + 4      \* sizeof(pg_dir_t)
HeapBytes == 52 + 9 * 4         \* heap_t and nine bin_t, one behind the other

Table(i) == i \div TabPages

\* get_page(i, 1, kern_dir): a missing table takes a page of its own.
get_page(i) ==
    IF Table(i) \in tables
    THEN UNCHANGED <<alloc_ptr, taken, tables>>
    ELSE /\ alloc_ptr' = kmalloc_helper(alloc_ptr, PG_SZ, TRUE)
         /\ taken' = taken \cup {Range(alloc_ptr, PG_SZ, TRUE)}
         /\ tables' = tables \cup {Table(i)}

\* get_page and map_page for page i.
MapPage(i, addr) ==
    LET pg == IF i \in DOMAIN pages THEN pages[i] ELSE Unmapped
        r  == map_page(pg, used, addr)
    IN  /\ get_page(i)
        /\ pages' = [j \in DOMAIN pages \cup {i} |-> IF j = i THEN r.page ELSE pages[j]]
        /\ used' = r.used

-----------------------------------------------------------------------------
Init ==
    /\ alloc_ptr \in KernelEnds
    /\ taken = {<<0, alloc_ptr - 1>>}
    /\ used = {}
    /\ tables = {}
    /\ pages = <<>>
    /\ next = 0
    /\ phase = "pmm"

\* pmm_init: the bit set and its words, then the reserved frames.
PmmInit ==
    /\ phase = "pmm"
    /\ alloc_ptr' = kmalloc_helper(alloc_ptr, 8 + BitsetBytes, FALSE)
    /\ taken' = taken \cup {Range(alloc_ptr, 8 + BitsetBytes, FALSE)}
    /\ used' = used \cup Reserved
    /\ phase' = "dir"
    /\ UNCHANGED <<tables, pages, next>>

\* vmm_init up to its first loop: kern_dir, frame 0, kheap_pre_init.
VmmInit ==
    /\ phase = "dir"
    /\ LET a == kmalloc_helper(alloc_ptr, PgDirBytes, TRUE)
       IN  /\ alloc_ptr' = kmalloc_helper(a, HeapBytes, FALSE)
           /\ taken' = taken \cup {Range(alloc_ptr, PgDirBytes, TRUE), Range(a, HeapBytes, FALSE)}
    /\ used' = used \cup {0}
    /\ next' = 0
    /\ phase' = "kernel"
    /\ UNCHANGED <<tables, pages>>

\* Mutant of ToMap: the extra page at the end is left out.
ToMap_NoExtra(i) == i * PG_SZ <= alloc_ptr

\* The condition of the first loop: kmalloc_get_end() is read every time.
ToMap(i) == i * PG_SZ <= alloc_ptr + PG_SZ

\* Mutant of MapKernel: the address of the loop is not advanced.
MapKernel_Stuck ==
    /\ phase = "kernel"
    /\ ToMap(next)
    /\ MapPage(next, next)
    /\ UNCHANGED <<next, phase>>

\* One round of the first loop: page i at physical page i.
MapKernel ==
    /\ phase = "kernel"
    /\ ToMap(next)
    /\ MapPage(next, next)
    /\ next' = next + 1
    /\ UNCHANGED phase

MapKernelEnd ==
    /\ phase = "kernel"
    /\ ~ ToMap(next)
    /\ next' = HeapStart
    /\ phase' = "heap"
    /\ UNCHANGED <<alloc_ptr, taken, used, tables, pages>>

\* One round of the second loop: any frame for a page of the heap.
MapHeap ==
    /\ phase = "heap"
    /\ next < HeapStart + HeapPages
    /\ MapPage(next, NoAddr)
    /\ next' = next + 1
    /\ UNCHANGED phase

\* switch_page_directory(kern_dir) turns paging on, and kheap_init.
PagingOn ==
    /\ phase = "heap"
    /\ next = HeapStart + HeapPages
    /\ phase' = "on"
    /\ UNCHANGED <<alloc_ptr, taken, used, tables, pages, next>>

Next == PmmInit \/ VmmInit \/ MapKernel \/ MapKernelEnd \/ MapHeap \/ PagingOn

Spec == Init /\ [][Next]_vars /\ WF_vars(Next)

-----------------------------------------------------------------------------
(* Properties.                                                             *)

\* The pages with a byte of a range.
PagesOf(r) == r[1] \div PG_SZ .. r[2] \div PG_SZ

\* When paging goes on, everything the boot allocator gave out (the tables
\* that the mapping itself needed included) is mapped at its own address,
\* except what lies in page 0.
TakenMapped ==
    phase = "on" =>
        \A r \in taken : \A i \in PagesOf(r) \ {0} :
            i \in DOMAIN pages /\ pages[i] = [present |-> TRUE, addr |-> i]

\* No page of the heap shares a frame with the kernel, with what the boot
\* allocator gave out, or with another page of the heap.
HeapFramesOwn ==
    phase = "on" =>
        LET heap == HeapStart .. HeapStart + HeapPages - 1
        IN  /\ \A i \in heap, r \in taken : pages[i].addr \notin PagesOf(r)
            /\ \A i, j \in heap : i # j => pages[i].addr # pages[j].addr

\* The ranges kmalloc returned are disjoint, whatever their alignment.
TakenDisjoint ==
    \A r, s \in taken : r # s => r[2] < s[1] \/ s[2] < r[1]

\* The loop over kmalloc_get_end() ends although it moves the end itself.
BootEnds == <>(phase = "on")
=============================================================================
