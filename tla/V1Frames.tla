------------------------------ MODULE V1Frames ------------------------------
(***************************************************************************)
(* Memory set-up of the first version of the system: v1/os/pmm.c keeps the *)
(* free frames on a stack that grows into the memory behind the kernel,    *)
(* that is into the very frames that are on it, and init_paging of         *)
(* v1/os/vmm.c takes frames from it for the heap.                          *)
(*                                                                         *)
(* Addresses are bytes.  Sizes are scaled down: a page is PAGE bytes and   *)
(* addresses have Word values.  Interrupts are on, but no handler of this  *)
(* version touches this state.                                             *)
(***************************************************************************)
EXTENDS Integers, Sequences, FiniteSets

CONSTANTS
    PAGE,       \* 0x1000
    Word,       \* 2^32
    MiB,        \* 0x100000
    KernEnds,   \* where the linker may put the symbol end
    HeapPages,  \* KHEAP_INIT_SIZE in pages
    HeapBytes,  \* sizeof(heap_t) and eleven times sizeof(bin_t)
    Maps,       \* memory maps: sequences of entries
    Behind      \* what may be in memory behind the last entry

ASSUME V1FramesAssumption ==
    /\ PAGE \in Nat /\ PAGE % 4 = 0 /\ PAGE > 4
    /\ Word \in Nat \ {0} /\ Word % PAGE = 0
    /\ MiB \in Nat /\ PAGE <= MiB
    /\ \A e \in KernEnds : e \in Nat /\ MiB <= e
    /\ HeapPages \in Nat /\ HeapBytes \in Nat
    /\ Maps \subseteq Seq([addr : Nat, len : Nat \ {0}, type : Nat])

VARIABLES
    kern_end,       \* address of the symbol end
    map,            \* the memory map, and what follows it
    entry,          \* number of the entry mmap points to
    curr, last,     \* init_pmm's curr and alloc_end
    placement_addr, \* the global placement_addr
    mem,            \* the words that push_frame has stored
    top,            \* the global top
    heap,           \* frames of the heap's pages, in the order they are mapped
    phase           \* "map", "push", "paging", "heap" or "on"

bottom == kern_end
NoFrame == -1

vars == <<kern_end, map, entry, curr, last, placement_addr, mem, top, heap, phase>>

-----------------------------------------------------------------------------
Init ==
    /\ kern_end \in KernEnds
    /\ \E m \in Maps, e \in Behind : map = Append(m, e)
    /\ entry = 1
    /\ curr = 0 /\ last = 0
    /\ placement_addr = kern_end
    /\ mem = <<>>
    /\ top = 0
    /\ heap = <<>>
    /\ phase = "map"

RoundUp(a) == IF a % PAGE # 0 THEN a + (PAGE - (a % PAGE)) ELSE a
RoundDown(a) == a - (a % PAGE)

\* One round of the loop over the map.  The pointer moves on before the entry
\* is read, so the first entry is skipped and the round for the last entry
\* reads what is behind the map.  Start and end lose the bits above 32.
ReadEntry ==
    /\ phase = "map" /\ entry < Len(map)
    /\ LET e == map[entry + 1]
       IN  IF e.type = 1 /\ e.addr >= MiB
           THEN /\ curr' = RoundUp(e.addr % Word) % Word
                /\ last' = RoundDown((e.addr + e.len) % Word)
                /\ phase' = "push"
           ELSE UNCHANGED <<curr, last, phase>>
    /\ entry' = entry + 1
    /\ UNCHANGED <<kern_end, map, placement_addr, mem, top, heap>>

\* Mutant of InRegion: the page behind the region is pushed, too.
InRegion_Long == curr < (last + PAGE) % Word

\* The condition of the inner loop.
InRegion == curr < (last - PAGE) % Word

\* placement_addr after a kmalloc, while there is no heap; what was there
\* before is the address of the memory given out.
kmalloc(addr, sz) == addr + sz

push_frame(addr) ==
    /\ mem' = [a \in DOMAIN mem \cup {placement_addr} |->
                 IF a = placement_addr THEN addr ELSE mem[a]]
    /\ top' = placement_addr
    /\ placement_addr' = kmalloc(placement_addr, 4)

\* Mutant of PushRegion: the region is pushed from its end.
PushRegion_Down ==
    /\ phase = "push" /\ InRegion
    /\ last' = last - PAGE
    /\ IF last - PAGE > kern_end THEN push_frame(last - PAGE)
       ELSE UNCHANGED <<mem, top, placement_addr>>
    /\ UNCHANGED <<kern_end, map, entry, curr, heap, phase>>

PushRegion ==
    /\ phase = "push" /\ InRegion
    /\ IF curr > kern_end THEN push_frame(curr) ELSE UNCHANGED <<mem, top, placement_addr>>
    /\ curr' = (curr + PAGE) % Word
    /\ UNCHANGED <<kern_end, map, entry, last, heap, phase>>

RegionDone ==
    /\ phase = "push" /\ ~ InRegion
    /\ phase' = "map"
    /\ UNCHANGED <<kern_end, map, entry, curr, last, placement_addr, mem, top, heap>>

\* Moves on to the next page even from the start of one.
page_round(addr) == RoundDown(addr) + PAGE

\* init_paging: the heap's structure and its bins.  The pages up to
\* placement_addr are mapped to the frames of the same address.
InitPaging ==
    /\ phase = "map" /\ entry = Len(map)
    /\ placement_addr' = page_round(kmalloc(placement_addr, HeapBytes))
    /\ phase' = "heap"
    /\ UNCHANGED <<kern_end, map, entry, curr, last, mem, top, heap>>

\* The frame on top, -1 when only the one at the bottom is left.  A map that
\* pushes no frame at all is left out: top is 0 then, which is not bottom, and
\* the frame is whatever address 0 holds.
pop_frame(t) == IF t = bottom THEN [top |-> t, addr |-> NoFrame] ELSE [top |-> t - 4, addr |-> mem[t]]

\* One page of the heap: get_page and alloc_frame.
MapHeapPage ==
    /\ phase = "heap" /\ Len(heap) < HeapPages
    /\ LET p == pop_frame(top) IN top' = p.top /\ heap' = Append(heap, p.addr)
    /\ UNCHANGED <<kern_end, map, entry, curr, last, placement_addr, mem, phase>>

\* switch_page_directory and init_heap, which stores a header into the first
\* page of the heap and a footer into the last one.
EnablePaging ==
    /\ phase = "heap" /\ Len(heap) = HeapPages
    /\ phase' = "on"
    /\ UNCHANGED <<kern_end, map, entry, curr, last, placement_addr, mem, top, heap>>

Next == ReadEntry \/ PushRegion \/ RegionDone \/ InitPaging \/ MapHeapPage \/ EnablePaging

Spec == Init /\ [][Next]_vars

-----------------------------------------------------------------------------
(* Properties.                                                             *)

\* The maps of a machine with less than 4 GiB as firmware reports them: in the
\* order of their addresses, no entry starts in the last page of the address
\* space, and what is behind the map does not look like available memory.
OrderedMaps ==
    /\ \A m \in Maps : \A i \in DOMAIN m :
          /\ m[i].addr + m[i].len <= Word /\ m[i].addr + PAGE <= Word
          /\ \A j \in DOMAIN m : i < j => m[i].addr + m[i].len <= m[j].addr
    /\ \A e \in Behind : ~ (e.type = 1 /\ e.addr >= MiB)

PageOf(f) == f .. f + PAGE - 1
Given == {heap[i] : i \in DOMAIN heap} \ {NoFrame}

\* The bytes of the stack's words that are still to be read.
LiveBytes == UNION {a .. a + 3 : a \in {b \in DOMAIN mem : b <= top}}

\* The stack lies in frames that are on it, and is right all the same: no
\* frame that was popped, and that the heap now owns, holds a word of the
\* stack that a later pop_frame reads.
StackNotGivenAway == \A f \in Given : LiveBytes \cap PageOf(f) = {}

\* Frames that hold the stack, the heap's structure and its bins.
KernelPages == {RoundDown(a) : a \in kern_end .. placement_addr - 1}

\* "which addresses we push to the frame stack and which ones we shouldn't":
\* a frame is given out once, and lies behind the kernel and in memory that
\* the map calls available.  With enough memory for both, the heap is in other
\* frames than the kernel's own data, although those were pushed as well.
FramesOwn ==
    /\ \A i, j \in DOMAIN heap : i # j /\ heap[i] # NoFrame => heap[i] # heap[j]
    /\ \A f \in Given :
          /\ f > kern_end /\ f % PAGE = 0
          /\ \E i \in 1 .. Len(map) - 1 :
                /\ map[i].type = 1
                /\ map[i].addr <= f /\ f + PAGE <= map[i].addr + map[i].len
    /\ phase = "on" /\ Cardinality(DOMAIN mem) > HeapPages + Cardinality(KernelPages)
          => (\A i \in DOMAIN heap : heap[i] # NoFrame) /\ Given \cap KernelPages = {}
=============================================================================
