# Verification of the toe-s kernel

toe-s is a small 32-bit x86 kernel written in C. `kern/` is the current version,
`v1/` an older one, `tests/` three programs for the host. This directory holds
TLA+ models of the current kernel and of parts of the older one, TLC
configurations that check them on small instances, and TLAPS proofs of the main
results for every instance.

All file names below are relative to `src/`.

## 1. The system

`kmain` runs on one processor. It sets up the console, the descriptor tables
(from here on interrupts are enabled), physical memory, paging and the heap, the
timer and tasking; then it forks once, and parent and child are meant to print for
ever (the child never comes to that, see 5).
Nothing is ever written to a disk and there is no second processor: the only
concurrency is that of interrupt handlers with the code they interrupt.

| component | source | state | operations that change it |
|---|---|---|---|
| bit set | `kern/ds/bitset.c` | number of words, words | `bs_init`, `bs_set`, `bs_clr` |
| physical memory | `kern/mm/pmm.c` | `frames`, a bit for every 4 KiB frame | `pmm_init`, `get_frame`, `set_frame`, `free_frame` |
| boot allocator | `kern/mm/kmalloc.c` | `alloc_ptr` | `kmalloc*` until the heap exists |
| heap | `kern/mm/kheap.c` | 1 MiB of blocks with header and footer, nine bins of holes | `kheap_init`, `kheap_alloc`, `kheap_alloc_a`, `kheap_free` |
| paging | `kern/mm/vmm.c` | directories, tables, `current_dir` | `vmm_init`, `get_page`, `map_page`, `unmap_page`, `allocate_stack`, `relocate_stack`, `copy_pg_dir`, `switch_page_directory` |
| tasks | `kern/proc/sched.c`, `task.c`, `asm/switch.S` | ready list, `current`, `next_tid`, a context and a directory per task | `tasking_init`, `fork`, `schedule`, `add_task`, `pop_task`, `ctx_swtch` |
| timer | `kern/misc/timer.c` | `ticks` | `timer_handler` |
| interrupts | `kern/x86/int.c`, `asm/int.S` | handler table, the two interrupt controllers, frames on the stack | `add_int_handler`, `irq_handler`, `isr_handler` |
| console | `kern/misc/vga.c`, `klib.c` | `cursor`, video memory, the buffer of `itoa` | `vga_write_char`, `vga_scroll`, `kprintf` |
| tables, boot code | `kern/x86/gdt.c`, `idt.c`, `asm/boot.S`, `gdt.S` | processor tables, controllers | `gdt_init`, `idt_init`, `pic_remap`, `*_install`: set-up only |
| first version | `v1/os/*` | a stack of frames, a heap, its own tables and handlers, a keyboard state | `init_pmm`, `push_frame`, `pop_frame`, `init_paging`; `init_idt`, `irq_handler` |

How they interact. `vmm` takes frames from `pmm` and memory for tables from
`kmalloc`; `kmalloc` passes requests on to the heap once `kheap_init` ran; the
heap lives in pages that `vmm_init` maps. `fork` copies the directory of the
current task page by page through one page at 0xE0000000. The timer interrupt
ends in `schedule`, which works on the list `fork` adds to. Everybody prints,
handlers too.

What is hard. Memory management is sequential, but its invariants span many
calls: a footer written by one split is trusted by a join many calls later, a
frame freed under a wrong number is granted twice much later, and the loop that
maps the kernel moves its own bound. Tasking is concurrent: the timer rotates
the ready list between any two accesses of `fork`, and `fork` copies the stack on
which it and the timer run. The console has one cursor
and one buffer for digits, for handlers and the code they interrupt. Interrupts
are on before any handler is registered, come through two cascaded controllers
that must both be told when one is over, and may have been withdrawn by then.

What makes each part correct:

* physical memory: no frame has two owners, and no reserved frame has one;
* heap: blocks tile the heap, footers and bins agree with the blocks, and what a
  caller got is its own, unmoved and untouched, until it gives it back;
* boot: when paging goes on, everything allocated so far stays reachable at its
  address, and the heap gets frames of its own;
* address spaces: a directory has its own frames below the kernel, each of its pages
  holds what the parent's page held when it was copied, and it shares the kernel's
  tables;
* tasks: no task is dropped, children wait in the order of their forks, no walk over
  the list runs in a circle, and the rotation comes to every forked task;
* interrupts: each arrives under its own number, comes back to where it left with
  the segment registers as they were, leaves nothing in service, and every request
  is taken in the end;
* console: the screen shows the last rows of what was printed, and a number reads
  back as its value;
* first version: its stack of free frames survives although it lies in frames
  that are on it.

## 2. Modules

| module | models | checked as |
|---|---|---|
| `Bitset` | `bitset.c`: a set in a sequence of 32-bit words | part of `PMM` |
| `PMM` | `pmm.c` and its callers (`held`: frames a caller was given) | run `pmm` |
| `FramePool` | what `pmm` promises: each frame free or used | property `PoolSpec` |
| `PMMProofs` | proofs about `PMM` | TLAPS |
| `KHeapOps` | `kheap.c`, word by word: headers, footers, links, bins | below |
| `KHeap` | the heap with callers that store into their memory | runs `kheap`, `kheap_wilderness` |
| `KHeapProofs` | proofs about `KHeap`, down to the words | TLAPS |
| `BlockChain` | the heap as blocks with sizes, some of them free | property `ChainSpec`, run `blockchain` |
| `HeapSpec` | what callers of `kmalloc` rely on | property `HeapContract` |
| `BlockChainProofs` | proofs about `BlockChain` | TLAPS |
| `PageOps` | a page table entry and its frame: `map_page`, `unmap_page` | part of the next two |
| `Boot` | `alloc_ptr`, `pmm_init`, `vmm_init` | run `boot` |
| `BootProofs` | proofs about `Boot` | TLAPS |
| `VMM` | stacks, `copy_pg_dir`, `relocate_stack`, `fork`'s part of memory | run `vmm` |
| `VMMProofs` | proofs about `VMM` | TLAPS |
| `Sched` | `sched.c`, `task.c`, `timer.c`, the interrupt path, `switch.S` | runs `sched`, `sched_early` |
| `SchedProofs` | proofs about `Sched` | TLAPS |
| `Console` | `vga.c`, `kprintf`, `itoa` and its buffer | runs `console`, `console_irq` |
| `PIC` | the two 8259 controllers, as `outport` and the processor see them (external) | part of `Interrupts` |
| `Interrupts` | `gdt.c`, `idt.c`, `int.c`, `gdt.S`, `int.S`, and the same of `v1/os` | run `interrupts` |
| `InterruptsProofs` | proofs about `Interrupts` | TLAPS |
| `V1Frames` | `v1/os/pmm.c` and `init_paging` of `v1/os/vmm.c` | run `v1_frames` |
| `V1FramesProofs` | proofs about `V1Frames` | TLAPS |

`MC*` modules give the constants of each their values. Operators that a mutant
uses stand in front of the definition they are a mutant of and are named
`<definition>_<Mutation>`; no specification uses them.

Three levels of the heap. `KHeap` has the bytes: `heap.mem` maps word addresses
to words and `heap.bins` has the nine list heads. `BlockChain` has two
variables, the size of every block by its address and the set of free blocks.
`HeapSpec` has one, the ranges that callers own. `KHeap` implements
`BlockChain`, and `BlockChain` implements `HeapSpec` (both checked and
proved). In the same way `PMM` implements `FramePool`, and `PageOps` uses a set
of marked frames in place of the bit set on the strength of that.

Steps. Without concurrency an operation is one action: nothing can be observed
in between. Where handlers interrupt, the interrupted code is cut at every
access to shared state (`ForkAddStart`, `ForkAddTest`, `ForkAddStep`, `ForkAddLink` in
`Sched`: line 27 reads `tmp->next` once for the test and once for the assignment;
`Convert`, `WriteCheck`, `WritePut` in `Console`), and a handler, which runs with
interrupts off, is one action. `Interrupts` looks inside: a frame on `stack` has
the statements of `irq_handler` or `isr_handler` that are still to be done, and
devices make requests, and exceptions happen, between any two of them. Loops of
`vmm_init` and `copy_pg_dir` are one action per round, because each round calls into
other components. `copy_pg_dir` runs on the stack of the task that forks, which is one
of the things it copies: between any two rounds that stack changes (`Write`). The
value of a page in `VMM` stands for one word of it, which `memcpy` copies at one
moment; a store during a round comes before that moment or behind it.

Undefined values. Memory that nobody wrote is a choice: the words `bs_init` does
not clear (`RamWords`), the hole field `kheap_init` does not set, the heads of the
bins (`stray`: `kheap_pre_init` takes them with `kmalloc` and nothing sets them), the
hole flag behind the heap (`behind`), the `next` field of a new task (`Fills`), the
stack of a task that never ran (`ScheduleFresh`: the machine stops, or goes on with
interrupts off and never returns to `irq_handler`). A pointer that nobody wrote may
lead anywhere. The models name the step that follows it and stop there: `GoAstray` in
`KHeap`, `ForkAddFaults` and `ScheduleWild` in `Sched`. What the invariants say holds
up to and including that step's state.

## 3. Runs

| run | bounds | what it shows |
|---|---|---|
| `pmm` | 32 page frames, which `bs_init` rounds up to two words, 4 memory maps with aligned, unaligned and high regions, used memory | `NoDoubleGrant`, `HeldAreMarked`: callers never share a frame. `ReservedNeverHeld`. `PoolSpec`: implements `FramePool` |
| `kheap` | a heap of four pages, requests of 28 bytes, of all but 88 bytes and of a page, 2 owners; bin heads that are all NULL or hold something in bin 2, 4 or 8, and both values of the byte behind the heap | `FootersMatch`, `BinsWellFormed`, `HolesAreBinned`: the structure survives every order of calls and callers' stores. `PayloadIntact`, `LiveNotFree`. `ChainSpec` |
| `kheap_wilderness` | three pages, one request for all of them | violates `LiveDisjoint`, see 5 |
| `blockchain` | four pages, sizes around the page boundary | `Tiled`, `HeapContract` |
| `boot` | 19 ends of the kernel around page boundaries, tables of 4 pages | `TakenMapped`, `HeapFramesOwn`, `TakenDisjoint`, `BootEnds` |
| `vmm` | stacks of two pages, the first task and three forks, stores between rounds of the copy, memory from ample to none | `PrivateFrames`, `MappedMarked`, `CopyKept`, `KernelShared` |
| `sched` | five tasks, a switch every second tick, zero and non-zero memory | `NoTaskLost`, `ForkOrder`, `WalkEnds`, `ForkedTaskChosen` |
| `sched_early` | two tasks | violates `ScheduleHasTask`, see 5 |
| `console` | a screen of 2 rows of 3, two scrolls, 9-bit words; a handler prints a number | `WindowOnPaper`, `CursorInScreen`. `NumbersReadBack`: in every base, unless a handler converts a number meanwhile. `NumberKeepsLength`: then digits are replaced, but no more or fewer are written |
| `console_irq` | the same, with handlers inside `vga_write_char` | violates `CursorInScreen`, see 5 |
| `interrupts` | both versions of the kernel; the timer and two devices on the slave, two requests each, each of which may be withdrawn; one exception, with or without an error code, at any point | `ComesBack`, `OwnNumber`, `NothingInService`, `SegmentsKept`, `RequestTaken` |
| `v1_frames` | pages of 4 words, three ends of the kernel, main memory of every length from 4 to 10 pages, three shapes of the map above it | `StackNotGivenAway`, `FramesOwn` |

The runs `pmm`, `kheap`, `blockchain`, `sched` and `vmm` check a type invariant
(`TypeOK`) as well.

Why the bounds are enough. The bit set needs a word boundary and a size that is
a multiple of 32, where `bs_init` rounds up; both occur. A join in the heap
looks at one neighbour on each side, and the lead block and the rest that a page
request leaves give two owners every combination of used and free around a block,
and bins with several blocks; the sizes make a split, a fit that is given out
whole (4 to 20 bytes left over) and exhaustion occur. Bin 8 takes the first block, so
that a head there ends the heap before it is used; bin 4 takes what the large request
leaves, so that the heap works for some calls before it meets that head; the search
for 28 bytes begins at bin 2, which other requests do not meet. `boot` covers each
position of the kernel's end at which one of the allocations moves to another
page; with tables of 4 pages instead of 1024 the loop needs several tables and
makes itself longer, which on the machine takes a kernel of 4 MiB. In `sched`
five tasks let the list rotate while `fork` is anywhere in its walk. A screen of
two rows is the smallest on which a scroll keeps something. In `interrupts` two
requests of a device let one be in service while the next waits, and lines 0, 8
and 12 order the devices on both controllers. Exceptions are bounded because one
whose cause stays comes back for ever; the kernel has no handler that removes a
cause. In `v1_frames` pages of four words let the stack of frames grow over
several pages, which on the machine takes 4 MiB per page.

Deadlock. Only `pmm` has no end. The other systems stop where the kernel does: a
fault, the bound on tasks or rows, the end of the boot, a full heap. Their
configurations say `CHECK_DEADLOCK FALSE`.

Fairness. `Boot` has weak fairness of its next step: it is straight-line code.
`Sched` has weak fairness of the timer, which the PIT drives for as long as
interrupts are on, and of the statements of `tasking_init` and `add_task`,
which the processor executes between interrupts. `fork` itself need not be
called. `Interrupts` has weak fairness of the steps of `kmain`, of the steps of
the innermost handler, since code goes on unless it is interrupted, and of
`Take`: with interrupts on, the processor asks the controller before every
instruction. Devices and exceptions need not occur. `PMM`, `KHeap`, `VMM`, `Console` and `V1Frames` state safety only.

## 4. Proofs

`PMMProofs` (for every memory size, memory map and sequence of calls):

* `TypeCorrect`: `TypeOK`.
* `HeldMarked`, `NoDoubleGrantCorrect`: `HeldAreMarked` is inductive together
  with `TypeOK`: a frame somebody holds has its bit set, so the first clear bit
  is of a frame nobody holds. The lemmas about `Bitset` show what setting and
  clearing a bit does to the set that words and offsets stand for.
* `ReservedProtected`: needs the strengthening `ReservedMarked` (reserved frames
  stay marked once `pmm_init` ran) and one assumption, `FramesAddressable`, that the
  counted frames have 32-bit addresses. Regions may start and end anywhere:
  `ReservedFrames` has every frame that a region covers beyond the offset of its base,
  so each whole page and the page of its first byte (0x9F000 of the usual region at
  0x9FC00). Of an unaligned region the frame of its last bytes may be missing, see 5.
* `PoolRefinement`: `PMM` implements `FramePool`. That `get_frame` takes the
  lowest free frame needs an induction over the words of the bit set, done by
  minimal counterexample on the natural numbers.

`BlockChainProofs` (for every heap size and all sets of request sizes):

* `TypeCorrect`, `TilingCorrect`: `TypeOK /\ Tiled` is inductive. `Tiled` says
  that every block ends where another one starts or at the end of the heap, and
  that none starts inside another. `Cut` and `Join` have a lemma each that says
  what they do to such a chain.
* `HeapRefinement`: with what callers own read off the blocks in use, every step
  is a step of `HeapSpec` or a stutter. Tiling is what makes the new owner's
  range disjoint from all others.

The guard `RoomForPage` of page requests is an assumption about callers, which
`kheap_alloc_a` does not check: they ask for a page only when the last block is free and the page fits behind a lead
block of positive size. The kernel's own requests meet it (page tables and
directories, on a heap that is mostly empty); section 5 has the others.

`KHeapProofs` (for every size of the heap in whole pages, every set of request sizes
that are multiples of the word, any number of owners, and everything that callers store):

* `HeapTypes`, `Footers`, `Bins`, `Holes`, `Payloads`, `OwnedNotFree`: the six
  invariants of run `kheap`, from every content of the bin heads and of the byte behind
  the heap. `OwnedDisjoint`: `LiveDisjoint`, which
  `kheap_wilderness` violates without `Careful`.
* `ChainRefinement`: what the code does to words is a step of `BlockChain` or none.
* `CallersServed`: with `HeapRefinement` it follows that the words of the heap
  implement `HeapSpec`, from `kheap_init` down to every store.

None of the invariants is inductive alone: `kheap_free` joins what the footer in front
and the hole flags tell it to join, the lists decide which block is given out, and a
list link is a word that a caller may have written. The invariant `HeapInv` says that
the memory represents a chain (`Rep`): there are a map f from blocks to sizes and nine
sequences L of blocks such that

* the blocks of f tile the heap, and each has its size in its header and its address in
  its footer (`Shape`, `Intact`);
* L[i] is what one meets along the next pointers of bin i, linked back as well, sorted,
  and of the sizes of that bin; no block is in two (`Linked`, `Sorted`); L[i] is empty
  for a bin whose head was not NULL at boot, because no operation that comes to such a
  bin goes on;
* the hole flag of a block says whether it is in some L[i]; only the flag of the very
  first block may be anything until it is given out (`FlagIs`, `Fresh`);
* callers own exactly the blocks in no list, and find in them zero or what they stored
  (`LiveIs`).

The argument goes from the bottom to the top. One store changes one word, and blocks
that do not overlap have different words (`SetNextLinks`, `SizeStored`). Hence the stores of
`add_block_sorted` and `remove_block`, in every case that they distinguish, put a block
into the sequence of a list or take it out (`LinkedIn`, `LinkedOutList`), and `Frame`
says what they leave alone. The loops over a list end because no list is longer than
`MaxBlocks`: its blocks lie apart (`FewBlocks`). The bins ascend with the sizes in them
and each is sorted, so the block that `kheap_alloc` finds is the best fit in the whole
heap (`BinIndexMonotone`). The allocators and `kheap_free` are then taken one store
group at a time; in between, the flag of the block at hand is not right yet, which is
why `Shape` has a set of blocks whose flags do not count.

The theorems have one hypothesis. `Careful`: callers ask for a page only with
`RoomForPage`, as in `BlockChainProofs`. Section 5 says what happens without it. Run
`kheap` has it too.

`VMMProofs` (for every number of frames, pages of a stack and directories, with any
memory in use at boot and no assumption that frames suffice):

* `TypeCorrect`, `FramesArePrivate`, `MappedFramesMarked`, `ForkKeepsCopy`,
  `TablesShared`: the five properties of run `vmm`. They are inductive together with
  what is true half way through a copy (`CopySoFar`: `snap`, what the parent's pages
  held when they were copied, is what the parent holds in the pages that are not done
  and what the new directory holds in those that are, whatever is stored in between), with what is not mapped yet (`NotYetMapped`,
  `TempEmpty`: `map_page` keeps the frame of a page that has one, so a new page must
  have none), and with `OwnStack`: a page can be present without a frame only in
  `kern_dir`, because `copy_pg_dir` skips such a page, and faults when it finds no
  frame for a copy. The last is why no assumption about the amount of memory is needed. `MapAny`, `MapAt` and `MapOut` say what
  `map_page` does with and without a free frame; `GiveFrame` that an unmarked frame
  for an empty page keeps all others apart.

`SchedProofs` (for every number of tasks, any tick count per switch and any value of
a `next` field nobody set):

* `TypeCorrect`, `NoTaskIsLost`, `OrderKept` (`ForkOrder`), `WalksEnd`. The inductive
  invariant has the shape of the list (`Chain`): while interrupts are on, the forked
  tasks follow each other in the order of their numbers and the first task is
  anywhere among them, or not in the list while it runs; and `add_task`'s pointer is
  on the chain or about to fault (`AddingAt`), also after rotations between the two
  reads of `tmp->next`. `FirstRuns` says why interrupts stay on only for the first
  task: its context is the only one that `schedule` can come back to. `Reach`, the
  tasks that a walk meets, is the least set closed under `next`, so that it needs no
  induction.

`BootProofs` (for every end of the kernel, number of frames, size of a table and place
of the heap):

* `BootAllocDisjoint`: what the boot allocator returned lies below its pointer.
* `BootAllocMapped`, `HeapFramesPrivate`: `TakenMapped` and `HeapFramesOwn` in every
  state with `EnoughMemory`: the pages that the kernel's loop maps exist and end below
  the heap, and a frame is left. Run `boot` has this in all of its states; without it
  `map_page` has nothing to map. The invariant says which pages are mapped at their own
  address at each point of the loop. The hard case is the first page of the heap, whose
  table is allocated when the loop is over: the loop has mapped one page more than was
  allocated (`ToMap`), and that is where the table goes (`HeapMapped`).

`V1FramesProofs` (for every page size, end of the kernel and size of the heap, and all
memory maps that meet `OrderedMaps`):

* `StackStays`: `StackNotGivenAway`. The stack grows from the end of the kernel at four
  bytes a frame, and the frames on it lie in ascending order at a page each, so that a
  frame on the stack never lies below the word it is written in (`Stack`). Frames are
  taken from the top, hence the words that are left lie below all that was given out.
* `FramesAreOwn`: `FramesOwn`, if the map has a frame at all. That enough memory keeps the
  heap away from the kernel's own pages is counting: more frames remain on the stack than
  the kernel has pages behind its end, so one of them, and with it every frame given
  out, lies behind those pages (by the pigeonhole theorem for finite sets).

`OrderedMaps` is what firmware reports on a machine with less than 4 GiB: entries
ascend and do not overlap, none starts in the last page of the address space, and what
lies behind the map does not look like available memory. The run assumes it too.
Section 5 says what happens otherwise.

`InterruptsProofs` (for both versions, every set of devices and exceptions and any
number of requests):

* `NumberOfLine`, `Acknowledges`, `Returns`, `SegmentsRestored`: `OwnNumber`,
  `NothingInService`, `ComesBack` and `SegmentsKept`. The lemmas `RemapPic`, `Segments`
  and `Gates` evaluate the ten bytes of `pic_remap` and the entries of both tables:
  after `idt_init` the controllers have their offsets and no mask, whatever they held
  before, and vector v leads to stub v. The invariant relates the controllers to the
  stack: interrupts are on only in `kmain`, so only the outermost frame can be of an
  interrupt; at most one line of each controller is in service, and then the
  acknowledgement is among the statements which that frame has still to do
  (`InService`). So the unspecific end of interrupt ends the right line, and a
  withdrawn request, which has nothing in service, takes nothing away. es and fs
  agree in every frame.
* `Returns` assumes `StubsFit`: none of the exceptions is one whose stub is wrong in a
  version that may run (17 in `kern`; 8 and 30 in `v1`). The others need nothing but that no
  device is on line 2, where the slave is.

Only model-checked: liveness (`BootEnds`, `ForkedTaskChosen`, `RequestTaken`), because
fairness and ENABLED are out of the prover's reach; and `Console`, whose properties
compare the screen with all that was ever printed through functions that recurse over
the text and over the digits of a number, which needs induction over data. What the
violation runs show is that a property fails, which needs no proof.

## 5. Where the code differs from its comments

Shown by a run:

* `kheap_wilderness`. `kheap.c:330` "we can assume the wilderness footer will
  always be at the end of the heap". Once `kheap_alloc` gave out the last block
  whole, `kheap_alloc_a` gives its bytes to a second caller.
* `sched_early`. `sched.c:68` "don't do anything if we havent initialized
  tasking". `tasking_init` sets `current` (line 63) before the list has a task
  (line 64), and a timer interrupt in between makes `schedule` go on with NULL.
* `console_irq`. `vga.c:18` `vga_scroll` "is called when we reach the end of
  video memory". The cursor is tested for equality and then used; a handler that
  prints in between moves it, and the store goes behind the screen.

Met while modelling, part of the models, but outside what the passing runs claim:

* `pmm.c:27`: the loop steps from the base of a reserved region in whole pages. When
  the base is not on a page boundary, and the region ends no further into its last
  page than it starts into its first, the frame of its last bytes stays free (hence
  the remainder in `ReservedFrames`).
* `pmm.c:28`: the address is truncated before it is compared with 0xffffffff, so
  the test of line 30 never fires and a region above 4 GiB marks low frames. Such
  a map is in run `pmm`: it costs frames, no property fails.
* `bitset.c:19`: the words are not cleared; whatever memory held marks frames.
  Also in run `pmm`.
* `kheap.c:58`: the nine bins are taken from the boot allocator and their heads are
  never set. When the memory behind the kernel does not hold zero there,
  `add_block_sorted` (line 228), `remove_block` (263) and `get_first_fit` (298) follow
  what it held (`stray`, `GoAstray`).
* `kheap.c:94`: when the last block starts less than 28 bytes in front of a page
  boundary, the size of the lead block wraps (hence `RoomForPage`).
* `kheap.c:172`: freeing the first block does not look at the block behind it,
  so two holes may stay side by side (`FreeFirst` in `BlockChain`).
* `kheap.c:193`: freeing the last block reads the hole flag of a header at
  `KHEAP_END`, which nobody wrote. With any byte but zero `kheap_free` joins a block that
  does not exist, and the last block grows beyond the heap (`behind`, `GoAstray`).
* `vmm.c:138`: the loop starts at physical address 0, which `map_page` takes for
  "any frame"; page 0 of the kernel gets a frame that is mapped a second time
  later (hence the exception in `TakenMapped`).
* `vmm.c:64`: without a free frame `map_page` leaves a page present with frame
  number 0.
* `vmm.c:232`: `fork` calls `copy_pg_dir` on the stack that is copied. The pages of a
  child are of different moments: the one copied first lacks what the later rounds,
  and handlers on top of them, stored into it (`Write` in phase `copy`). `CopyKept`
  says no more than that each page is what the parent's page was when it was copied.
* `task.c:6`: `next` of a new task is not set; `add_task` follows it
  (`ForkAddFaults`, `ScheduleWild`).
* `sched.c:27`: the loop reads `tmp->next` for its test and again for its assignment.
  With a child in the list, the timer may take `tmp` from the list in between
  (`pop_task`, line 37); then `tmp` becomes NULL, the next test faults, and the new
  task is in no list. `kmain` forks once and does not get there; the model has
  any number of forks.
* `sched.c:77`: `schedule` appends the running task although it is still in the list.
  At the first switch to a forked task the list is the first task alone, and its next
  pointer is set to itself: a walk along it would not end. Interrupts are off from
  then on, so nobody walks (hence `Interruptible` in `WalkEnds`).
* `sched.c:80`: a task that `fork` made has no frame of `schedule` on its stack.
  The first switch to it reaches neither `switch_page_directory` nor the
  acknowledgement of the interrupt (`int.c:72`). So the child that `sched.c:88` ("it is
  added to the task list to be scheduled") and `kmain.c:54` count on is chosen by
  `schedule` and never executes: `ForkedTaskChosen` says only the first of these, and
  `Interrupts` ends at `SwitchFresh`.
* `klib.c:25`: `itoa` returns a pointer into one static buffer. `map_page` prints
  an address when memory runs out (`vmm.c:54`), with interrupts on; an interrupt
  without a handler prints its number and replaces the last digits.
* `int.c:63`: no handler is registered for the keyboard, so its data port is never
  read and it sends one interrupt only.
* `int.S:39`: `irq_common` pushes es twice and restores fs from it;
  `gdt.S:12` says "load all the segment registers with 0x10" and leaves out gs.
  es and fs are always equal when an interrupt returns (`SegmentsKept`).
* `int.S`: the stub of exception 17 pushes a 0 although the processor pushes an
  error code for it; in ring 0 that exception does not occur. In `v1` the stub of
  exception 8 is wrong in the same way, and comes after a fault that is fatal
  anyway; that of exception 30 (`v1/os/asm/int.asm:52`) counts on an error code,
  which only processors with AMD's virtualisation push. `StubsFit` leaves them out.
* `v1/os/pmm.c:26`: the first entry of the map is skipped, and one entry behind the
  last is read. The run assumes that what is there does not look like available
  memory (`Behind`), and leaves out regions above 4 GiB, whose addresses would
  lose their upper bits.
* `v1/os/pmm.c:34`: the start of a region is rounded up to a page in 32 bits. A region
  that starts unaligned in the last page below 4 GiB gets start 0, and all memory is
  pushed, the kernel included. With a map whose entries do not ascend, the
  frames that hold the stack may be pushed last and given out while words in them are
  still to be read. Met in the proof of `StackStays`, hence
  `OrderedMaps`.
* `v1/os/pmm.c:71`: when no frame was pushed, `top` is 0 and not `bottom`, and
  `pop_frame` reads address 0. The maps of the run have at least one frame.
* `v1/os/vmm.c:77`: "all of the frames I am mapping here aren't on my frame stack".
  Those behind the end of the kernel are. They lie at the bottom of the stack, and
  `FramesOwn` shows that a machine with enough memory never gets there.

## 6. Not modelled

Boot code (`boot.S`): straight-line set-up before the first C function; `Init` of
`Interrupts` is the state in which it enters `kmain`. The writes to ports that set
the timer's rate and move the hardware cursor, colours, the rw and usr bits of
pages: nothing reads them back. The pointer rewriting in `relocate_stack`: it
depends on what words of the boot stack happen to look like addresses. `kidle`,
`test_task` and `init_entry` are never started. Two tasks in `copy_pg_dir` at the
same time, although both would use the page at 0xE0000000: the first switch to a
forked task never returns (`ScheduleFresh`), so there is no second caller.

Of the first version: the heap (`v1/os/kheap.c`, `llist.c`). When `alloc`
splits a block (`kheap.c:44`) it adds the size to a pointer to a structure, so that
the rest starts sixteen times too far on and its footer lies behind the mapped heap:
the store faults and `page_fault` halts, at the first allocation. `free`, `expand`, `contract` and `free_frame` are
never reached, and nothing about them could be checked from a state the program
can be in. Its keyboard driver prints what is typed and keeps four modifier flags
that each event of the key toggles; its console and timer are like those of
`kern/`. `v1/os/old` is not built.

The programs in `tests/` are a copy of the bit set and an empty list.

## 7. Plan

Proofs: for `Console`, `CursorInScreen` and `NumberKeepsLength` from an invariant about
the cursor and the positions in the digits' buffer, without the text itself. Sizes of
requests that are no multiples of the word would need `KHeapOps` with bytes instead of
words; no structure that the kernel allocates has one.
