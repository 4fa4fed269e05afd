-------------------------------- MODULE PMM ---------------------------------
(***************************************************************************)
(* The physical memory manager of kern/mm/pmm.c: a bit set with one bit    *)
(* per 4 KiB page frame, filled from the multiboot memory map by pmm_init  *)
(* and then used through get_frame, set_frame and free_frame.              *)
(*                                                                         *)
(* Addresses are bytes.  AddrSpace stands for 2^32: uint32_t arithmetic is *)
(* modulo AddrSpace, and 0xffffffff is AddrSpace - 1.                      *)
(***************************************************************************)
EXTENDS Bitset

CONSTANTS
    AddrSpace,  \* size of the address space in bytes
    MemKB,      \* mem_lower + mem_upper of the multiboot information
    MemMaps,    \* the memory maps the boot loader may report
    RamWords,   \* what an uninitialised word of memory may hold
    Addrs       \* the addresses callers pass to set_frame

PG_SZ == 4096

Regions == [base : Nat, length : Nat, type : 1 .. 5]

ASSUME PMMAssumption ==
    /\ AddrSpace \in Nat \ {0}
    /\ MemKB \in Nat
    /\ MemMaps \subseteq SUBSET Regions
    /\ RamWords \subseteq SUBSET Offsets
    /\ Addrs \subseteq 0 .. AddrSpace - 1

VARIABLES
    mmap,       \* the memory map at mb->mmap_addr
    frames,     \* the static bs_t *frames
    held,       \* frames some caller owns: returned by get_frame, or
                \* claimed by set_frame while they were free
    last        \* the last call and the frame number it returned

vars == <<mmap, frames, held, last>>

NoFrame == -1   \* stands for the 0xffffffff / 0 that report a failure

Result(op, f) == [op |-> op, frame |-> f]

PageFrames == MemKB \div 4

FrameCount == bs_words(PageFrames) * WordBits

u32(x) == x % AddrSpace

-----------------------------------------------------------------------------
(* What the functions compute, as operators on the bit set.                *)

\* Mutant of MarkedBy: the last, partial page of a region is left out.
MarkedBy_WholePages(m) ==
    UNION {{u32(r.base + i * PG_SZ) \div PG_SZ : i \in 0 .. (r.length \div PG_SZ) - 1} :
           r \in {q \in m : q.type = 2}}

\* The frames the loop over the memory map sets: for every region of type 2
\* the frame of each address base, base + PG_SZ, ... below base + length.
\* addr is a uint32_t, so the test against 0xffffffff never ends the loop.
MarkedBy(m) ==
    UNION {{u32(r.base + i * PG_SZ) \div PG_SZ :
              i \in {k \in 0 .. r.length \div PG_SZ : k * PG_SZ < r.length}} :
           r \in {q \in m : q.type = 2}}

\* bs_set for every index of a set; out of range indices have no effect.
bs_set_all(bs, S) ==
    [bs EXCEPT !.bits =
        [w \in DOMAIN @ |-> @[w] \cup {o \in Offsets : w * WordBits + o \in S}]]

\* Index of the frame get_frame picks, and whether there is one.
FrameIndex(fs) == bs_first_clr(fs)

\* Mutant of OutOfFrames: the full set is not recognised.
OutOfFrames_OffByOne(fs) == bs_first_clr(fs) = bs_get_size(fs) + 1

OutOfFrames(fs) == BAD_RETURN(fs, bs_first_clr(fs))

\* Mutant of set_frame: the address itself is taken for the bit's index.
set_frame_ByAddress(fs, addr) == bs_set(fs, addr)

set_frame(fs, addr) == bs_set(fs, addr \div PG_SZ)
set_frame_ok(fs, addr) == addr \div PG_SZ < bs_get_size(fs)

get_frame(fs) ==
    IF OutOfFrames(fs) THEN fs ELSE set_frame(fs, FrameIndex(fs) * PG_SZ)

\* Mutant of free_frame: the line that the source has commented out.
free_frame_ByAddress(fs, addr) == bs_clr(fs, addr \div PG_SZ)

\* The parameter is called addr but is used as the frame number.
free_frame(fs, addr) == bs_clr(fs, addr)

-----------------------------------------------------------------------------
Init ==
    /\ mmap \in MemMaps
    /\ frames = [sz |-> 0, bits |-> [w \in 0 .. -1 |-> {}]]
    /\ held = {}
    /\ last = Result("none", NoFrame)

\* kmain calls pmm_init once, before any other function of this file.
PmmInit ==
    /\ last.op = "none"
    /\ \E ram \in [0 .. bs_words(PageFrames) - 1 -> RamWords] :
          frames' = bs_set_all(bs_init(PageFrames, ram), MarkedBy(mmap))
    /\ last' = Result("boot", NoFrame)
    /\ UNCHANGED <<mmap, held>>

Running == last.op # "none"

GetFrame ==
    /\ Running
    /\ ~ OutOfFrames(frames)
    /\ frames' = get_frame(frames)
    /\ held' = held \cup {FrameIndex(frames)}
    /\ last' = Result("take", FrameIndex(frames))
    /\ UNCHANGED mmap

GetFrameFails ==
    /\ Running
    /\ OutOfFrames(frames)
    /\ last' = Result("take", NoFrame)
    /\ UNCHANGED <<mmap, frames, held>>

\* map_page claims the frame of an address it was given.  The caller owns
\* the frame unless it was marked before.
SetFrame(addr) ==
    /\ Running
    /\ frames' = set_frame(frames, addr)
    /\ held' = IF bs_tst(frames, addr \div PG_SZ)
               THEN held ELSE held \cup {addr \div PG_SZ}
    /\ last' = Result("claim", IF set_frame_ok(frames, addr)
                               THEN addr \div PG_SZ ELSE NoFrame)
    /\ UNCHANGED mmap

\* The only caller, unmap_page, passes the frame number of a page it owns.
FreeFrame(f) ==
    /\ Running
    /\ f \in held
    /\ frames' = free_frame(frames, f)
    /\ held' = held \ {f}
    /\ last' = Result("free", NoFrame)
    /\ UNCHANGED mmap

Next ==
    \/ PmmInit
    \/ GetFrame
    \/ GetFrameFails
    \/ \E addr \in Addrs : SetFrame(addr)
    \/ \E f \in held : FreeFrame(f)

Spec == Init /\ [][Next]_vars

-----------------------------------------------------------------------------
(* Properties.                                                             *)

\* The values the variables take, and the bit set has FrameCount bits once
\* pmm_init has run.
TypeOK ==
    /\ mmap \in MemMaps
    /\ frames \in BitSetsOf(IF last.op = "none" THEN 0 ELSE bs_words(PageFrames))
    /\ held \subseteq 0 .. FrameCount - 1
    /\ last \in [op : {"none", "boot", "take", "claim", "free"},
                 frame : {NoFrame} \cup 0 .. FrameCount - 1]

\* The frames that share a byte with a region the boot loader reserved.  Of a
\* region that does not start on a page boundary the last frame counts only
\* when the region reaches further into it than it starts into its first: the
\* steps of pmm_init's loop do not come to that frame otherwise.
ReservedFrames(m) ==
    {f \in 0 .. FrameCount - 1 :
        \E r \in m : /\ r.type = 2
                     /\ r.base < (f + 1) * PG_SZ
                     /\ f * PG_SZ + (r.base % PG_SZ) < r.base + r.length}

\* What a machine must satisfy for the reserved frames to be protected: the
\* frames the bit set counts are addressable.
FramesAddressable == FrameCount * PG_SZ <= AddrSpace

\* The inductive form of ReservedNeverHeld: reserved frames stay marked.
ReservedMarked == Running => ReservedFrames(mmap) \subseteq Members(frames)

\* A frame that somebody holds is marked in the bit set: its mark survives
\* every other caller's get_frame, set_frame and free_frame.
HeldAreMarked == held \subseteq Members(frames)

\* A frame of a reserved region is never handed out, however many frames are
\* taken, claimed and given back after pmm_init marked it.
ReservedNeverHeld == held \cap ReservedFrames(mmap) = {}

\* get_frame never returns a frame that somebody still holds, although the
\* bit set is all it consults.
NoDoubleGrant ==
    [][last'.op = "take" => last'.frame \notin held]_vars

\* The bit set with its words and offsets behaves as the pool of frames of
\* FramePool: lowest free frame first, failure only when every bit is set.
Pool == INSTANCE FramePool WITH N <- FrameCount, used <- Members(frames)

PoolSpec == Pool!Spec
=============================================================================
