-------------------------------- MODULE VMM ---------------------------------
(***************************************************************************)
(* Address spaces: allocate_stack, copy_pg_dir and switch_page_directory   *)
(* of kern/mm/vmm.c, as tasking_init and fork use them.                    *)
(*                                                                         *)
(* A directory has pages below 0xC0000000, each with its own contents, and *)
(* tables above it that are shared with kern_dir.  The table of the page   *)
(* at 0xE0000000, through which copy_pg_dir fills new frames, is created   *)
(* when it is first used.  Boot covers the mapping of the rest.            *)
(*                                                                         *)
(* fork runs on the stack that it copies: between two rounds of            *)
(* copy_pg_dir its variables, call frames and interrupt frames are stored  *)
(* there.  The value of a page stands for one word of it, which memcpy     *)
(* copies at one moment, so a round is a step.                             *)
(***************************************************************************)
EXTENDS PageOps

CONSTANTS
    LowPages,   \* the pages of the stack: 1 .. LowPages, in address order
    MaxDirs,    \* bound on the number of directories
    BootStates, \* sets of frames that may be marked when tasking_init starts
    Values      \* what a page may contain

ASSUME VMMAssumption ==
    /\ LowPages \in Nat \ {0}
    /\ MaxDirs \in Nat \ {0, 1}
    /\ \A b \in BootStates : b \subseteq Frames /\ 0 \in b
    /\ 0 \in Values

Dirs == 0 .. MaxDirs - 1
KernDir == 0
Low == 1 .. LowPages

VARIABLES
    boot,       \* the frames that were marked at the start
    used,       \* marked frames
    mem,        \* contents of every frame
    low,        \* low[d][p]: entry of page p in directory d
    kernTabs,   \* kernTabs[d]: the kernel tables of directory d, by name
    temp,       \* entry of the page at 0xE0000000
    dirs,       \* number of directories made
    current,    \* current_dir
    pos,        \* the page that allocate_stack or copy_pg_dir is at
    snap,       \* snap[d][p]: what page p of the parent held when it was copied
    phase       \* what the kernel is doing

vars == <<boot, used, mem, low, kernTabs, temp, dirs, current, pos, snap, phase>>

-----------------------------------------------------------------------------
\* Contents of page p as the processor sees it in directory d.
Content(d, p) == mem[low[d][p].addr]

Contents(d) == [p \in Low |-> IF low[d][p].present THEN Content(d, p) ELSE 0]

Init ==
    /\ boot \in BootStates
    /\ used = boot
    /\ mem = [f \in Frames |-> 0]
    /\ low = [d \in Dirs |-> [p \in Low |-> Unmapped]]
    /\ kernTabs = [d \in Dirs |-> IF d = KernDir THEN {"kernel", "heap"} ELSE {}]
    /\ temp = Unmapped
    /\ dirs = 1
    /\ current = KernDir
    /\ pos = 1
    /\ snap = [d \in Dirs |-> [p \in Low |-> 0]]
    /\ phase = "stack"

\* One round of the loop of allocate_stack(kern_dir).
AllocateStack ==
    /\ phase = "stack" /\ pos \in Low
    /\ LET r == map_page(low[KernDir][pos], used, NoAddr)
       IN  low' = [low EXCEPT ![KernDir][pos] = r.page] /\ used' = r.used
    /\ pos' = pos + 1
    /\ UNCHANGED <<boot, mem, kernTabs, temp, dirs, current, snap, phase>>

\* copy_pg_dir(dir) starts with an empty directory.  tasking_init passes
\* kern_dir, fork the directory of the current task: both are loaded.
StartCopy ==
    /\ dirs' = dirs + 1
    /\ snap' = [snap EXCEPT ![dirs] = Contents(current)]
    /\ pos' = 1
    /\ phase' = "copy"
    /\ UNCHANGED <<boot, used, mem, low, kernTabs, temp, current>>

TaskingInit == phase = "stack" /\ pos = LowPages + 1 /\ StartCopy

Fork == phase = "run" /\ dirs < MaxDirs /\ StartCopy

New == dirs - 1     \* the directory being filled

\* Pages without a frame are skipped.
SkipPage ==
    /\ phase = "copy" /\ pos \in Low
    /\ low[current][pos].addr = 0
    /\ pos' = pos + 1
    /\ UNCHANGED <<boot, used, mem, low, kernTabs, temp, dirs, current, snap, phase>>

\* The frame is mapped at 0xE0000000 to be filled, and taken away again.
Filled == map_page(temp, TakenFrames(used), get_frame(used))
Emptied == unmap_page(Filled.page, Filled.used)

\* Mutant of Mapped: the entry of the page that is copied is reused.
Mapped_SameFrame == map_page(low[current][pos], Emptied.used, get_frame(used))

\* map_page in the new directory marks the frame again.
Mapped == map_page(low[New][pos], Emptied.used, get_frame(used))

\* Mutant of CopyPage: memcpy with source and destination swapped.
CopyPage_Swapped ==
    /\ phase = "copy" /\ pos \in Low
    /\ low[current][pos].addr # 0
    /\ Filled.page.present
    /\ mem' = [mem EXCEPT ![low[current][pos].addr] = mem[Filled.page.addr]]
    /\ temp' = Emptied.page
    /\ kernTabs' = [kernTabs EXCEPT ![current] = @ \cup {"temp"}]
    /\ used' = Mapped.used
    /\ low' = [low EXCEPT ![New][pos] = Mapped.page]
    /\ pos' = pos + 1
    /\ UNCHANGED <<boot, dirs, current, snap, phase>>

\* One round of copy_pg_dir for a page that has a frame.
CopyPage ==
    /\ phase = "copy" /\ pos \in Low
    /\ low[current][pos].addr # 0
    /\ Filled.page.present
    /\ mem' = [mem EXCEPT ![Filled.page.addr] = Content(current, pos)]
    /\ temp' = Emptied.page
    /\ kernTabs' = [kernTabs EXCEPT ![current] = @ \cup {"temp"}]
    /\ used' = Mapped.used
    /\ low' = [low EXCEPT ![New][pos] = Mapped.page]
    /\ pos' = pos + 1
    /\ UNCHANGED <<boot, dirs, current, snap, phase>>

\* No frame is left: map_page takes 0xffffffff for an address, the page at
\* 0xE0000000 is not present and memcpy faults.
CopyFaults ==
    /\ phase = "copy" /\ pos \in Low
    /\ low[current][pos].addr # 0
    /\ ~ Filled.page.present
    /\ temp' = Filled.page
    /\ kernTabs' = [kernTabs EXCEPT ![current] = @ \cup {"temp"}]
    /\ used' = Filled.used
    /\ phase' = "stopped"
    /\ UNCHANGED <<boot, mem, low, dirs, current, pos, snap>>

\* Mutant of TakenOver: the kernel tables are those that boot made.
TakenOver_Boot == {"kernel", "heap"}

\* The kernel tables of a new directory.
TakenOver == kernTabs[KernDir]

\* The tables above 0xC0000000 are taken over from kern_dir.  tasking_init
\* loads the new directory, fork returns to the old one.
EndCopy ==
    /\ phase = "copy" /\ pos = LowPages + 1
    /\ kernTabs' = [kernTabs EXCEPT ![New] = TakenOver]
    /\ current' = IF current = KernDir THEN New ELSE current
    /\ phase' = IF current = KernDir THEN "relocate" ELSE "run"
    /\ UNCHANGED <<boot, used, mem, low, temp, dirs, pos, snap>>

\* relocate_stack copies the boot stack into the new one, which faults if a
\* page of it got no frame.
RelocateStack ==
    /\ phase = "relocate"
    /\ \A p \in Low : low[current][p].present
    /\ \E c \in [Low -> Values] :
          mem' = [f \in Frames |-> IF \E p \in Low : low[current][p].addr = f
                                  THEN c[CHOOSE p \in Low : low[current][p].addr = f]
                                  ELSE mem[f]]
    /\ phase' = "run"
    /\ UNCHANGED <<boot, used, low, kernTabs, temp, dirs, current, pos, snap>>

RelocateFaults ==
    /\ phase = "relocate"
    /\ \E p \in Low : ~ low[current][p].present
    /\ phase' = "stopped"
    /\ UNCHANGED <<boot, used, mem, low, kernTabs, temp, dirs, current, pos, snap>>

\* Whether the code runs on the stack that the loaded directory maps:
\* tasking_init makes its copy of kern_dir on the boot stack.
OnOwnStack == phase = "run" \/ (phase = "copy" /\ current # KernDir)

\* The running task, or a handler on top of it, stores into its stack.  snap
\* follows the pages that copy_pg_dir has still to copy.
Write(p, v) ==
    /\ OnOwnStack
    /\ low[current][p].present
    /\ mem' = [mem EXCEPT ![low[current][p].addr] = v]
    /\ snap' = IF phase = "copy" /\ p >= pos THEN [snap EXCEPT ![New][p] = v] ELSE snap
    /\ UNCHANGED <<boot, used, low, kernTabs, temp, dirs, current, pos, phase>>

Next ==
    \/ AllocateStack
    \/ TaskingInit \/ Fork
    \/ SkipPage \/ CopyPage \/ CopyFaults \/ EndCopy
    \/ RelocateStack \/ RelocateFaults
    \/ \E p \in Low, v \in Values : Write(p, v)

Spec == Init /\ [][Next]_vars

-----------------------------------------------------------------------------
(* Properties.                                                             *)

TypeOK ==
    /\ boot \in BootStates
    /\ used \subseteq Frames
    /\ mem \in [Frames -> Values]
    /\ low \in [Dirs -> [Low -> Page]]
    /\ kernTabs \in [Dirs -> SUBSET {"kernel", "heap", "temp"}]
    /\ temp \in Page
    /\ dirs \in 1 .. MaxDirs
    /\ current \in Dirs
    /\ pos \in 1 .. LowPages + 1
    /\ snap \in [Dirs -> [Low -> Values]]
    /\ phase \in {"stack", "copy", "relocate", "run", "stopped"}

Done(d) == d < dirs /\ (phase \in {"copy", "stopped"} => d # New)

\* No two pages share a frame, in one directory or in two, and none has a
\* frame that was in use at boot: a task cannot reach another one's stack.
PrivateFrames ==
    \A d, e \in Dirs, p, q \in Low :
        low[d][p].addr # 0 =>
            /\ low[d][p].addr \notin boot
            /\ <<d, p>> # <<e, q>> => low[d][p].addr # low[e][q].addr

\* Every frame that a directory maps is marked, although copy_pg_dir clears
\* the mark of each new frame on its way: get_frame will not return it.
MappedMarked ==
    \A d \in Dirs, p \in Low : low[d][p].addr # 0 => low[d][p].addr \in used

\* Each page of a forked directory holds what that page of its parent held
\* when copy_pg_dir came to it, whatever the parent stores afterwards, also
\* while the rest is copied.  The pages may be of different moments.
CopyKept ==
    \A d \in Dirs : d # KernDir /\ d # current /\ Done(d) => Contents(d) = snap[d]

\* All directories have the same kernel tables, also the one that appears
\* while the first directory is copied.
KernelShared ==
    \A d \in Dirs : Done(d) => kernTabs[d] = kernTabs[KernDir]
=============================================================================
