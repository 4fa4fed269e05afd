------------------------------ MODULE PageOps -------------------------------
(***************************************************************************)
(* Page table entries and their frames: map_page and unmap_page of         *)
(* kern/mm/vmm.c over the frame pool of kern/mm/pmm.c.  A physical address *)
(* is its frame number, and used is the set of marked frames.  PMM shows   *)
(* that the bit set behaves as such a pool.  The rw and usr bits are left  *)
(* out: nothing in the kernel reads them.                                  *)
(***************************************************************************)
EXTENDS Integers

CONSTANT FrameCount     \* number of frames of the bit set

ASSUME PageOpsAssumption == FrameCount \in Nat \ {0}

Frames == 0 .. FrameCount - 1

NoAddr == 0             \* the addr argument of callers that want any frame
BadFrame == FrameCount  \* 0xffffffff, whose frame number is out of range

Page == [present : BOOLEAN, addr : Frames]
Unmapped == [present |-> FALSE, addr |-> 0]

-----------------------------------------------------------------------------
\* The frame that get_frame returns.
get_frame(used) ==
    IF Frames \subseteq used THEN BadFrame
    ELSE CHOOSE f \in Frames \ used : \A g \in Frames \ used : f <= g

\* Mutant of TakenFrames: the frame is handed out without being marked.
TakenFrames_Unmarked(used) == used

\* Mutant of TakenFrames: running out of frames is not noticed.
TakenFrames_NoCheck(used) == used \cup {get_frame(used)}

\* The pool after get_frame.
TakenFrames(used) == used \cup ({get_frame(used)} \ {BadFrame})

\* Mutant of map_page: a frame that the caller chose is not marked.
map_page_NoMark(pg, used, addr) ==
    IF pg.addr # 0 THEN [page |-> [pg EXCEPT !.present = TRUE], used |-> used]
    ELSE IF addr # NoAddr
    THEN [page |-> [present |-> addr \in Frames, addr |-> IF addr \in Frames THEN addr ELSE 0],
          used |-> used]
    ELSE LET f == get_frame(used)
         IN  [page |-> [present |-> TRUE, addr |-> IF f = BadFrame THEN 0 ELSE f],
              used |-> TakenFrames(used)]

\* The entry and the pool after map_page.  A page that has a frame keeps it.
\* When no frame is left the page stays present with frame number 0.
map_page(pg, used, addr) ==
    IF pg.addr # 0 THEN [page |-> [pg EXCEPT !.present = TRUE], used |-> used]
    ELSE IF addr # NoAddr
    THEN [page |-> [present |-> addr \in Frames, addr |-> IF addr \in Frames THEN addr ELSE 0],
          used |-> used \cup ({addr} \cap Frames)]
    ELSE LET f == get_frame(used)
         IN  [page |-> [present |-> TRUE, addr |-> IF f = BadFrame THEN 0 ELSE f],
              used |-> TakenFrames(used)]

unmap_page(pg, used) ==
    [page |-> Unmapped, used |-> IF pg.addr = 0 THEN used ELSE used \ {pg.addr}]
=============================================================================
