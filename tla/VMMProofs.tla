----------------------------- MODULE VMMProofs ------------------------------
(***************************************************************************)
(* Proofs about VMM for every number of frames, stack pages, directories   *)
(* and every state of the pool at boot, memory that runs out included:     *)
(* frames are private to a page, mapped frames stay marked, the pages of a *)
(* forked directory keep what they were copied from, although the parent   *)
(* stores into its stack during the copy, and all directories share the    *)
(* kernel's tables.                                                        *)
(***************************************************************************)
EXTENDS VMM, WellFoundedInduction, TLAPS

-----------------------------------------------------------------------------
(* The entry and the pool after map_page and unmap_page.                   *)

\* get_frame returns a frame that was not marked, and fails only if all are.
LEMMA GetFrame ==
    ASSUME NEW u \in SUBSET Frames
    PROVE  \/ get_frame(u) \in Frames \ u
           \/ get_frame(u) = BadFrame /\ u = Frames
<1>1. CASE Frames \subseteq u
  BY <1>1 DEF get_frame
<1>2. CASE ~ (Frames \subseteq u)
  <2> DEFINE S == Frames \ u
             R == OpToRel(<, Nat)
  <2>1. S \in SUBSET Nat /\ S # {}
    BY <1>2, PageOpsAssumption DEF Frames
  <2>2. IsWellFoundedOn(R, Nat)
    BY NatLessThanWellFounded
  <2> HIDE DEF R
  <2>3. PICK f \in S : \A g \in S : ~ (<<g, f>> \in R)
    BY <2>1, <2>2, WFMin
  <2>4. \A g \in S : ~ (g < f)
    BY <2>1, <2>3 DEF R, OpToRel
  <2>5. \A g \in S : f <= g
    BY <2>1, <2>4
  <2> QED
    BY <1>2, <2>5 DEF get_frame
<1> QED
  BY <1>1, <1>2

\* BadFrame is no frame.
LEMMA BadIsOut == BadFrame \notin Frames /\ BadFrame # 0 /\ 0 \in Frames
  BY PageOpsAssumption DEF BadFrame, Frames

\* The pool after get_frame.
LEMMA Taken ==
    ASSUME NEW u \in SUBSET Frames
    PROVE  /\ TakenFrames(u) \in SUBSET Frames
           /\ get_frame(u) \in Frames => TakenFrames(u) = u \cup {get_frame(u)}
           /\ get_frame(u) = BadFrame => TakenFrames(u) = u
  BY GetFrame, BadIsOut DEF TakenFrames

\* map_page without an address gives the page a frame that was free, or marks
\* nothing and leaves the page present with frame number 0.
LEMMA MapAny ==
    ASSUME NEW pg \in Page, pg.addr = 0, NEW u \in SUBSET Frames, 0 \in u,
           NEW r, r = map_page(pg, u, NoAddr)
    PROVE  /\ r.page \in Page /\ r.page.present
           /\ r.used \in SUBSET Frames
           /\ \/ /\ r.page.addr \in Frames \ u
                 /\ r.used = u \cup {r.page.addr}
              \/ r.page.addr = 0 /\ r.used = u /\ u = Frames
<1>1. r = [page |-> [present |-> TRUE, addr |-> IF get_frame(u) = BadFrame THEN 0 ELSE get_frame(u)],
           used |-> TakenFrames(u)]
  BY DEF map_page, NoAddr
<1>2. CASE get_frame(u) \in Frames \ u
  BY <1>1, <1>2, Taken, BadIsOut DEF Page
<1>3. CASE get_frame(u) = BadFrame /\ u = Frames
  BY <1>1, <1>3, Taken, BadIsOut DEF Page
<1> QED
  BY <1>2, <1>3, GetFrame

\* map_page with the address of a frame maps the page there and marks it.
LEMMA MapAt ==
    ASSUME NEW pg \in Page, pg.addr = 0, NEW u \in SUBSET Frames,
           NEW f \in Frames, f # 0
    PROVE  map_page(pg, u, f) = [page |-> [present |-> TRUE, addr |-> f], used |-> u \cup {f}]
  BY DEF map_page, NoAddr

\* map_page with an address out of range leaves the page without a frame.
LEMMA MapOut ==
    ASSUME NEW pg \in Page, pg.addr = 0, NEW u \in SUBSET Frames,
           NEW f, f \notin Frames, f # 0
    PROVE  map_page(pg, u, f) = [page |-> Unmapped, used |-> u]
<1>1. u \cup ({f} \cap Frames) = u
  OBVIOUS
<1>2. map_page(pg, u, f) = [page |-> [present |-> f \in Frames, addr |-> IF f \in Frames THEN f ELSE 0],
                            used |-> u \cup ({f} \cap Frames)]
  BY DEF map_page, NoAddr
<1>3. (f \in Frames) = FALSE
  OBVIOUS
<1> QED
  BY <1>1, <1>2, <1>3, Zenon DEF Unmapped

\* unmap_page gives the frame of the page back.
LEMMA Unmap ==
    ASSUME NEW u \in SUBSET Frames, NEW f \in Frames, f # 0, f \notin u
    PROVE  unmap_page([present |-> TRUE, addr |-> f], u \cup {f}) =
             [page |-> Unmapped, used |-> u]
<1>1. (u \cup {f}) \ {f} = u
  OBVIOUS
<1> QED
  BY <1>1 DEF unmap_page

\* The entries that map_page makes are entries.
LEMMA PageType ==
    /\ Unmapped \in Page
    /\ \A f \in Frames : [present |-> TRUE, addr |-> f] \in Page
    /\ \A pg \in Page : pg.addr \in Frames /\ pg.present \in BOOLEAN
  BY BadIsOut DEF Unmapped, Page

-----------------------------------------------------------------------------
(* The inductive invariant.                                                *)

FirstTask == 1      \* the directory that tasking_init makes

\* Which directories there are, and which one is loaded, in each phase.
Stage ==
    /\ phase = "stack" => dirs = 1 /\ current = KernDir
    /\ phase = "copy" => \/ dirs = 2 /\ current = KernDir
                         \/ dirs > 2 /\ current = FirstTask
    /\ phase = "relocate" => dirs = 2 /\ current = FirstTask
    /\ phase = "run" => dirs >= 2 /\ current = FirstTask
    /\ phase = "stopped" => dirs >= 2

\* What nobody has filled yet is not mapped.
NotYetMapped ==
    /\ \A d \in Dirs, p \in Low : d >= dirs => low[d][p] = Unmapped
    /\ phase = "stack" => \A p \in Low : p >= pos => low[KernDir][p] = Unmapped
    /\ phase = "copy" => \A p \in Low : p >= pos => low[New][p] = Unmapped

\* Frames that were in use at boot stay marked, frame 0 among them.
BootMarked == boot \subseteq used

\* The page at 0xE0000000 has a frame only within CopyPage.
TempEmpty == temp.addr = 0

\* Only kern_dir can have a page that is present without a frame of its own,
\* a page with a frame is present, and the stack of the task that runs is
\* complete.
OwnStack ==
    /\ \A d \in Dirs, p \in Low : d # KernDir /\ low[d][p].present => low[d][p].addr # 0
    /\ \A d \in Dirs, p \in Low : low[d][p].addr # 0 => low[d][p].present
    /\ phase = "run" \/ (phase = "copy" /\ current = FirstTask) =>
          \A p \in Low : low[FirstTask][p].present /\ low[FirstTask][p].addr # 0

\* While a directory is copied, snap is what the parent holds in the pages
\* that are not done, and the new directory holds snap in those that are.
\* Frame 0 is never written.
CopySoFar ==
    /\ mem[0] = 0
    /\ phase = "copy" =>
          /\ \A p \in Low : p >= pos => snap[New][p] = Contents(current)[p]
          /\ \A p \in Low : p < pos => Contents(New)[p] = snap[New][p]

\* The table of the page at 0xE0000000 is in kern_dir before any other
\* directory has a page.
TempShared ==
    (\E p \in Low : low[FirstTask][p].addr # 0) => "temp" \in kernTabs[KernDir]

IInv ==
    /\ TypeOK /\ Stage /\ NotYetMapped /\ BootMarked /\ TempEmpty /\ OwnStack
    /\ CopySoFar /\ TempShared
    /\ PrivateFrames /\ MappedMarked /\ CopyKept /\ KernelShared

-----------------------------------------------------------------------------
(* Facts that every step needs.                                            *)

LEMMA Constants ==
    /\ LowPages \in Nat \ {0} /\ MaxDirs \in Nat \ {0, 1}
    /\ Dirs = 0 .. MaxDirs - 1 /\ KernDir = 0 /\ FirstTask = 1
    /\ KernDir \in Dirs /\ FirstTask \in Dirs /\ Low = 1 .. LowPages
    /\ 0 \in Frames /\ 0 \in Values
    /\ \A b \in BootStates : b \in SUBSET Frames /\ 0 \in b
  BY VMMAssumption, BadIsOut DEF Dirs, KernDir, FirstTask, Low

\* PrivateFrames and MappedMarked as a condition on tables l, pool u and the
\* frames b of the boot.
Apart(l, u, b) ==
    \A d, e \in Dirs, p, q \in Low :
        l[d][p].addr # 0 =>
            /\ l[d][p].addr \in u /\ l[d][p].addr \notin b
            /\ d # e \/ p # q => l[d][p].addr # l[e][q].addr

LEMMA ApartMeans == PrivateFrames /\ MappedMarked <=> Apart(low, used, boot)
  BY DEF PrivateFrames, MappedMarked, Apart

LEMMA ApartMeansNext == (PrivateFrames /\ MappedMarked)' <=> Apart(low', used', boot')
  BY DEF PrivateFrames, MappedMarked, Apart

\* Giving a frame that was not marked to a page without one keeps frames apart.
LEMMA GiveFrame ==
    ASSUME NEW l, NEW u, NEW b \in SUBSET u, Apart(l, u, b), 0 \in u,
           NEW d0 \in Dirs, NEW p0 \in Low, NEW pg, l[d0][p0].addr = 0,
           NEW m, NEW v,
           \A d \in Dirs, p \in Low : m[d][p] = IF d = d0 /\ p = p0 THEN pg ELSE l[d][p],
           \/ pg.addr \notin u /\ v = u \cup {pg.addr}
           \/ pg.addr = 0 /\ v = u
    PROVE  Apart(m, v, b)
<1> SUFFICES ASSUME NEW d \in Dirs, NEW e \in Dirs, NEW p \in Low, NEW q \in Low,
                    m[d][p].addr # 0
             PROVE  /\ m[d][p].addr \in v /\ m[d][p].addr \notin b
                    /\ d # e \/ p # q => m[d][p].addr # m[e][q].addr
  BY DEF Apart
<1>1. CASE d = d0 /\ p = p0
  BY <1>1 DEF Apart
<1>2. CASE ~ (d = d0 /\ p = p0)
  BY <1>2 DEF Apart
<1> QED
  BY <1>1, <1>2

LEMMA InitIInv == Init => IInv
<1> SUFFICES ASSUME Init PROVE IInv
  OBVIOUS
<1> USE Constants, PageType DEF Init
<1>1. TypeOK
  BY DEF TypeOK
<1>2. Stage /\ BootMarked /\ NotYetMapped
  BY DEF Stage, BootMarked, NotYetMapped
<1>3. TempEmpty /\ OwnStack /\ TempShared
  BY DEF TempEmpty, OwnStack, TempShared, Unmapped
<1>4. CopySoFar
  BY DEF CopySoFar
<1>5. PrivateFrames /\ MappedMarked
  BY DEF PrivateFrames, MappedMarked, Unmapped
<1>6. CopyKept /\ KernelShared
  BY DEF CopyKept, KernelShared, Done
<1> QED
  BY <1>1, <1>2, <1>3, <1>4, <1>5, <1>6 DEF IInv

LEMMA AllocateStackIInv == IInv /\ AllocateStack => IInv'
<1> SUFFICES ASSUME IInv, AllocateStack PROVE IInv'
  OBVIOUS
<1> USE Constants
<1>t. TypeOK /\ Stage /\ NotYetMapped /\ BootMarked /\ TempEmpty /\ OwnStack /\ CopySoFar
      /\ TempShared /\ PrivateFrames /\ MappedMarked /\ CopyKept /\ KernelShared
  BY DEF IInv
<1>0. /\ phase = "stack" /\ dirs = 1 /\ current = KernDir /\ pos \in Low
      /\ low[KernDir][pos] = Unmapped /\ 0 \in used /\ used \in SUBSET Frames
      /\ low \in [Dirs -> [Low -> Page]]
      /\ UNCHANGED <<boot, mem, kernTabs, temp, dirs, current, snap, phase>>
      /\ pos' = pos + 1
  BY <1>t DEF AllocateStack, TypeOK, Stage, NotYetMapped, BootMarked
<1>1. PICK r : r = map_page(low[KernDir][pos], used, NoAddr)
  OBVIOUS
<1>2. low' = [low EXCEPT ![KernDir][pos] = r.page] /\ used' = r.used
  BY <1>1 DEF AllocateStack
<1>3. /\ r.page \in Page /\ r.page.present
      /\ r.used \in SUBSET Frames
      /\ \/ r.page.addr \in Frames \ used /\ r.used = used \cup {r.page.addr}
         \/ r.page.addr = 0 /\ r.used = used
  BY <1>0, <1>1, MapAny, PageType DEF Unmapped
<1>4. /\ low' \in [Dirs -> [Low -> Page]]
      /\ \A d \in Dirs, p \in Low :
            low'[d][p] = IF d = KernDir /\ p = pos THEN r.page ELSE low[d][p]
  BY <1>0, <1>2, <1>3
<1>5. TypeOK'
  BY <1>t, <1>0, <1>2, <1>3, <1>4 DEF TypeOK
<1>6. Stage' /\ BootMarked' /\ TempEmpty'
  BY <1>t, <1>0, <1>2, <1>3 DEF Stage, BootMarked, TempEmpty
<1>7. NotYetMapped'
  BY <1>t, <1>0, <1>4 DEF NotYetMapped
<1>8. OwnStack' /\ TempShared'
  BY <1>t, <1>0, <1>3, <1>4 DEF OwnStack, TempShared
<1>9. CopySoFar'
  BY <1>t, <1>0 DEF CopySoFar
<1>10. PrivateFrames' /\ MappedMarked'
  <2>1. Apart(low, used, boot)
    BY <1>t, ApartMeans
  <2>2. /\ KernDir \in Dirs /\ pos \in Low /\ low[KernDir][pos].addr = 0 /\ 0 \in used
        /\ boot \in SUBSET used
    BY <1>t, <1>0 DEF BootMarked, Unmapped
  <2>3. \/ r.page.addr \notin used /\ used' = used \cup {r.page.addr}
        \/ r.page.addr = 0 /\ used' = used
    BY <1>2, <1>3
  <2>4. Apart(low', used', boot)
    BY ONLY <2>1, <2>2, <2>3, <1>4, GiveFrame
  <2> QED
    BY <1>0, <2>4, ApartMeansNext
<1>11. CopyKept' /\ KernelShared'
  BY <1>t, <1>0, <1>5 DEF CopyKept, KernelShared, Done, TypeOK
<1> QED
  BY <1>5, <1>6, <1>7, <1>8, <1>9, <1>10, <1>11 DEF IInv

\* What a directory holds is a value for every page.
LEMMA ContentsType ==
    ASSUME TypeOK, NEW d \in Dirs
    PROVE  /\ Contents(d) \in [Low -> Values]
           /\ \A p \in Low : Contents(d)[p] = IF low[d][p].present THEN mem[low[d][p].addr] ELSE 0
  BY Constants, PageType DEF Contents, Content, TypeOK

LEMMA StartCopyIInv ==
    ASSUME IInv, StartCopy,
           \/ phase = "stack" /\ pos = LowPages + 1
           \/ phase = "run" /\ dirs < MaxDirs
    PROVE  IInv'
<1> USE Constants
<1>t. TypeOK /\ Stage /\ NotYetMapped /\ BootMarked /\ TempEmpty /\ OwnStack /\ CopySoFar
      /\ TempShared /\ PrivateFrames /\ MappedMarked /\ CopyKept /\ KernelShared
  BY DEF IInv
<1>0. /\ dirs \in Nat /\ dirs \in Dirs /\ current \in Dirs /\ phase' = "copy" /\ dirs' = dirs + 1
      /\ pos' = 1 /\ phase \in {"stack", "run"}
      /\ UNCHANGED <<boot, used, mem, low, kernTabs, temp, current>>
      /\ snap' = [snap EXCEPT ![dirs] = Contents(current)]
      /\ New' = dirs
  BY <1>t DEF TypeOK, Stage, StartCopy, New
<1>1. Contents(current) \in [Low -> Values]
  BY <1>t, <1>0, ContentsType
<1>2. \A d \in Dirs : Contents(d)' = Contents(d)
  BY <1>0 DEF Contents, Content
<1>3. TypeOK'
  BY <1>t, <1>0, <1>1 DEF TypeOK
<1>4. Stage' /\ BootMarked' /\ TempEmpty' /\ TempShared'
  BY <1>t, <1>0 DEF Stage, BootMarked, TempEmpty, TempShared
<1>5. NotYetMapped'
  BY <1>t, <1>0 DEF NotYetMapped, TypeOK
<1>6. OwnStack'
  BY <1>t, <1>0 DEF OwnStack, Stage
<1>7. CopySoFar'
  <2>1. snap'[New'] = Contents(current)'
    BY <1>t, <1>0, <1>2 DEF TypeOK
  <2> QED
    BY <1>t, <1>0, <2>1 DEF CopySoFar
<1>8. PrivateFrames' /\ MappedMarked'
  BY <1>t, <1>0 DEF PrivateFrames, MappedMarked
<1>9. CopyKept' /\ KernelShared'
  <2>1. \A d \in Dirs : Done(d)' => Done(d) /\ d # dirs
    BY <1>0 DEF Done, Dirs
  <2> QED
    BY <1>t, <1>0, <1>2, <2>1 DEF CopyKept, KernelShared, TypeOK
<1> QED
  BY <1>3, <1>4, <1>5, <1>6, <1>7, <1>8, <1>9 DEF IInv

LEMMA SkipPageIInv == IInv /\ SkipPage => IInv'
<1> SUFFICES ASSUME IInv, SkipPage PROVE IInv'
  OBVIOUS
<1> USE Constants
<1>t. TypeOK /\ Stage /\ NotYetMapped /\ BootMarked /\ TempEmpty /\ OwnStack /\ CopySoFar
      /\ TempShared /\ PrivateFrames /\ MappedMarked /\ CopyKept /\ KernelShared
  BY DEF IInv
<1>0. /\ phase = "copy" /\ pos \in Low /\ low[current][pos].addr = 0 /\ pos' = pos + 1
      /\ UNCHANGED <<boot, used, mem, low, kernTabs, temp, dirs, current, snap, phase>>
      /\ New \in Dirs /\ current \in Dirs /\ New' = New
  BY <1>t DEF SkipPage, TypeOK, Stage, New
<1>1. \A d \in Dirs : Contents(d)' = Contents(d) /\ Done(d)' = Done(d)
  BY <1>0 DEF Contents, Content, Done
<1>2. TypeOK'
  BY <1>t, <1>0 DEF TypeOK
<1>3. Stage' /\ BootMarked' /\ TempEmpty' /\ TempShared' /\ OwnStack'
  BY <1>t, <1>0 DEF Stage, BootMarked, TempEmpty, TempShared, OwnStack
<1>4. NotYetMapped'
  BY <1>t, <1>0 DEF NotYetMapped
<1>5. CopySoFar'
  <2>1. Contents(current)[pos] = 0
    BY <1>t, <1>0, ContentsType DEF CopySoFar
  <2>2. Contents(New)[pos] = 0
    BY <1>t, <1>0, ContentsType DEF NotYetMapped, Unmapped
  <2>3. \A p \in Low : /\ p < pos + 1 => p < pos \/ p = pos
                       /\ p >= pos + 1 => p >= pos
    BY <1>0
  <2> QED
    BY <1>t, <1>0, <1>1, <2>1, <2>2, <2>3 DEF CopySoFar
<1>6. PrivateFrames' /\ MappedMarked'
  <2>1. UNCHANGED <<boot, used, low>>
    BY <1>0
  <2> QED
    BY <1>t, <2>1 DEF PrivateFrames, MappedMarked
<1>7. CopyKept' /\ KernelShared'
  BY <1>t, <1>0, <1>1 DEF CopyKept, KernelShared
<1> QED
  BY <1>2, <1>3, <1>4, <1>5, <1>6, <1>7 DEF IInv

LEMMA EndCopyIInv == IInv /\ EndCopy => IInv'
<1> SUFFICES ASSUME IInv, EndCopy PROVE IInv'
  OBVIOUS
<1> USE Constants
<1>t. TypeOK /\ Stage /\ NotYetMapped /\ BootMarked /\ TempEmpty /\ OwnStack /\ CopySoFar
      /\ TempShared /\ PrivateFrames /\ MappedMarked /\ CopyKept /\ KernelShared
  BY DEF IInv
<1>0. /\ phase = "copy" /\ pos = LowPages + 1
      /\ UNCHANGED <<boot, used, mem, low, temp, dirs, pos, snap>>
      /\ New \in Dirs /\ New # KernDir /\ current \in Dirs /\ New' = New /\ New < dirs
      /\ kernTabs' = [kernTabs EXCEPT ![New] = kernTabs[KernDir]]
      /\ \/ /\ current = KernDir /\ New = FirstTask /\ dirs = 2
            /\ current' = FirstTask /\ phase' = "relocate"
         \/ /\ current = FirstTask /\ New > FirstTask /\ dirs > 2
            /\ current' = FirstTask /\ phase' = "run"
  BY <1>t DEF EndCopy, TypeOK, Stage, New, TakenOver
<1>1. \A d \in Dirs : Contents(d)' = Contents(d) /\ (Done(d)' => Done(d) \/ d = New)
  BY <1>0 DEF Contents, Content, Done
<1>2. TypeOK'
  BY <1>t, <1>0 DEF TypeOK
<1>3. Stage' /\ BootMarked' /\ TempEmpty'
  BY <1>t, <1>0 DEF Stage, BootMarked, TempEmpty, TypeOK
<1>4. NotYetMapped'
  BY <1>t, <1>0 DEF NotYetMapped
<1>5. OwnStack'
  BY <1>t, <1>0 DEF OwnStack
<1>6. CopySoFar'
  BY <1>t, <1>0 DEF CopySoFar
<1>7. PrivateFrames' /\ MappedMarked'
  BY <1>t, <1>0 DEF PrivateFrames, MappedMarked
<1>8. KernelShared' /\ TempShared'
  BY <1>t, <1>0, <1>1 DEF KernelShared, TempShared, TypeOK
<1>9. CopyKept'
  <2>1. CASE current = KernDir
    BY <1>0, <2>1 DEF CopyKept, Done
  <2>2. CASE current = FirstTask
    <3>1. \A p \in Low : p < pos
      BY <1>0
    <3>2. \A p \in Low : Contents(New)[p] = snap[New][p]
      BY <1>t, <1>0, <3>1 DEF CopySoFar
    <3>3. Contents(New) \in [Low -> Values] /\ snap[New] \in [Low -> Values]
      BY <1>t, <1>0, ContentsType DEF TypeOK
    <3>4. Contents(New) = snap[New]
      BY <3>2, <3>3
    <3> QED
      BY <1>t, <1>0, <1>1, <2>2, <3>4 DEF CopyKept
  <2> QED
    BY <1>0, <2>1, <2>2
<1> QED
  BY <1>2, <1>3, <1>4, <1>5, <1>6, <1>7, <1>8, <1>9 DEF IInv

\* RelocateStack writes only frames of the new stack, none of which is frame 0.
LEMMA RelocateStackIInv == IInv /\ RelocateStack => IInv'
<1> SUFFICES ASSUME IInv, RelocateStack PROVE IInv'
  OBVIOUS
<1> USE Constants
<1>t. TypeOK /\ Stage /\ NotYetMapped /\ BootMarked /\ TempEmpty /\ OwnStack /\ CopySoFar
      /\ TempShared /\ PrivateFrames /\ MappedMarked /\ CopyKept /\ KernelShared
  BY DEF IInv
<1>0. /\ phase = "relocate" /\ phase' = "run" /\ dirs = 2 /\ current = FirstTask
      /\ \A p \in Low : low[FirstTask][p].present
      /\ UNCHANGED <<boot, used, low, kernTabs, temp, dirs, current, pos, snap>>
  BY <1>t DEF RelocateStack, Stage
<1>1. \A p \in Low : low[FirstTask][p].addr # 0
  BY <1>t, <1>0 DEF OwnStack
<1>2. mem' \in [Frames -> Values] /\ mem'[0] = mem[0]
  <2>1. PICK c \in [Low -> Values] :
          mem' = [f \in Frames |-> IF \E p \in Low : low[current][p].addr = f
                                  THEN c[CHOOSE p \in Low : low[current][p].addr = f]
                                  ELSE mem[f]]
    BY DEF RelocateStack
  <2>2. mem \in [Frames -> Values]
    BY <1>t DEF TypeOK
  <2>3. \A f \in Frames : (\E p \in Low : low[current][p].addr = f) =>
          (CHOOSE p \in Low : low[current][p].addr = f) \in Low
    OBVIOUS
  <2>4. \A f \in Frames : mem'[f] \in Values
    BY <2>1, <2>2, <2>3
  <2> QED
    BY <1>0, <1>1, <2>1, <2>4
<1>3. TypeOK'
  BY <1>t, <1>0, <1>2 DEF TypeOK
<1>4. Stage' /\ BootMarked' /\ TempEmpty' /\ NotYetMapped' /\ TempShared'
  BY <1>t, <1>0 DEF Stage, BootMarked, TempEmpty, NotYetMapped, TempShared
<1>5. OwnStack' /\ CopySoFar'
  BY <1>t, <1>0, <1>1, <1>2 DEF OwnStack, CopySoFar
<1>6. PrivateFrames' /\ MappedMarked'
  BY <1>t, <1>0 DEF PrivateFrames, MappedMarked
<1>7. CopyKept' /\ KernelShared'
  BY <1>t, <1>0 DEF CopyKept, KernelShared, Done, Dirs
<1> QED
  BY <1>3, <1>4, <1>5, <1>6, <1>7 DEF IInv

LEMMA RelocateFaultsIInv == IInv /\ RelocateFaults => IInv'
<1> SUFFICES ASSUME IInv, RelocateFaults PROVE IInv'
  OBVIOUS
<1> USE Constants
<1>t. TypeOK /\ Stage /\ NotYetMapped /\ BootMarked /\ TempEmpty /\ OwnStack /\ CopySoFar
      /\ TempShared /\ PrivateFrames /\ MappedMarked /\ CopyKept /\ KernelShared
  BY DEF IInv
<1>0. /\ phase = "relocate" /\ phase' = "stopped" /\ dirs = 2 /\ current = FirstTask
      /\ UNCHANGED <<boot, used, mem, low, kernTabs, temp, dirs, current, pos, snap>>
  BY <1>t DEF RelocateFaults, Stage
<1>1. TypeOK'
  BY <1>t, <1>0 DEF TypeOK
<1>2. Stage' /\ BootMarked' /\ TempEmpty' /\ NotYetMapped' /\ TempShared'
  BY <1>t, <1>0 DEF Stage, BootMarked, TempEmpty, NotYetMapped, TempShared
<1>3. OwnStack' /\ CopySoFar'
  BY <1>t, <1>0 DEF OwnStack, CopySoFar
<1>4. PrivateFrames' /\ MappedMarked'
  BY <1>t, <1>0 DEF PrivateFrames, MappedMarked
<1>5. CopyKept' /\ KernelShared'
  BY <1>t, <1>0 DEF CopyKept, KernelShared, Done, Dirs
<1> QED
  BY <1>1, <1>2, <1>3, <1>4, <1>5 DEF IInv

\* A store reaches no page of another directory, nor frame 0.
LEMMA WriteIInv ==
    ASSUME IInv, NEW p0 \in Low, NEW v \in Values, Write(p0, v)
    PROVE  IInv'
<1> USE Constants
<1>t. TypeOK /\ Stage /\ NotYetMapped /\ BootMarked /\ TempEmpty /\ OwnStack /\ CopySoFar
      /\ TempShared /\ PrivateFrames /\ MappedMarked /\ CopyKept /\ KernelShared
  BY DEF IInv
<1>0. /\ phase \in {"run", "copy"} /\ current = FirstTask /\ dirs \in Nat
      /\ phase = "copy" => New \in Dirs /\ New # KernDir /\ New # FirstTask
      /\ UNCHANGED <<boot, used, low, kernTabs, temp, dirs, current, pos, phase>> /\ New' = New
      /\ mem' = [mem EXCEPT ![low[FirstTask][p0].addr] = v]
      /\ snap' = IF phase = "copy" /\ p0 >= pos THEN [snap EXCEPT ![New][p0] = v] ELSE snap
      /\ mem \in [Frames -> Values] /\ snap \in [Dirs -> [Low -> Values]]
      /\ \A d \in Dirs, p \in Low : low[d][p] \in Page /\ low[d][p].addr \in Frames
  <2>1. /\ OnOwnStack
        /\ UNCHANGED <<boot, used, low, kernTabs, temp, dirs, current, pos, phase>>
        /\ mem' = [mem EXCEPT ![low[current][p0].addr] = v]
        /\ snap' = IF phase = "copy" /\ p0 >= pos THEN [snap EXCEPT ![New][p0] = v] ELSE snap
    BY DEF Write
  <2>2. phase \in {"run", "copy"} /\ (phase = "copy" => current # KernDir)
    BY <2>1 DEF OnOwnStack
  <2>3. current = FirstTask /\ (phase = "copy" => dirs > 2)
    BY <1>t, <2>2 DEF Stage
  <2>4. dirs \in 1 .. MaxDirs /\ mem \in [Frames -> Values] /\ snap \in [Dirs -> [Low -> Values]]
    BY <1>t DEF TypeOK
  <2>5. \A d \in Dirs, p \in Low : low[d][p] \in Page /\ low[d][p].addr \in Frames
    BY <1>t, PageType DEF TypeOK
  <2>6. phase = "copy" => New \in Dirs /\ New # KernDir /\ New # FirstTask
    BY <2>3, <2>4 DEF New
  <2>7. New' = New
    BY <2>1 DEF New
  <2> QED
    BY <2>1, <2>2, <2>3, <2>4, <2>5, <2>6, <2>7
<1>1. \A p \in Low : low[FirstTask][p].present /\ low[FirstTask][p].addr # 0
  BY <1>t, <1>0 DEF OwnStack
<1>2. mem' \in [Frames -> Values] /\ mem'[0] = mem[0]
  BY <1>0, <1>1
<1>3. \A d \in Dirs, p \in Low :
        /\ d # KernDir /\ d # FirstTask /\ low[d][p].present => mem'[low[d][p].addr] = mem[low[d][p].addr]
        /\ p # p0 => mem'[low[FirstTask][p].addr] = mem[low[FirstTask][p].addr]
  <2>1. \A d \in Dirs, p \in Low :
           low[d][p].addr # 0 /\ (d # FirstTask \/ p # p0) => low[d][p].addr # low[FirstTask][p0].addr
    BY <1>t, ApartMeans DEF Apart
  <2>2. \A d \in Dirs, p \in Low : d # KernDir /\ low[d][p].present => low[d][p].addr # 0
    BY <1>t DEF OwnStack
  <2> QED
    BY <1>0, <1>1, <2>1, <2>2
<1>4. /\ snap' \in [Dirs -> [Low -> Values]]
      /\ \A d \in Dirs : phase # "copy" \/ d # New => snap'[d] = snap[d]
  BY <1>0
<1>5. TypeOK'
  BY <1>t, <1>0, <1>2, <1>4 DEF TypeOK
<1>6. Stage' /\ BootMarked' /\ TempEmpty' /\ NotYetMapped' /\ TempShared' /\ OwnStack'
  BY <1>t, <1>0 DEF Stage, BootMarked, TempEmpty, NotYetMapped, TempShared, OwnStack
<1>7. \A d \in Dirs : d # KernDir /\ d # FirstTask => Contents(d)' = Contents(d)
  <2> SUFFICES ASSUME NEW d \in Dirs, d # KernDir, d # FirstTask
               PROVE  Contents(d)' = Contents(d)
    OBVIOUS
  <2>1. \A p \in Low : low'[d][p] = low[d][p]
                      /\ (low[d][p].present => mem'[low[d][p].addr] = mem[low[d][p].addr])
    BY <1>0, <1>3
  <2> QED
    BY <2>1 DEF Contents, Content
<1>8. CopySoFar'
  <2>1. mem'[0] = 0
    BY <1>t, <1>2 DEF CopySoFar
  <2> SUFFICES ASSUME phase = "copy", NEW p \in Low
               PROVE  /\ p >= pos => snap'[New][p] = Contents(current)'[p]
                      /\ p < pos => Contents(New)'[p] = snap'[New][p]
    BY <1>0, <2>1 DEF CopySoFar
  <2>2. /\ Contents(current)'[p] = mem'[low[FirstTask][p].addr]
        /\ Contents(current)[p] = mem[low[FirstTask][p].addr]
    BY <1>0, <1>1 DEF Contents, Content
  <2>3. CASE p >= pos
    <3>1. snap[New][p] = Contents(current)[p]
      BY <1>t, <2>3 DEF CopySoFar
    <3>2. CASE p = p0
      <4>1. snap'[New][p] = v
        BY <1>0, <2>3, <3>2
      <4>2. mem'[low[FirstTask][p].addr] = v
        BY <1>0, <3>2
      <4> QED
        BY <1>t, <2>2, <2>3, <4>1, <4>2 DEF TypeOK
    <3>3. CASE p # p0
      <4>1. snap'[New][p] = snap[New][p]
        BY <1>0, <3>3
      <4>2. mem'[low[FirstTask][p].addr] = mem[low[FirstTask][p].addr]
        BY <1>3, <3>3
      <4> QED
        BY <1>t, <2>2, <2>3, <3>1, <4>1, <4>2 DEF TypeOK
    <3> QED
      BY <3>2, <3>3
  <2>4. CASE p < pos
    <3>1. Contents(New)[p] = snap[New][p]
      BY <1>t, <2>4 DEF CopySoFar
    <3>2. Contents(New)' = Contents(New)
      BY <1>0, <1>7
    <3>3. snap'[New][p] = snap[New][p]
      BY <1>t, <1>0, <2>4 DEF TypeOK
    <3> QED
      BY <1>t, <2>4, <3>1, <3>2, <3>3 DEF TypeOK
  <2> QED
    BY <1>t, <2>3, <2>4 DEF TypeOK
<1>9. PrivateFrames' /\ MappedMarked'
  BY <1>t, <1>0 DEF PrivateFrames, MappedMarked
<1>10. KernelShared'
  BY <1>t, <1>0 DEF KernelShared, Done
<1>11. CopyKept'
  <2>1. \A d \in Dirs : Done(d)' => Done(d) /\ (phase = "copy" => d # New)
    BY <1>0 DEF Done
  <2> QED
    BY <1>t, <1>0, <1>4, <1>7, <2>1 DEF CopyKept
<1> QED
  BY <1>5, <1>6, <1>8, <1>9, <1>10, <1>11 DEF IInv

-----------------------------------------------------------------------------
(* One round of copy_pg_dir.                                               *)

\* The frame of the round: it is marked, mapped at 0xE0000000, given back by
\* unmap_page and marked again by map_page in the new directory, or there is
\* none and the page at 0xE0000000 stays empty.
LEMMA RoundFrame ==
    ASSUME IInv, phase = "copy", pos \in Low
    PROVE  \/ Filled = [page |-> Unmapped, used |-> used]
           \/ \E f \in Frames \ used :
                 /\ f # 0
                 /\ Filled = [page |-> [present |-> TRUE, addr |-> f], used |-> used \cup {f}]
                 /\ Emptied = [page |-> Unmapped, used |-> used]
                 /\ Mapped = [page |-> [present |-> TRUE, addr |-> f], used |-> used \cup {f}]
<1> USE Constants
<1>0. /\ used \in SUBSET Frames /\ 0 \in used /\ temp \in Page /\ temp.addr = 0
      /\ New \in Dirs /\ low[New][pos] = Unmapped
  BY DEF IInv, TypeOK, BootMarked, TempEmpty, NotYetMapped, New, Stage
<1>1. PICK f : f = get_frame(used)
  OBVIOUS
<1>2. CASE f \in Frames \ used
  <2>1. f # 0 /\ f \in Frames /\ f \notin used
    BY <1>0, <1>2
  <2>2. PICK u \in SUBSET Frames : u = TakenFrames(used) /\ u = used \cup {f}
    BY <1>0, <1>1, <2>1, Taken
  <2>3. u \cup {f} = used \cup {f}
    BY <2>2
  <2>4. map_page(temp, u, f) = [page |-> [present |-> TRUE, addr |-> f], used |-> u \cup {f}]
    BY <1>0, <2>1, MapAt
  <2>5. Filled = [page |-> [present |-> TRUE, addr |-> f], used |-> used \cup {f}]
    BY <1>1, <2>2, <2>3, <2>4 DEF Filled
  <2>6. Emptied = unmap_page([present |-> TRUE, addr |-> f], used \cup {f})
    BY <2>5 DEF Emptied
  <2>7. Emptied = [page |-> Unmapped, used |-> used]
    BY <1>0, <2>1, <2>6, Unmap
  <2>8. Unmapped \in Page /\ Unmapped.addr = 0
    BY PageType DEF Unmapped
  <2>9. map_page(Unmapped, used, f) = [page |-> [present |-> TRUE, addr |-> f], used |-> used \cup {f}]
    BY <1>0, <2>1, <2>8, MapAt
  <2>10. Mapped = [page |-> [present |-> TRUE, addr |-> f], used |-> used \cup {f}]
    BY <1>0, <1>1, <2>7, <2>9 DEF Mapped
  <2> QED
    BY <2>1, <2>5, <2>7, <2>10
<1>3. CASE f = BadFrame /\ used = Frames
  <2>1. f \notin Frames /\ f # 0
    BY <1>3, BadIsOut
  <2>2. TakenFrames(used) = used
    BY <1>0, <1>1, <1>3, Taken
  <2>3. map_page(temp, used, f) = [page |-> Unmapped, used |-> used]
    BY <1>0, <2>1, MapOut
  <2> QED
    BY <1>1, <2>2, <2>3 DEF Filled
<1> QED
  BY <1>0, <1>1, <1>2, <1>3, GetFrame

\* Adding the table of the page at 0xE0000000 to the loaded directory keeps
\* the kernel tables of all finished directories equal: only tasking_init,
\* when kern_dir is the only one, can add it.
LEMMA TempTable ==
    ASSUME IInv, phase = "copy", pos \in Low, low[current][pos].addr # 0,
           NEW k, k = [kernTabs EXCEPT ![current] = @ \cup {"temp"}]
    PROVE  /\ k \in [Dirs -> SUBSET {"kernel", "heap", "temp"}]
           /\ "temp" \in k[KernDir]
           /\ \A d \in Dirs : Done(d) => k[d] = k[KernDir]
<1> USE Constants
<1>1. kernTabs \in [Dirs -> SUBSET {"kernel", "heap", "temp"}] /\ current \in Dirs /\ dirs \in Nat
  BY DEF IInv, TypeOK
<1>2. CASE current = KernDir
  <2>1. \A d \in Dirs : Done(d) => d = KernDir
    BY <1>1, <1>2 DEF IInv, Stage, Done, New
  <2> QED
    BY <1>1, <1>2, <2>1
<1>3. CASE current = FirstTask
  <2>1. Done(FirstTask)
    BY <1>1, <1>3 DEF IInv, Stage, Done, New
  <2>2. "temp" \in kernTabs[KernDir]
    BY <1>3 DEF IInv, TempShared
  <2>3. kernTabs[FirstTask] = kernTabs[KernDir]
    BY <2>1 DEF IInv, KernelShared
  <2>4. \A d \in Dirs : k[d] = kernTabs[d]
    BY <1>1, <1>3, <2>2, <2>3
  <2> QED
    BY <1>1, <2>2, <2>4 DEF IInv, KernelShared
<1> QED
  BY <1>2, <1>3 DEF IInv, Stage

LEMMA CopyFaultsIInv == IInv /\ CopyFaults => IInv'
<1> SUFFICES ASSUME IInv, CopyFaults PROVE IInv'
  OBVIOUS
<1> USE Constants
<1>t. TypeOK /\ Stage /\ NotYetMapped /\ BootMarked /\ TempEmpty /\ OwnStack /\ CopySoFar
      /\ TempShared /\ PrivateFrames /\ MappedMarked /\ CopyKept /\ KernelShared
  BY DEF IInv
<1>0. /\ phase = "copy" /\ phase' = "stopped" /\ pos \in Low /\ low[current][pos].addr # 0
      /\ UNCHANGED <<boot, mem, low, dirs, current, pos, snap>>
      /\ ~ Filled.page.present /\ temp' = Filled.page /\ used' = Filled.used
      /\ kernTabs' = [kernTabs EXCEPT ![current] = @ \cup {"temp"}]
  BY DEF CopyFaults
<1>1. Filled = [page |-> Unmapped, used |-> used]
  BY <1>0, RoundFrame
<1>2. used' = used /\ temp' = Unmapped
  BY <1>0, <1>1
<1>3. /\ kernTabs' \in [Dirs -> SUBSET {"kernel", "heap", "temp"}]
      /\ "temp" \in kernTabs'[KernDir]
      /\ \A d \in Dirs : Done(d) => kernTabs'[d] = kernTabs'[KernDir]
  BY <1>0, TempTable
<1>4. \A d \in Dirs : Contents(d)' = Contents(d) /\ Done(d)' = Done(d)
  BY <1>0 DEF Contents, Content, Done, New
<1>5. TypeOK'
  BY <1>t, <1>0, <1>2, <1>3, PageType DEF TypeOK
<1>6. Stage' /\ BootMarked' /\ TempEmpty' /\ NotYetMapped' /\ TempShared'
  BY <1>t, <1>0, <1>2, <1>3 DEF Stage, BootMarked, TempEmpty, NotYetMapped, TempShared, TypeOK, Unmapped
<1>7. OwnStack' /\ CopySoFar'
  BY <1>t, <1>0 DEF OwnStack, CopySoFar
<1>8. PrivateFrames' /\ MappedMarked'
  BY <1>t, <1>0, <1>2 DEF PrivateFrames, MappedMarked
<1>9. CopyKept' /\ KernelShared'
  BY <1>t, <1>0, <1>3, <1>4 DEF CopyKept, KernelShared
<1> QED
  BY <1>5, <1>6, <1>7, <1>8, <1>9 DEF IInv

LEMMA CopyPageIInv == IInv /\ CopyPage => IInv'
<1> SUFFICES ASSUME IInv, CopyPage PROVE IInv'
  OBVIOUS
<1> USE Constants
<1>t. TypeOK /\ Stage /\ NotYetMapped /\ BootMarked /\ TempEmpty /\ OwnStack /\ CopySoFar
      /\ TempShared /\ PrivateFrames /\ MappedMarked /\ CopyKept /\ KernelShared
  BY DEF IInv
<1>0. /\ phase = "copy" /\ pos \in Low /\ low[current][pos].addr # 0 /\ pos' = pos + 1
      /\ UNCHANGED <<boot, dirs, current, snap, phase>>
      /\ kernTabs' = [kernTabs EXCEPT ![current] = @ \cup {"temp"}]
      /\ New \in Dirs /\ current \in Dirs /\ New # current /\ New # KernDir /\ New' = New
      /\ low \in [Dirs -> [Low -> Page]] /\ mem \in [Frames -> Values]
      /\ low[New][pos] = Unmapped /\ dirs \in Nat /\ New < dirs
      /\ used \in SUBSET Frames /\ 0 \in used /\ boot \in SUBSET used
  BY <1>t DEF CopyPage, TypeOK, New, Stage, NotYetMapped, BootMarked
<1>1. Filled # [page |-> Unmapped, used |-> used]
  BY DEF CopyPage, Unmapped
<1>2. PICK f \in Frames \ used :
        /\ f # 0
        /\ Filled = [page |-> [present |-> TRUE, addr |-> f], used |-> used \cup {f}]
        /\ Emptied = [page |-> Unmapped, used |-> used]
        /\ Mapped = [page |-> [present |-> TRUE, addr |-> f], used |-> used \cup {f}]
  BY <1>0, <1>1, RoundFrame
<1>3. PICK pg : pg = [present |-> TRUE, addr |-> f]
  OBVIOUS
<1>4. pg \in Page /\ pg.addr = f /\ pg.present
  BY <1>3, PageType
<1>5. Filled.page.addr = f /\ Emptied.page = Unmapped /\ Mapped.page = pg /\ Mapped.used = used \cup {f}
  BY <1>2, <1>3
<1>6. /\ mem' = [mem EXCEPT ![f] = Content(current, pos)] /\ temp' = Unmapped
      /\ used' = used \cup {f} /\ low' = [low EXCEPT ![New][pos] = pg]
  BY <1>5 DEF CopyPage
<1>7. /\ low' \in [Dirs -> [Low -> Page]]
      /\ \A d \in Dirs, p \in Low : low'[d][p] = IF d = New /\ p = pos THEN pg ELSE low[d][p]
  BY <1>0, <1>4, <1>6
<1>8. /\ kernTabs' \in [Dirs -> SUBSET {"kernel", "heap", "temp"}]
      /\ "temp" \in kernTabs'[KernDir]
      /\ \A d \in Dirs : Done(d) => kernTabs'[d] = kernTabs'[KernDir]
  BY <1>0, TempTable
<1>9. \A d \in Dirs, p \in Low : low[d][p].addr \in Frames /\ low[d][p].addr # f
  BY <1>t, <1>0, <1>2, PageType DEF MappedMarked
<1>10. /\ mem' \in [Frames -> Values]
       /\ mem'[0] = mem[0] /\ mem'[f] = mem[low[current][pos].addr]
       /\ \A d \in Dirs, p \in Low : mem'[low[d][p].addr] = mem[low[d][p].addr]
  BY <1>0, <1>2, <1>6, <1>9 DEF Content
<1>11. TypeOK'
  BY <1>t, <1>0, <1>2, <1>6, <1>7, <1>8, <1>10, PageType DEF TypeOK
<1>12. Stage' /\ BootMarked' /\ TempEmpty' /\ TempShared'
  BY <1>t, <1>0, <1>6, <1>8 DEF Stage, BootMarked, TempEmpty, TempShared, Unmapped
<1>13. NotYetMapped'
  BY <1>t, <1>0, <1>7 DEF NotYetMapped, Dirs, Low
<1>14. OwnStack'
  <2>0. pg.addr # 0 /\ pg.present
    BY <1>2, <1>4
  <2>1. \A d \in Dirs, p \in Low :
          /\ d # KernDir /\ low'[d][p].present => low'[d][p].addr # 0
          /\ low'[d][p].addr # 0 => low'[d][p].present
    <3> SUFFICES ASSUME NEW d \in Dirs, NEW p \in Low
                 PROVE  /\ d # KernDir /\ low'[d][p].present => low'[d][p].addr # 0
                        /\ low'[d][p].addr # 0 => low'[d][p].present
      OBVIOUS
    <3>1. CASE d = New /\ p = pos
      BY <3>1, <2>0, <1>7
    <3>2. CASE ~ (d = New /\ p = pos)
      <4>1. low'[d][p] = low[d][p]
        BY <3>2, <1>7
      <4> QED
        BY <4>1, <1>t DEF OwnStack
    <3> QED
      BY <3>1, <3>2
  <2>2. current = FirstTask => \A p \in Low : low'[FirstTask][p] = low[FirstTask][p]
    BY <1>0, <1>7
  <2>3. current' = current /\ phase' = phase /\ phase = "copy"
    BY <1>0
  <2>4. current = FirstTask => \A p \in Low : low[FirstTask][p].present /\ low[FirstTask][p].addr # 0
    BY <1>t, <2>3 DEF OwnStack
  <2>5. current' = FirstTask => \A p \in Low : low'[FirstTask][p].present /\ low'[FirstTask][p].addr # 0
    BY <2>2, <2>3, <2>4
  <2>6. phase' # "run"
    BY <2>3
  <2> QED
    BY <2>1, <2>5, <2>6, Zenon DEF OwnStack
<1>15. PrivateFrames' /\ MappedMarked'
  <2>1. Apart(low, used, boot)
    BY <1>t, ApartMeans
  <2>2. low[New][pos].addr = 0 /\ New \in Dirs /\ pos \in Low /\ 0 \in used /\ boot \in SUBSET used
    BY <1>0 DEF Unmapped
  <2>3. pg.addr \notin used /\ used' = used \cup {pg.addr}
    BY <1>2, <1>4, <1>6
  <2>4. Apart(low', used', boot)
    BY ONLY <2>1, <2>2, <2>3, <1>7, GiveFrame
  <2> QED
    BY <1>0, <2>4, ApartMeansNext
<1>16. \A d \in Dirs, p \in Low :
         /\ Contents(d)'[p] = IF low'[d][p].present THEN mem'[low'[d][p].addr] ELSE 0
         /\ Contents(d)[p] = IF low[d][p].present THEN mem[low[d][p].addr] ELSE 0
  BY DEF Contents, Content
<1>17. \A d \in Dirs, p \in Low : d # New \/ p # pos => Contents(d)'[p] = Contents(d)[p]
  BY <1>7, <1>10, <1>16
<1>18. \A d \in Dirs : d # New => Contents(d)' = Contents(d)
  BY <1>17 DEF Contents
<1>19. CopySoFar'
  <2>1. Contents(New)'[pos] = mem[low[current][pos].addr]
    BY <1>0, <1>4, <1>7, <1>10, <1>16
  <2>2. low[current][pos].present
    BY <1>t, <1>0 DEF OwnStack
  <2>3. Contents(current)[pos] = mem[low[current][pos].addr]
    BY <1>0, <1>16, <2>2
  <2>4. /\ \A p \in Low : p >= pos => snap[New][p] = Contents(current)[p]
        /\ Contents(current)' = Contents(current)
    BY <1>t, <1>0, <1>18 DEF CopySoFar
  <2>5. ASSUME NEW p \in Low, p < pos + 1
        PROVE  Contents(New)'[p] = snap[New][p]
    <3>1. CASE p = pos
      BY <1>0, <2>1, <2>3, <2>4, <3>1
    <3>2. CASE p # pos
      <4>1. p < pos
        BY <1>0, <2>5, <3>2
      <4> QED
        BY <1>t, <1>0, <1>17, <3>2, <4>1 DEF CopySoFar
    <3> QED
      BY <3>1, <3>2
  <2>6. mem'[0] = 0
    BY <1>t, <1>10 DEF CopySoFar
  <2>7. \A p \in Low : p >= pos + 1 => snap[New][p] = Contents(current)'[p]
    BY <1>0, <2>4
  <2> QED
    BY <1>0, <2>5, <2>6, <2>7 DEF CopySoFar
<1>20. CopyKept' /\ KernelShared'
  <2>1. \A d \in Dirs : Done(d)' => Done(d) /\ d # New
    BY <1>0 DEF Done
  <2> QED
    BY <1>t, <1>0, <1>8, <1>18, <2>1 DEF CopyKept, KernelShared
<1> QED
  BY <1>11, <1>12, <1>13, <1>14, <1>15, <1>19, <1>20 DEF IInv

-----------------------------------------------------------------------------
(* The theorems.                                                           *)

LEMMA NextIInv == IInv /\ [Next]_vars => IInv'
<1> SUFFICES ASSUME IInv, [Next]_vars PROVE IInv'
  OBVIOUS
<1>1. CASE AllocateStack
  BY <1>1, AllocateStackIInv
<1>2. CASE TaskingInit \/ Fork
  BY <1>2, StartCopyIInv DEF TaskingInit, Fork
<1>3. CASE SkipPage
  BY <1>3, SkipPageIInv
<1>4. CASE CopyPage
  BY <1>4, CopyPageIInv
<1>5. CASE CopyFaults
  BY <1>5, CopyFaultsIInv
<1>6. CASE EndCopy
  BY <1>6, EndCopyIInv
<1>7. CASE RelocateStack
  BY <1>7, RelocateStackIInv
<1>8. CASE RelocateFaults
  BY <1>8, RelocateFaultsIInv
<1>9. CASE \E p \in Low, v \in Values : Write(p, v)
  BY <1>9, WriteIInv
<1>10. CASE UNCHANGED vars
  BY <1>10 DEF vars, IInv, TypeOK, Stage, NotYetMapped, BootMarked, TempEmpty, OwnStack, CopySoFar,
     TempShared, PrivateFrames, MappedMarked, CopyKept, KernelShared, Done, New, Contents, Content
<1> QED
  BY <1>1, <1>2, <1>3, <1>4, <1>5, <1>6, <1>7, <1>8, <1>9, <1>10 DEF Next

\* Frames are private and marked, and while copy_pg_dir is half way the new
\* directory agrees with its parent on the pages that are done.
THEOREM Inductive == Spec => []IInv
  BY InitIInv, NextIInv, PTL DEF Spec

\* No page table entry, counter or phase leaves its type, at any bound.
THEOREM TypeCorrect == Spec => []TypeOK
<1>1. IInv => TypeOK
  BY DEF IInv
<1> QED
  BY <1>1, Inductive, PTL

\* map_page and copy_pg_dir never give one frame to two stack pages, of one
\* directory or of two, nor a frame that was in use at boot.
THEOREM FramesArePrivate == Spec => []PrivateFrames
<1>1. IInv => PrivateFrames
  BY DEF IInv
<1> QED
  BY <1>1, Inductive, PTL

\* The frame of a mapped page stays marked through unmap_page of the page at
\* 0xE0000000, so get_frame never returns it again.
THEOREM MappedFramesMarked == Spec => []MappedMarked
<1>1. IInv => MappedMarked
  BY DEF IInv
<1> QED
  BY <1>1, Inductive, PTL

\* Each page of a forked directory holds what the parent's page held when
\* copy_pg_dir copied it, whatever is stored into the parent's stack before,
\* between and after its rounds.
THEOREM ForkKeepsCopy == Spec => []CopyKept
<1>1. IInv => CopyKept
  BY DEF IInv
<1> QED
  BY <1>1, Inductive, PTL

\* Every finished directory has the kernel tables of kern_dir, the table that
\* copy_pg_dir creates on its way included.
THEOREM TablesShared == Spec => []KernelShared
<1>1. IInv => KernelShared
  BY DEF IInv
<1> QED
  BY <1>1, Inductive, PTL
=============================================================================
