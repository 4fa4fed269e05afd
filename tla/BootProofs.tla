----------------------------- MODULE BootProofs -----------------------------
(***************************************************************************)
(* Proofs about Boot for every end of the kernel image, every number of    *)
(* frames, size of a page table and place of the heap: what the boot       *)
(* allocator returns is disjoint and, if the memory is large enough, is    *)
(* mapped at its own address when paging goes on, away from the heap.      *)
(***************************************************************************)
EXTENDS Boot, WellFoundedInduction, TLAPS

-----------------------------------------------------------------------------
(* The entry and the pool after map_page.                                  *)

\* get_frame returns a frame that was not marked, and fails only if all are.
LEMMA GetFrame ==
    ASSUME NEW u \in SUBSET Frames
    PROVE  \/ get_frame(u) \in Frames \ u
           \/ get_frame(u) = BadFrame /\ u = Frames
<1>1. CASE Frames \subseteq u
  BY <1>1 DEF get_frame
<1>2. CASE ~ (Frames \subseteq u)
  <2> DEFINE S == Frames \ u
             R == OpToRel(<, Nat)
  <2>1. S \in SUBSET Nat /\ S # {}
    BY <1>2, PageOpsAssumption DEF Frames
  <2>2. IsWellFoundedOn(R, Nat)
    BY NatLessThanWellFounded
  <2> HIDE DEF R
  <2>3. PICK f \in S : \A g \in S : ~ (<<g, f>> \in R)
    BY <2>1, <2>2, WFMin
  <2>4. \A g \in S : ~ (g < f)
    BY <2>1, <2>3 DEF R, OpToRel
  <2>5. \A g \in S : f <= g
    BY <2>1, <2>4
  <2> QED
    BY <1>2, <2>5 DEF get_frame
<1> QED
  BY <1>1, <1>2

\* BadFrame is no frame.
LEMMA BadIsOut == BadFrame \notin Frames /\ BadFrame # 0 /\ 0 \in Frames
  BY PageOpsAssumption DEF BadFrame, Frames

\* The pool after get_frame.
LEMMA Taken ==
    ASSUME NEW u \in SUBSET Frames
    PROVE  /\ TakenFrames(u) \in SUBSET Frames
           /\ get_frame(u) \in Frames => TakenFrames(u) = u \cup {get_frame(u)}
           /\ get_frame(u) = BadFrame => TakenFrames(u) = u
  BY GetFrame, BadIsOut DEF TakenFrames

\* map_page without an address gives the page a frame that was free, or marks
\* nothing and leaves the page present with frame number 0.
LEMMA MapAny ==
    ASSUME NEW pg \in Page, pg.addr = 0, NEW u \in SUBSET Frames, 0 \in u,
           NEW r, r = map_page(pg, u, NoAddr)
    PROVE  /\ r.page \in Page /\ r.page.present
           /\ r.used \in SUBSET Frames
           /\ \/ /\ r.page.addr \in Frames \ u
                 /\ r.used = u \cup {r.page.addr}
              \/ r.page.addr = 0 /\ r.used = u /\ u = Frames
<1>1. r = [page |-> [present |-> TRUE, addr |-> IF get_frame(u) = BadFrame THEN 0 ELSE get_frame(u)],
           used |-> TakenFrames(u)]
  BY DEF map_page, NoAddr
<1>2. CASE get_frame(u) \in Frames \ u
  BY <1>1, <1>2, Taken, BadIsOut DEF Page
<1>3. CASE get_frame(u) = BadFrame /\ u = Frames
  BY <1>1, <1>3, Taken, BadIsOut DEF Page
<1> QED
  BY <1>2, <1>3, GetFrame

\* map_page with the address of a frame maps the page there and marks it.
LEMMA MapAt ==
    ASSUME NEW pg \in Page, pg.addr = 0, NEW u \in SUBSET Frames,
           NEW f \in Frames, f # 0
    PROVE  map_page(pg, u, f) = [page |-> [present |-> TRUE, addr |-> f], used |-> u \cup {f}]
  BY DEF map_page, NoAddr

\* map_page with an address out of range leaves the page without a frame.
LEMMA MapOut ==
    ASSUME NEW pg \in Page, pg.addr = 0, NEW u \in SUBSET Frames,
           NEW f, f \notin Frames, f # 0
    PROVE  map_page(pg, u, f) = [page |-> Unmapped, used |-> u]
<1>1. u \cup ({f} \cap Frames) = u
  OBVIOUS
<1>2. map_page(pg, u, f) = [page |-> [present |-> f \in Frames, addr |-> IF f \in Frames THEN f ELSE 0],
                            used |-> u \cup ({f} \cap Frames)]
  BY DEF map_page, NoAddr
<1>3. (f \in Frames) = FALSE
  OBVIOUS
<1> QED
  BY <1>1, <1>2, <1>3, Zenon DEF Unmapped

\* The entries that map_page makes are entries.
LEMMA PageType ==
    /\ Unmapped \in Page
    /\ \A f \in Frames : [present |-> TRUE, addr |-> f] \in Page
    /\ \A pg \in Page : pg.addr \in Frames /\ pg.present \in BOOLEAN
  BY BadIsOut DEF Unmapped, Page

\* Whatever map_page is called with, it returns an entry and marks at most one
\* frame more.
LEMMA MapType ==
    ASSUME NEW pg \in Page, NEW u \in SUBSET Frames, NEW a \in Nat, NEW r, r = map_page(pg, u, a)
    PROVE  r.page \in Page /\ r.used \in SUBSET Frames /\ u \subseteq r.used
<1>1. CASE pg.addr # 0
  BY <1>1 DEF map_page, Page
<1>2. CASE pg.addr = 0 /\ a # NoAddr /\ a \in Frames
  <2>1. r = [page |-> [present |-> TRUE, addr |-> a], used |-> u \cup {a}]
    BY <1>2, MapAt DEF NoAddr
  <2> QED
    BY <1>2, <2>1, PageType
<1>3. CASE pg.addr = 0 /\ a # NoAddr /\ a \notin Frames
  <2>1. r = [page |-> Unmapped, used |-> u]
    BY <1>3, MapOut DEF NoAddr
  <2> QED
    BY <2>1, PageType
<1>4. CASE pg.addr = 0 /\ a = NoAddr
  <2>1. r = [page |-> [present |-> TRUE, addr |-> IF get_frame(u) = BadFrame THEN 0 ELSE get_frame(u)],
             used |-> TakenFrames(u)]
    BY <1>4 DEF map_page, NoAddr
  <2>2. CASE get_frame(u) \in Frames
    BY <2>1, <2>2, Taken, BadIsOut, PageType
  <2>3. CASE get_frame(u) = BadFrame
    BY <2>1, <2>3, Taken, BadIsOut, PageType
  <2> QED
    BY <2>2, <2>3, GetFrame
<1> QED
  BY <1>1, <1>2, <1>3, <1>4

-----------------------------------------------------------------------------
(* The inductive invariant.                                                *)

BootType ==
    /\ alloc_ptr \in Nat
    /\ taken \in SUBSET (Int \X Int)
    /\ used \in SUBSET Frames
    /\ DOMAIN pages \in SUBSET Nat
    /\ \A i \in DOMAIN pages : pages[i] \in Page
    /\ next \in Nat
    /\ phase \in {"pmm", "dir", "kernel", "heap", "on"}

\* Everything that was returned lies below the pointer.
TakenBelow == \A r \in taken : 0 <= r[1] /\ r[2] < alloc_ptr

\* Page i is mapped at its own address, and its frame is marked.
Own(i) == i \in DOMAIN pages /\ pages[i] = [present |-> TRUE, addr |-> i] /\ i \in used

\* What is mapped while the kernel is.
KernelMapped ==
    /\ DOMAIN pages = 0 .. next - 1
    /\ \A i \in DOMAIN pages : ToMap(i)
    /\ \A i \in Nat \ {0} : i < next /\ i \in Frames => Own(i)

\* What is mapped while the heap is.  As long as its table is missing the
\* mapping goes one page further than what the allocator returned.
HeapMapped ==
    /\ HeapStart <= next /\ next <= HeapStart + HeapPages
    /\ \A i \in DOMAIN pages : ToMap(i) \/ (HeapStart <= i /\ i < next)
    /\ \A i \in Nat \ {0} :
          /\ i < HeapStart /\ i \in Frames
          /\ i * PG_SZ < alloc_ptr \/ (Table(HeapStart) \notin tables /\ ToMap(i))
          => Own(i)
    /\ next > HeapStart => Table(HeapStart) \in tables
    /\ \A i \in Nat : HeapStart <= i /\ i < next => i \in DOMAIN pages

\* The memory is large enough so far: the pages that the kernel's loop maps
\* exist and end below the heap, and a frame is left.
EnoughMemory ==
    /\ alloc_ptr \div PG_SZ + 1 < FrameCount
    /\ alloc_ptr \div PG_SZ + 1 < HeapStart
    /\ used # Frames

\* The frames of the heap are marked, and are nobody else's.
HeapSoFar ==
    \A i \in Nat : HeapStart <= i /\ i < next =>
        /\ pages[i].addr \in used /\ pages[i].addr # 0
        /\ \A j \in Nat \ {0} : j * PG_SZ < alloc_ptr => pages[i].addr # j
        /\ \A k \in Nat : HeapStart <= k /\ k < next /\ k # i => pages[i].addr # pages[k].addr

IInv ==
    /\ BootType /\ TakenBelow /\ TakenDisjoint
    /\ phase \in {"pmm", "dir"} => DOMAIN pages = {}
    /\ phase \notin {"pmm", "dir"} => 0 \in used
    /\ phase = "kernel" => KernelMapped
    /\ phase \in {"heap", "on"} => HeapMapped /\ (EnoughMemory => HeapSoFar)
    /\ phase = "on" => next = HeapStart + HeapPages

-----------------------------------------------------------------------------
(* The boot allocator.                                                     *)

LEMMA Constants ==
    /\ \A e \in KernelEnds : e \in Nat
    /\ BitsetBytes \in Nat /\ TabPages \in Nat \ {0} /\ HeapPages \in Nat /\ HeapPages <= TabPages
    /\ HeapStart \in Nat /\ HeapStart % TabPages = 0
    /\ Reserved \in SUBSET Frames
    /\ FrameCount \in Nat \ {0} /\ Frames = 0 .. FrameCount - 1 /\ 0 \in Frames
  BY BootAssumption, PageOpsAssumption DEF Frames

\* The ranges of T are disjoint and lie below a.
Apart(T, a) ==
    /\ T \in SUBSET (Int \X Int)
    /\ \A r \in T : 0 <= r[1] /\ r[2] < a
    /\ \A r, s \in T : r # s => r[2] < s[1] \/ s[2] < r[1]

LEMMA RoundUp ==
    ASSUME NEW a \in Nat
    PROVE  /\ PG_ROUND_UP(a) \in Nat /\ PG_ROUND_UP(a) > a /\ PG_ROUND_UP(a) <= a + PG_SZ
           /\ PG_ROUND_UP(a) = (a \div PG_SZ + 1) * PG_SZ
  BY DEF PG_ROUND_UP, PG_SZ

\* kmalloc_helper returns a range at or behind the pointer, and moves the
\* pointer behind it.
LEMMA TakeRange ==
    ASSUME NEW a \in Nat, NEW T, Apart(T, a), NEW sz \in Nat \ {0}, NEW al \in BOOLEAN
    PROVE  /\ kmalloc_helper(a, sz, al) \in Nat /\ kmalloc_helper(a, sz, al) > a
           /\ Apart(T \cup {Range(a, sz, al)}, kmalloc_helper(a, sz, al))
<1>1. PICK b : b = Aligned(a, al)
  OBVIOUS
<1>2. b \in Nat /\ b >= a
  BY <1>1, RoundUp DEF Aligned
<1>3. kmalloc_helper(a, sz, al) = b + sz /\ Range(a, sz, al) = <<b, b + sz - 1>>
  BY <1>1 DEF kmalloc_helper, Range
<1>4. PICK q : q = <<b, b + sz - 1>>
  OBVIOUS
<1>5. q \in Int \X Int /\ q[1] = b /\ q[2] = b + sz - 1
  BY <1>2, <1>4
<1>6. \A r \in T : r[1] \in Int /\ r[2] \in Int /\ 0 <= r[1] /\ r[2] < a
  BY DEF Apart
<1>7. Apart(T \cup {q}, b + sz)
  BY <1>2, <1>5, <1>6 DEF Apart
<1> QED
  BY <1>2, <1>3, <1>4, <1>7

\* All pages of the heap are in one table.
LEMMA HeapTable ==
    ASSUME NEW n \in Nat, HeapStart <= n, n < HeapStart + HeapPages
    PROVE  Table(n) = Table(HeapStart)
<1> USE Constants
<1>1. PICK q \in Nat : q = HeapStart \div TabPages /\ HeapStart = TabPages * q
  OBVIOUS
<1>2. PICK d \in Nat : d = n \div TabPages /\ TabPages * d <= n /\ n < TabPages * d + TabPages
  OBVIOUS
<1>3. TabPages * q <= n /\ n < TabPages * q + TabPages
  BY <1>1
<1>4. ~ (d >= q + 1)
  <2> SUFFICES ASSUME d >= q + 1 PROVE FALSE
    OBVIOUS
  <2>1. TabPages * d >= TabPages * (q + 1)
    OBVIOUS
  <2> QED
    BY <1>2, <1>3, <2>1
<1>5. ~ (q >= d + 1)
  <2> SUFFICES ASSUME q >= d + 1 PROVE FALSE
    OBVIOUS
  <2>1. TabPages * q >= TabPages * (d + 1)
    OBVIOUS
  <2> QED
    BY <1>2, <1>3, <2>1
<1>6. d = q
  BY <1>4, <1>5
<1> QED
  BY <1>1, <1>2, <1>6 DEF Table

\* get_page takes a page of its own for a missing table, and nothing else.
LEMMA GetPage ==
    ASSUME NEW i \in Nat, alloc_ptr \in Nat, Apart(taken, alloc_ptr), get_page(i)
    PROVE  /\ alloc_ptr' \in Nat /\ alloc_ptr' >= alloc_ptr
           /\ Apart(taken', alloc_ptr')
           /\ Table(i) \in tables' /\ tables \subseteq tables'
           /\ Table(i) \in tables => alloc_ptr' = alloc_ptr /\ tables' = tables
           /\ Table(i) \notin tables => alloc_ptr' = (alloc_ptr \div PG_SZ + 1) * PG_SZ + PG_SZ
<1>1. CASE Table(i) \in tables
  BY <1>1 DEF get_page
<1>2. CASE Table(i) \notin tables
  <2>1. /\ alloc_ptr' = kmalloc_helper(alloc_ptr, PG_SZ, TRUE)
        /\ taken' = taken \cup {Range(alloc_ptr, PG_SZ, TRUE)}
        /\ tables' = tables \cup {Table(i)}
    BY <1>2 DEF get_page
  <2>2. PG_SZ \in Nat \ {0}
    BY DEF PG_SZ
  <2>3. /\ alloc_ptr' \in Nat /\ alloc_ptr' > alloc_ptr
        /\ Apart(taken', alloc_ptr')
    BY <2>1, <2>2, TakeRange
  <2>4. alloc_ptr' = (alloc_ptr \div PG_SZ + 1) * PG_SZ + PG_SZ
    BY <2>1, RoundUp DEF kmalloc_helper, Aligned
  <2>5. alloc_ptr' >= alloc_ptr
    BY <2>3
  <2>6. Table(i) \in tables' /\ tables \subseteq tables'
    BY <2>1, Zenon
  <2> QED
    BY <1>2, <2>3, <2>4, <2>5, <2>6, Zenon
<1> QED
  BY <1>1, <1>2

\* The entry that MapPage sees at i.
Entry(i) == IF i \in DOMAIN pages THEN pages[i] ELSE Unmapped

\* Entries P with entry q for page i are Q.
LEMMA SetEntry ==
    ASSUME NEW P, \A j \in DOMAIN P : P[j] \in Page, NEW i, NEW q \in Page,
           NEW Q, Q = [j \in DOMAIN P \cup {i} |-> IF j = i THEN q ELSE P[j]]
    PROVE  /\ DOMAIN Q = DOMAIN P \cup {i} /\ Q[i] = q
           /\ \A j \in DOMAIN P : j # i => Q[j] = P[j]
           /\ \A j \in DOMAIN Q : Q[j] \in Page
  OBVIOUS

-----------------------------------------------------------------------------
(* The steps.                                                              *)

LEMMA InitIInv == Init => IInv
<1> SUFFICES ASSUME Init PROVE IInv
  OBVIOUS
<1> USE Constants
<1>1. alloc_ptr \in Nat /\ taken = {<<0, alloc_ptr - 1>>} /\ phase = "pmm" /\ next = 0 /\ used = {}
  BY DEF Init
<1>2. DOMAIN pages = {}
  BY DEF Init
<1>3. BootType
  BY <1>1, <1>2 DEF BootType
<1>4. TakenBelow /\ TakenDisjoint
  BY <1>1 DEF TakenBelow, TakenDisjoint
<1> QED
  BY <1>1, <1>2, <1>3, <1>4 DEF IInv

LEMMA IInvApart ==
    ASSUME IInv
    PROVE  alloc_ptr \in Nat /\ Apart(taken, alloc_ptr)
  BY DEF IInv, BootType, TakenBelow, TakenDisjoint, Apart

LEMMA ApartNext ==
    ASSUME Apart(taken', alloc_ptr')
    PROVE  taken' \in SUBSET (Int \X Int) /\ TakenBelow' /\ TakenDisjoint'
  BY DEF TakenBelow, TakenDisjoint, Apart

LEMMA PmmInitIInv == IInv /\ PmmInit => IInv'
<1> SUFFICES ASSUME IInv, PmmInit PROVE IInv'
  OBVIOUS
<1> USE Constants
<1>1. /\ phase = "pmm" /\ phase' = "dir" /\ used' = used \cup Reserved
      /\ pages' = pages /\ next' = next /\ DOMAIN pages = {} /\ BootType
      /\ alloc_ptr' = kmalloc_helper(alloc_ptr, 8 + BitsetBytes, FALSE)
      /\ taken' = taken \cup {Range(alloc_ptr, 8 + BitsetBytes, FALSE)}
  BY DEF IInv, PmmInit
<1>2. 8 + BitsetBytes \in Nat \ {0}
  OBVIOUS
<1>3. alloc_ptr' \in Nat /\ Apart(taken', alloc_ptr')
  BY <1>1, <1>2, IInvApart, TakeRange
<1>4. taken' \in SUBSET (Int \X Int) /\ TakenBelow' /\ TakenDisjoint'
  BY <1>3, ApartNext
<1>5. BootType'
  BY <1>1, <1>3, <1>4 DEF BootType
<1> QED
  BY <1>1, <1>4, <1>5 DEF IInv

LEMMA VmmInitIInv == IInv /\ VmmInit => IInv'
<1> SUFFICES ASSUME IInv, VmmInit PROVE IInv'
  OBVIOUS
<1> USE Constants
<1>1. PICK a : a = kmalloc_helper(alloc_ptr, PgDirBytes, TRUE)
  OBVIOUS
<1>2. /\ phase = "dir" /\ phase' = "kernel" /\ used' = used \cup {0}
      /\ pages' = pages /\ next' = 0 /\ DOMAIN pages = {} /\ BootType
      /\ alloc_ptr' = kmalloc_helper(a, HeapBytes, FALSE)
      /\ taken' = (taken \cup {Range(alloc_ptr, PgDirBytes, TRUE)}) \cup {Range(a, HeapBytes, FALSE)}
  BY <1>1 DEF IInv, VmmInit
<1>3. PgDirBytes \in Nat \ {0} /\ HeapBytes \in Nat \ {0}
  BY DEF PgDirBytes, HeapBytes
<1>4. a \in Nat /\ Apart(taken \cup {Range(alloc_ptr, PgDirBytes, TRUE)}, a)
  BY <1>1, <1>3, IInvApart, TakeRange
<1>5. alloc_ptr' \in Nat /\ Apart(taken', alloc_ptr')
  BY <1>2, <1>3, <1>4, TakeRange
<1>6. taken' \in SUBSET (Int \X Int) /\ TakenBelow' /\ TakenDisjoint'
  BY <1>5, ApartNext
<1>7. BootType'
  BY <1>2, <1>5, <1>6 DEF BootType
<1>8. KernelMapped'
  BY <1>2 DEF KernelMapped
<1> QED
  BY <1>2, <1>6, <1>7, <1>8 DEF IInv

LEMMA MapKernelIInv == IInv /\ MapKernel => IInv'
<1> SUFFICES ASSUME IInv, MapKernel PROVE IInv'
  OBVIOUS
<1> USE Constants
<1>1. /\ phase = "kernel" /\ phase' = "kernel" /\ next' = next + 1 /\ next \in Nat /\ 0 \in used
      /\ used \in SUBSET Frames /\ BootType /\ KernelMapped /\ ToMap(next) /\ MapPage(next, next)
  BY DEF IInv, MapKernel, BootType
<1>2. PICK r : r = map_page(Entry(next), used, next)
  OBVIOUS
<1>3. /\ get_page(next) /\ used' = r.used
      /\ DOMAIN pages' = DOMAIN pages \cup {next}
      /\ pages'[next] = r.page
      /\ \A j \in DOMAIN pages : j # next => pages'[j] = pages[j]
      /\ r.page \in Page /\ used' \in SUBSET Frames /\ used \subseteq used'
      /\ \A j \in DOMAIN pages' : pages'[j] \in Page
  <2>1. Entry(next) \in Page
    BY <1>1, PageType DEF Entry, BootType
  <2>2. r.page \in Page /\ r.used \in SUBSET Frames /\ used \subseteq r.used
    BY <1>1, <1>2, <2>1, MapType
  <2>3. /\ get_page(next) /\ used' = r.used
        /\ pages' = [j \in DOMAIN pages \cup {next} |-> IF j = next THEN r.page ELSE pages[j]]
    BY <1>1, <1>2 DEF MapPage, Entry
  <2>4. \A j \in DOMAIN pages : pages[j] \in Page
    BY <1>1 DEF BootType
  <2> QED
    BY <2>2, <2>3, <2>4, SetEntry
<1>4. alloc_ptr \in Nat /\ alloc_ptr' \in Nat /\ alloc_ptr' >= alloc_ptr /\ Apart(taken', alloc_ptr')
  BY <1>1, <1>3, IInvApart, GetPage
<1>5. taken' \in SUBSET (Int \X Int) /\ TakenBelow' /\ TakenDisjoint'
  BY <1>4, ApartNext
<1>6. DOMAIN pages = 0 .. next - 1 /\ next \notin DOMAIN pages
  BY <1>1 DEF KernelMapped
<1>7. Entry(next) = Unmapped /\ Unmapped \in Page /\ Unmapped.addr = 0
  BY <1>6, PageType DEF Entry, Unmapped
<1>8. next # 0 /\ next \in Frames => r.page = [present |-> TRUE, addr |-> next] /\ next \in used'
  <2> SUFFICES ASSUME next # 0, next \in Frames
               PROVE  r.page = [present |-> TRUE, addr |-> next] /\ next \in used'
    OBVIOUS
  <2>1. map_page(Unmapped, used, next) = [page |-> [present |-> TRUE, addr |-> next], used |-> used \cup {next}]
    BY <1>1, <1>7, MapAt
  <2> QED
    BY <1>2, <1>3, <1>7, <2>1
<1>9. BootType'
  BY <1>1, <1>3, <1>4, <1>5 DEF BootType
<1>10. KernelMapped'
  <2>1. DOMAIN pages' = 0 .. next' - 1
    BY <1>1, <1>3, <1>6
  <2>2. \A i \in DOMAIN pages' : ToMap(i)'
    BY <1>1, <1>3, <1>4 DEF KernelMapped, ToMap, PG_SZ, BootType
  <2>3. ASSUME NEW i \in Nat \ {0}, i < next + 1, i \in Frames PROVE Own(i)'
    <3>1. CASE i = next
      BY <1>1, <1>3, <1>8, <2>3, <3>1 DEF Own
    <3>2. CASE i # next
      <4>1. Own(i)
        BY <1>1, <2>3, <3>2 DEF KernelMapped
      <4> QED
        BY <1>3, <3>2, <4>1 DEF Own
    <3> QED
      BY <3>1, <3>2
  <2> QED
    BY <1>1, <2>1, <2>2, <2>3 DEF KernelMapped
<1> QED
  BY <1>1, <1>3, <1>5, <1>9, <1>10 DEF IInv

LEMMA MapKernelEndIInv == IInv /\ MapKernelEnd => IInv'
<1> SUFFICES ASSUME IInv, MapKernelEnd PROVE IInv'
  OBVIOUS
<1> USE Constants
<1>1. /\ phase = "kernel" /\ phase' = "heap" /\ next' = HeapStart /\ ~ ToMap(next)
      /\ UNCHANGED <<alloc_ptr, taken, used, tables, pages>>
      /\ BootType /\ KernelMapped /\ TakenBelow /\ TakenDisjoint /\ 0 \in used
      /\ alloc_ptr \in Nat /\ next \in Nat
  BY DEF IInv, MapKernelEnd, BootType
<1>2. BootType' /\ TakenBelow' /\ TakenDisjoint'
  BY <1>1 DEF BootType, TakenBelow, TakenDisjoint
<1>3. \A i \in Nat : i * PG_SZ < alloc_ptr \/ ToMap(i) => i < next
  BY <1>1 DEF ToMap, PG_SZ
<1>4. HeapMapped'
  <2>1. \A i \in DOMAIN pages' : ToMap(i)'
    BY <1>1 DEF KernelMapped, ToMap
  <2>2. ASSUME NEW i \in Nat \ {0}, i \in Frames, i * PG_SZ < alloc_ptr' \/ ToMap(i)'
        PROVE  Own(i)'
    <3>1. i < next
      BY <1>1, <1>3, <2>2 DEF ToMap
    <3> QED
      BY <1>1, <2>2, <3>1 DEF KernelMapped, Own
  <2> QED
    BY <1>1, <2>1, <2>2 DEF HeapMapped
<1>5. HeapSoFar'
  BY <1>1 DEF HeapSoFar
<1> QED
  BY <1>1, <1>2, <1>4, <1>5 DEF IInv

LEMMA PagingOnIInv == IInv /\ PagingOn => IInv'
<1> SUFFICES ASSUME IInv, PagingOn PROVE IInv'
  OBVIOUS
<1>1. /\ phase = "heap" /\ phase' = "on" /\ next = HeapStart + HeapPages
      /\ UNCHANGED <<alloc_ptr, taken, used, tables, pages, next>>
  BY DEF PagingOn
<1>2. BootType' /\ TakenBelow' /\ TakenDisjoint' /\ HeapMapped' /\ 0 \in used'
  BY <1>1 DEF IInv, BootType, TakenBelow, TakenDisjoint, HeapMapped, Own, ToMap
<1>3. EnoughMemory' => HeapSoFar'
  BY <1>1 DEF IInv, EnoughMemory, HeapSoFar
<1> QED
  BY <1>1, <1>2, <1>3 DEF IInv

\* Numbers of pages and addresses.
LEMMA PageNumber ==
    ASSUME NEW i \in Nat, NEW a \in Nat
    PROVE  /\ i * PG_SZ < a => i <= a \div PG_SZ
           /\ i * PG_SZ < (a \div PG_SZ + 1) * PG_SZ + PG_SZ => i * PG_SZ <= a + PG_SZ
           /\ i * PG_SZ <= a + PG_SZ => i <= a \div PG_SZ + 1
           /\ a \div PG_SZ \in Nat
           /\ \A b \in Nat : a <= b => a \div PG_SZ <= b \div PG_SZ
  BY DEF PG_SZ

\* A page that the kernel's loop maps is one that it would map later on.
LEMMA StillToMap ==
    ASSUME NEW i \in Nat, NEW a \in Nat, NEW b \in Nat, b >= a, i * PG_SZ <= a + PG_SZ
    PROVE  i * PG_SZ <= b + PG_SZ
  BY DEF PG_SZ

LEMMA MapHeapIInv == IInv /\ MapHeap => IInv'
<1> SUFFICES ASSUME IInv, MapHeap PROVE IInv'
  OBVIOUS
<1> USE Constants
<1>1. /\ phase = "heap" /\ phase' = "heap" /\ next' = next + 1 /\ next \in Nat /\ 0 \in used
      /\ used \in SUBSET Frames /\ BootType /\ HeapMapped /\ (EnoughMemory => HeapSoFar)
      /\ HeapStart <= next /\ next < HeapStart + HeapPages /\ MapPage(next, NoAddr)
  BY DEF IInv, MapHeap, BootType, HeapMapped
<1>2. PICK r : r = map_page(Entry(next), used, NoAddr)
  OBVIOUS
<1>3. /\ get_page(next) /\ used' = r.used
      /\ DOMAIN pages' = DOMAIN pages \cup {next}
      /\ pages'[next] = r.page
      /\ \A j \in DOMAIN pages : j # next => pages'[j] = pages[j]
      /\ r.page \in Page /\ used' \in SUBSET Frames /\ used \subseteq used'
      /\ \A j \in DOMAIN pages' : pages'[j] \in Page
  <2>1. Entry(next) \in Page
    BY <1>1, PageType DEF Entry, BootType
  <2>2. r.page \in Page /\ r.used \in SUBSET Frames /\ used \subseteq r.used
    <3>1. NoAddr \in Nat
      BY DEF NoAddr
    <3> QED
      BY <1>1, <1>2, <2>1, <3>1, MapType
  <2>3. /\ get_page(next) /\ used' = r.used
        /\ pages' = [j \in DOMAIN pages \cup {next} |-> IF j = next THEN r.page ELSE pages[j]]
    BY <1>1, <1>2 DEF MapPage, Entry
  <2>4. \A j \in DOMAIN pages : pages[j] \in Page
    BY <1>1 DEF BootType
  <2> QED
    BY <2>2, <2>3, <2>4, SetEntry
<1>4. Table(next) = Table(HeapStart)
  BY <1>1, HeapTable
<1>5. /\ alloc_ptr \in Nat /\ alloc_ptr' \in Nat /\ alloc_ptr' >= alloc_ptr
      /\ Apart(taken', alloc_ptr') /\ Table(HeapStart) \in tables'
      /\ Table(HeapStart) \in tables => alloc_ptr' = alloc_ptr
      /\ Table(HeapStart) \notin tables => alloc_ptr' = (alloc_ptr \div PG_SZ + 1) * PG_SZ + PG_SZ
  BY <1>1, <1>3, <1>4, IInvApart, GetPage
<1>6. taken' \in SUBSET (Int \X Int) /\ TakenBelow' /\ TakenDisjoint'
  BY <1>5, ApartNext
<1>7. BootType'
  BY <1>1, <1>3, <1>5, <1>6 DEF BootType
<1>8. ASSUME NEW i \in Nat \ {0}, i < HeapStart, i \in Frames, i * PG_SZ < alloc_ptr'
      PROVE  Own(i)
  <2>1. CASE Table(HeapStart) \in tables
    BY <1>1, <1>5, <1>8, <2>1 DEF HeapMapped
  <2>2. CASE Table(HeapStart) \notin tables
    <3>1. i * PG_SZ < (alloc_ptr \div PG_SZ + 1) * PG_SZ + PG_SZ
      BY <1>5, <1>8, <2>2
    <3>2. ToMap(i)
      BY <1>5, <3>1, PageNumber DEF ToMap
    <3> QED
      BY <1>1, <1>8, <2>2, <3>2 DEF HeapMapped
  <2> QED
    BY <2>1, <2>2
<1>9. HeapMapped'
  <2>1. \A i \in DOMAIN pages' : ToMap(i)' \/ (HeapStart <= i /\ i < next')
    <3>1. \A i \in DOMAIN pages : i \in Nat /\ (ToMap(i) \/ (HeapStart <= i /\ i < next))
      BY <1>1 DEF HeapMapped, BootType
    <3>2. ASSUME NEW i \in Nat, ToMap(i) PROVE ToMap(i)'
      <4>1. i * PG_SZ <= alloc_ptr + PG_SZ
        BY <3>2 DEF ToMap
      <4>2. i * PG_SZ <= alloc_ptr' + PG_SZ
        BY <1>5, <4>1, StillToMap
      <4> QED
        BY <4>2 DEF ToMap
    <3> QED
      BY <1>1, <1>3, <3>1, <3>2
  <2>2. ASSUME NEW i \in Nat \ {0}, i < HeapStart, i \in Frames, i * PG_SZ < alloc_ptr'
        PROVE  Own(i)'
    <3>1. Own(i) /\ i # next
      BY <1>1, <1>8, <2>2
    <3> QED
      BY <1>3, <3>1 DEF Own
  <2>3. \A i \in Nat : HeapStart <= i /\ i < next' => i \in DOMAIN pages'
    BY <1>1, <1>3 DEF HeapMapped
  <2> QED
    BY <1>1, <1>5, <2>1, <2>2, <2>3 DEF HeapMapped
<1>10. ASSUME EnoughMemory' PROVE HeapSoFar'
  <2>1. /\ alloc_ptr' \div PG_SZ + 1 < FrameCount /\ alloc_ptr' \div PG_SZ + 1 < HeapStart
        /\ used' # Frames /\ used # Frames
    BY <1>1, <1>3, <1>10 DEF EnoughMemory
  <2>2. alloc_ptr \div PG_SZ \in Nat /\ alloc_ptr \div PG_SZ <= alloc_ptr' \div PG_SZ
        /\ alloc_ptr' \div PG_SZ \in Nat
    BY <1>5, PageNumber
  <2>3. EnoughMemory
    BY <2>1, <2>2 DEF EnoughMemory
  <2>4. next \notin DOMAIN pages
    <3>1. ~ ToMap(next)
      <4>1. alloc_ptr \in Nat /\ next \in Nat /\ HeapStart \in Nat /\ HeapStart <= next
        BY <1>1, <1>5
      <4>2. alloc_ptr \div PG_SZ + 1 < next
        BY <4>1, <2>1, <2>2
      <4> QED
        BY <4>1, <4>2, <2>2, PageNumber DEF ToMap
    <3> QED
      BY <1>1, <3>1 DEF HeapMapped
  <2>5. Entry(next) = Unmapped /\ Unmapped \in Page /\ Unmapped.addr = 0
    BY <2>4, PageType DEF Entry, Unmapped
  <2>6. r.page.addr \in Frames \ used /\ used' = used \cup {r.page.addr}
    BY <1>1, <1>2, <1>3, <2>1, <2>5, MapAny
  <2>7. \A j \in Nat \ {0} : j * PG_SZ < alloc_ptr' => j \in used
    <3> SUFFICES ASSUME NEW j \in Nat \ {0}, j * PG_SZ < alloc_ptr' PROVE j \in used
      OBVIOUS
    <3>1. j <= alloc_ptr' \div PG_SZ
      BY <1>5, PageNumber
    <3>2. j < HeapStart /\ j \in Frames
      BY <2>1, <2>2, <3>1
    <3> QED
      BY <1>8, <3>2 DEF Own
  <2>8. /\ pages'[next].addr \notin used /\ pages'[next].addr \in used' /\ pages'[next].addr # 0
        /\ \A j \in Nat \ {0} : j * PG_SZ < alloc_ptr' => pages'[next].addr # j
    BY <1>1, <1>3, <2>6, <2>7
  <2>9. ASSUME NEW i \in Nat, HeapStart <= i, i < next
        PROVE  /\ pages'[i].addr \in used /\ pages'[i].addr # 0
               /\ \A j \in Nat \ {0} : j * PG_SZ < alloc_ptr' => pages'[i].addr # j
               /\ \A k \in Nat : HeapStart <= k /\ k < next /\ k # i => pages'[i].addr # pages'[k].addr
    <3>1. HeapSoFar
      BY <1>1, <2>3
    <3>2. alloc_ptr' = alloc_ptr
      BY <1>1, <1>5, <2>9 DEF HeapMapped
    <3>3. \A k \in Nat : HeapStart <= k /\ k < next => pages'[k] = pages[k]
      BY <1>1, <1>3 DEF HeapMapped
    <3> QED
      BY <2>9, <3>1, <3>2, <3>3 DEF HeapSoFar
  <2>10. \A i \in Nat : i < next' <=> i < next \/ i = next
    BY <1>1
  <2> QED
    BY <1>1, <1>3, <2>8, <2>9, <2>10 DEF HeapSoFar
<1> QED
  BY <1>1, <1>3, <1>6, <1>7, <1>9, <1>10 DEF IInv

-----------------------------------------------------------------------------
(* The theorems.                                                           *)

LEMMA NextIInv == IInv /\ [Next]_vars => IInv'
<1> SUFFICES ASSUME IInv, [Next]_vars PROVE IInv'
  OBVIOUS
<1>1. CASE Next
  BY <1>1, PmmInitIInv, VmmInitIInv, MapKernelIInv, MapKernelEndIInv, MapHeapIInv, PagingOnIInv DEF Next
<1>2. CASE UNCHANGED vars
  BY <1>2 DEF vars, IInv, BootType, TakenBelow, TakenDisjoint, KernelMapped, HeapMapped, EnoughMemory,
     HeapSoFar, Own, ToMap
<1> QED
  BY <1>1, <1>2

\* What the boot allocator returned lies below its pointer, and the kernel's loop
\* maps each page at its own address, the page for a table that is still to
\* come included, before the heap takes frames that are left.
THEOREM Inductive == Spec => []IInv
  BY InitIInv, NextIInv, PTL DEF Spec

\* Whatever kmalloc_helper is asked for before the heap exists, the ranges it
\* returns, and the kernel image, are disjoint.
THEOREM BootAllocDisjoint == Spec => []TakenDisjoint
<1>1. IInv => TakenDisjoint
  BY DEF IInv
<1> QED
  BY <1>1, Inductive, PTL

\* When vmm_init turns paging on, all that the boot allocator gave out is
\* mapped at its own address, the page table that was created last included,
\* if the machine has the frames and the kernel ends below its heap.
THEOREM BootAllocMapped == Spec => [](EnoughMemory => TakenMapped)
<1>1. IInv => (EnoughMemory => TakenMapped)
  <2> SUFFICES ASSUME IInv, EnoughMemory, phase = "on",
                      NEW r \in taken, NEW i \in PagesOf(r) \ {0}
               PROVE  i \in DOMAIN pages /\ pages[i] = [present |-> TRUE, addr |-> i]
    BY DEF TakenMapped
  <2> USE Constants
  <2>1. alloc_ptr \in Nat /\ r[1] \in Int /\ r[2] \in Int /\ 0 <= r[1] /\ r[2] < alloc_ptr
    BY DEF IInv, BootType, TakenBelow
  <2>2. i \in Nat \ {0} /\ i * PG_SZ < alloc_ptr
    BY <2>1 DEF PagesOf, PG_SZ
  <2>3. i <= alloc_ptr \div PG_SZ /\ alloc_ptr \div PG_SZ \in Nat
    BY <2>1, <2>2, PageNumber
  <2>4. i < HeapStart /\ i \in Frames
    BY <2>2, <2>3 DEF EnoughMemory
  <2> QED
    BY <2>2, <2>4 DEF IInv, HeapMapped, Own
<1> QED
  BY <1>1, Inductive, PTL

\* Under the same condition no page of the heap shares its frame with the
\* kernel image, a boot allocation or another page of the heap.
THEOREM HeapFramesPrivate == Spec => [](EnoughMemory => HeapFramesOwn)
<1>1. IInv => (EnoughMemory => HeapFramesOwn)
  <2> SUFFICES ASSUME IInv, EnoughMemory, phase = "on"
               PROVE  HeapFramesOwn
    BY DEF HeapFramesOwn
  <2> USE Constants
  <2>1. /\ alloc_ptr \in Nat /\ HeapSoFar /\ next = HeapStart + HeapPages
        /\ \A r \in taken : r[1] \in Int /\ r[2] \in Int /\ 0 <= r[1] /\ r[2] < alloc_ptr
    BY DEF IInv, BootType, TakenBelow
  <2>2. \A r \in taken : \A j \in PagesOf(r) : j = 0 \/ (j \in Nat \ {0} /\ j * PG_SZ < alloc_ptr)
    BY <2>1 DEF PagesOf, PG_SZ
  <2>3. \A i \in HeapStart .. HeapStart + HeapPages - 1 :
          i \in Nat /\ HeapStart <= i /\ i < next
    BY <2>1
  <2>4. ASSUME NEW i \in HeapStart .. HeapStart + HeapPages - 1, NEW r \in taken
        PROVE  pages[i].addr \notin PagesOf(r)
    BY <2>1, <2>2, <2>3 DEF HeapSoFar
  <2>5. ASSUME NEW i \in HeapStart .. HeapStart + HeapPages - 1,
               NEW j \in HeapStart .. HeapStart + HeapPages - 1, i # j
        PROVE  pages[i].addr # pages[j].addr
    BY <2>1, <2>3, <2>5 DEF HeapSoFar
  <2> QED
    BY <2>4, <2>5 DEF HeapFramesOwn
<1> QED
  BY <1>1, Inductive, PTL
=============================================================================
