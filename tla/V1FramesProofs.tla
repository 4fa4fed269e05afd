--------------------------- MODULE V1FramesProofs ---------------------------
(***************************************************************************)
(* Proofs about V1Frames for every page size, memory map in the order of   *)
(* addresses, end of the kernel and size of the heap: the stack of free    *)
(* frames, which lies in frames that are on it, is never given away.       *)
(***************************************************************************)
EXTENDS V1Frames, FiniteSetTheorems, SequenceTheorems, TLAPS

-----------------------------------------------------------------------------
(* The inductive invariant, in terms of the values the variables have.     *)

\* An entry of the map m that init_pmm pushes frames of.
Available(m, i) == m[i].type = 1 /\ m[i].addr >= MiB

\* A map and the entry behind it.
GoodMap(m) ==
    /\ Len(m) \in Nat \ {0}
    /\ \A i \in 1 .. Len(m) - 1 :
          /\ m[i].addr \in Nat /\ m[i].len \in Nat
          /\ m[i].addr + m[i].len <= Word /\ m[i].addr + PAGE <= Word
          /\ \A j \in 1 .. Len(m) - 1 : i < j => m[i].addr + m[i].len <= m[j].addr
    /\ ~ Available(m, Len(m))

\* The frame f lies in entry i of the map m.
InEntry(m, i, f) ==
    /\ m[i].type = 1
    /\ m[i].addr <= f /\ f + PAGE <= m[i].addr + m[i].len

\* The words s of the stack are adjacent from k on, and hold frames in the
\* order of their addresses, each behind the word it is in.
Stack(s, k) ==
    /\ \A a \in DOMAIN s :
          /\ a \in Nat /\ k <= a
          /\ s[a] \in Nat /\ s[a] > a /\ s[a] % PAGE = 0
          /\ a # k => a - 4 \in DOMAIN s
    /\ \A a, b \in DOMAIN s : a < b => a + 4 <= b /\ s[a] + PAGE <= s[b]
    /\ IsFiniteSet(DOMAIN s)

\* While the stack is built its top t is the last word below the placement
\* address p.
Pushing(s, k, p, t) ==
    /\ \A a \in DOMAIN s : a + 4 <= p
    /\ IF DOMAIN s = {} THEN p = k ELSE t = p - 4 /\ t \in DOMAIN s

\* The words that are still to be read.
Live(s, t) == {a \in DOMAIN s : a <= t}

\* The heap h has frames from above the top t, in descending order, and no
\* frame only when the stack is down to its bottom k.
Popping(s, k, t, h) ==
    /\ t \in DOMAIN s
    /\ h \in Seq(Int) /\ Len(h) <= HeapPages
    /\ \A i \in DOMAIN h : IF h[i] = NoFrame THEN t = k
                           ELSE \E b \in DOMAIN s : b > t /\ h[i] = s[b]
    /\ \A i, j \in DOMAIN h : i < j /\ h[j] # NoFrame => h[j] < h[i]
    /\ Cardinality(DOMAIN s) <= Cardinality(Live(s, t)) + Len(h)

\* init_pmm is inside an entry of the map.
InEntryNow ==
    /\ entry < Len(map) /\ Available(map, entry)
    /\ curr \in Nat /\ curr % PAGE = 0 /\ map[entry].addr <= curr
    /\ (last - PAGE) % Word \in Nat
    /\ ((last - PAGE) % Word) + PAGE <= map[entry].addr + map[entry].len
    /\ \A a \in DOMAIN mem : mem[a] + PAGE <= curr

IInv ==
    /\ kern_end \in Nat /\ MiB <= kern_end
    /\ GoodMap(map) /\ entry \in 1 .. Len(map)
    /\ placement_addr \in Nat /\ kern_end <= placement_addr
    /\ phase \in {"map", "push", "heap", "on"}
    /\ Stack(mem, kern_end)
    /\ \A a \in DOMAIN mem : \E i \in 1 .. Len(map) - 1 : i <= entry /\ InEntry(map, i, mem[a])
    /\ phase \in {"map", "push"} => Pushing(mem, kern_end, placement_addr, top) /\ heap = <<>>
    /\ phase = "push" => InEntryNow
    /\ phase \in {"heap", "on"} =>
          /\ kern_end < placement_addr
          /\ DOMAIN mem # {} => Popping(mem, kern_end, top, heap)

-----------------------------------------------------------------------------
(* Arithmetic of pages and addresses.                                      *)

LEMMA Constants ==
    /\ PAGE \in Nat /\ PAGE > 4
    /\ Word \in Nat \ {0} /\ Word % PAGE = 0
    /\ MiB \in Nat /\ PAGE <= MiB
    /\ \A e \in KernEnds : e \in Nat /\ MiB <= e
    /\ HeapPages \in Nat /\ HeapBytes \in Nat
  BY V1FramesAssumption

\* What the remainder is, and when it changes nothing or wraps once.
LEMMA Remainder ==
    ASSUME NEW x \in Int, NEW w \in Nat \ {0}
    PROVE  x % w \in 0 .. w - 1
  OBVIOUS

LEMMA NoWrap ==
    ASSUME NEW w \in Nat \ {0}
    PROVE  \A x \in Nat : x < w => x % w = x
<1> SUFFICES ASSUME NEW x \in Nat, x < w PROVE x % w = x
  OBVIOUS
<1> QED
  OBVIOUS

LEMMA WrapOnce ==
    ASSUME NEW x \in Int, NEW w \in Nat \ {0}, x < 0, 0 <= x + w
    PROVE  x % w = x + w
  OBVIOUS

LEMMA Multiple ==
    ASSUME NEW w \in Nat \ {0}, NEW q \in Int
    PROVE  (w * q) % w = 0
  OBVIOUS

\* The next page of an aligned address is aligned.
LEMMA NextPage ==
    ASSUME NEW x \in Int, NEW w \in Nat \ {0}, x % w = 0
    PROVE  (x + w) % w = 0
<1>1. x \div w \in Int /\ x = w * (x \div w)
  OBVIOUS
<1>2. PICK q \in Int : x = w * q
  BY <1>1
<1>3. x + w = w * (q + 1)
  BY <1>2
<1>4. PICK r \in Int : r = q + 1
  BY <1>2
<1>5. (w * r) % w = 0
  BY Multiple
<1> QED
  BY <1>3, <1>4, <1>5

\* RoundDown goes to the start of the page, RoundUp to the next start of one.
LEMMA RoundDownPage ==
    ASSUME NEW x \in Nat
    PROVE  /\ RoundDown(x) \in Nat
           /\ RoundDown(x) <= x /\ x < RoundDown(x) + PAGE
           /\ RoundDown(x) % PAGE = 0
           /\ x % PAGE = 0 => RoundDown(x) = x
<1>1. PAGE \in Nat \ {0}
  BY Constants
<1>2. x % PAGE \in 0 .. PAGE - 1 /\ x % PAGE <= x
  <2>1. x % PAGE \in 0 .. PAGE - 1 /\ (x < PAGE => x % PAGE = x)
    BY <1>1
  <2> QED
    BY <2>1, <1>1
<1>3. RoundDown(x) % PAGE = 0
  <2>1. x \div PAGE \in Int /\ x = (PAGE * (x \div PAGE)) + (x % PAGE)
    BY <1>1
  <2>2. PICK q \in Int : x = (PAGE * q) + (x % PAGE)
    BY <2>1
  <2>3. RoundDown(x) = PAGE * q
    BY <2>2, <1>1, <1>2 DEF RoundDown
  <2> QED
    BY <2>3, <1>1, Multiple
<1> QED
  BY <1>1, <1>2, <1>3 DEF RoundDown

LEMMA RoundUpPage ==
    ASSUME NEW x \in Nat
    PROVE  /\ RoundUp(x) \in Nat
           /\ x <= RoundUp(x) /\ RoundUp(x) < x + PAGE
           /\ RoundUp(x) % PAGE = 0
<1>1. PAGE \in Nat \ {0}
  BY Constants
<1>2. PICK r \in 0 .. PAGE - 1 : r = x % PAGE
  BY <1>1, Remainder
<1>3. CASE r = 0
  BY <1>1, <1>2, <1>3 DEF RoundUp
<1>4. CASE r # 0
  <2>1. RoundUp(x) = x + (PAGE - r)
    BY <1>2, <1>4 DEF RoundUp
  <2>2. x - r = RoundDown(x)
    BY <1>2 DEF RoundDown
  <2>3. RoundUp(x) = RoundDown(x) + PAGE
    BY <2>1, <2>2, <1>1, <1>2
  <2>4. RoundDown(x) \in Int /\ RoundDown(x) % PAGE = 0
    BY RoundDownPage
  <2>5. RoundUp(x) % PAGE = 0
    BY <2>3, <2>4, <1>1, NextPage
  <2> QED
    BY <2>1, <2>5, <1>1, <1>4
<1> QED
  BY <1>3, <1>4

-----------------------------------------------------------------------------
(* The map.                                                                *)

LEMMA MapIsGood ==
    ASSUME OrderedMaps, NEW m \in Maps, NEW e \in Behind, NEW s, s = Append(m, e)
    PROVE  GoodMap(s)
<1>1. PICK R : m \in Seq(R) /\ R = [addr : Nat, len : Nat \ {0}, type : Nat]
  BY V1FramesAssumption
<1>2. Len(m) \in Nat /\ DOMAIN m = 1 .. Len(m) /\ Len(s) = Len(m) + 1
  BY <1>1
<1>3. s[Len(s)] = e /\ \A i \in 1 .. Len(m) : s[i] = m[i]
  BY <1>1, <1>2
<1>4. ~ Available(s, Len(s))
  BY <1>3 DEF OrderedMaps, Available
<1>5. ASSUME NEW i \in 1 .. Len(m)
      PROVE  /\ m[i].addr \in Nat /\ m[i].len \in Nat
             /\ m[i].addr + m[i].len <= Word /\ m[i].addr + PAGE <= Word
             /\ \A j \in 1 .. Len(m) : i < j => m[i].addr + m[i].len <= m[j].addr
  <2>1. m[i] \in R
    BY <1>1, ElementOfSeq
  <2>2. m[i] \in [addr : Nat, len : Nat \ {0}, type : Nat]
    BY <2>1, <1>1
  <2> QED
    BY <2>2, <1>2 DEF OrderedMaps
<1> QED
  BY <1>2, <1>3, <1>4, <1>5 DEF GoodMap

\* Where the loop of an available entry starts and ends.
LEMMA EntryBounds ==
    ASSUME NEW a \in Nat, NEW n \in Nat, a + n <= Word, a + PAGE <= Word, a >= MiB,
           NEW c, c = RoundUp(a % Word) % Word,
           NEW l, l = RoundDown((a + n) % Word)
    PROVE  /\ c \in Nat /\ c % PAGE = 0 /\ a <= c
           /\ (l - PAGE) % Word \in Nat
           /\ ((l - PAGE) % Word) + PAGE <= a + n
<1>1. /\ PAGE \in Nat \ {0} /\ PAGE > 4 /\ Word \in Nat \ {0} /\ MiB \in Nat /\ PAGE <= MiB
  BY Constants
<1>2. a < Word /\ PAGE <= Word
  BY <1>1
<1>3. a % Word = a
  BY <1>1, <1>2, NoWrap
<1>4. RoundUp(a) \in Nat /\ a <= RoundUp(a) /\ RoundUp(a) < a + PAGE /\ RoundUp(a) % PAGE = 0
  BY RoundUpPage
<1>5. RoundUp(a) % Word = RoundUp(a)
  <2>1. RoundUp(a) < Word
    BY <1>1, <1>4
  <2> QED
    BY <2>1, <1>1, <1>4, NoWrap
<1>6. c \in Nat /\ c % PAGE = 0 /\ a <= c
  BY <1>3, <1>4, <1>5
<1>7. CASE a + n = Word
  <2>1. (a + n) % Word = 0
    BY <1>1, <1>7
  <2>2. RoundDown(0) = 0
    BY <1>1 DEF RoundDown
  <2>3. l - PAGE < 0 /\ 0 <= (l - PAGE) + Word /\ l = 0 /\ l - PAGE \in Int
    BY <2>1, <2>2, <1>1, <1>2
  <2>4. (l - PAGE) % Word = (l - PAGE) + Word
    BY <2>3, <1>1, WrapOnce
  <2> QED
    BY <2>3, <2>4, <1>1, <1>2, <1>6, <1>7
<1>8. CASE a + n < Word
  <2>1. (a + n) % Word = a + n
    BY <1>1, <1>8, NoWrap
  <2>2. /\ l \in Nat /\ l <= a + n /\ a + n < l + PAGE /\ l % PAGE = 0
    BY <2>1, RoundDownPage
  <2>3. l >= PAGE
    <3>1. l # 0
      BY <2>2, <1>1
    <3>2. l < PAGE => l % PAGE = l
      BY <2>2, <1>1, NoWrap
    <3> QED
      BY <3>1, <3>2, <2>2, <1>1
  <2>4. (l - PAGE) % Word = l - PAGE
    <3>1. 0 <= l - PAGE /\ l - PAGE < Word /\ l - PAGE \in Int
      BY <2>2, <2>3, <1>1, <1>8
    <3> QED
      BY <3>1, <1>1, NoWrap
  <2> QED
    BY <2>2, <2>3, <2>4, <1>1, <1>6
<1> QED
  BY <1>7, <1>8, <1>1

-----------------------------------------------------------------------------
(* The stack of frames.                                                    *)

\* push_frame(f) at the placement address p, for a frame behind all others.
LEMMA PushStack ==
    ASSUME NEW s, NEW k \in Nat, NEW p \in Nat, NEW t, NEW f \in Nat,
           Stack(s, k), Pushing(s, k, p, t), k <= p,
           f > k, f % PAGE = 0, \A a \in DOMAIN s : s[a] + PAGE <= f,
           NEW r, r = [a \in DOMAIN s \cup {p} |-> IF a = p THEN f ELSE s[a]]
    PROVE  Stack(r, k) /\ Pushing(r, k, p + 4, p)
<1>1. PAGE \in Nat /\ PAGE > 4
  BY Constants
<1>2. /\ DOMAIN r = DOMAIN s \cup {p} /\ r[p] = f /\ p \notin DOMAIN s
      /\ \A a \in DOMAIN s : r[a] = s[a]
  BY DEF Pushing, Stack
<1>3. f > p /\ (p # k => p - 4 \in DOMAIN s)
  <2>1. CASE DOMAIN s = {}
    BY <2>1 DEF Pushing
  <2>2. CASE DOMAIN s # {}
    <3>1. p - 4 \in DOMAIN s
      BY <2>2 DEF Pushing
    <3>2. s[p - 4] \in Nat /\ s[p - 4] > p - 4 /\ s[p - 4] + PAGE <= f
      BY <3>1 DEF Stack
    <3> QED
      BY <3>1, <3>2, <1>1
  <2> QED
    BY <2>1, <2>2
<1>4. ASSUME NEW a \in DOMAIN r
      PROVE  /\ a \in Nat /\ k <= a
             /\ r[a] \in Nat /\ r[a] > a /\ r[a] % PAGE = 0
             /\ a # k => a - 4 \in DOMAIN r
             /\ a + 4 <= p + 4
  <2>1. CASE a = p
    BY <2>1, <1>2, <1>3
  <2>2. CASE a \in DOMAIN s
    BY <2>2, <1>2 DEF Stack, Pushing
  <2> QED
    BY <2>1, <2>2, <1>2
<1>5. ASSUME NEW a \in DOMAIN r, NEW b \in DOMAIN r, a < b
      PROVE  a + 4 <= b /\ r[a] + PAGE <= r[b]
  <2>1. CASE a \in DOMAIN s /\ b \in DOMAIN s
    BY <2>1, <1>2, <1>5 DEF Stack
  <2>2. CASE a \in DOMAIN s /\ b = p
    BY <2>2, <1>2 DEF Pushing
  <2>3. a \in Nat /\ b \in Nat /\ b + 4 <= p + 4
    BY <1>4
  <2>4. a # p
    BY <1>5, <2>3
  <2> QED
    BY <2>1, <2>2, <2>4, <1>2
<1>6. IsFiniteSet(DOMAIN r)
  BY <1>2, FS_AddElement DEF Stack
<1>7. p = (p + 4) - 4 /\ p \in DOMAIN r
  BY <1>2
<1> QED
  BY <1>4, <1>5, <1>6, <1>7 DEF Stack, Pushing

\* The stack when the last entry of the map is done.
LEMMA PopStart ==
    ASSUME NEW s, NEW k \in Nat, NEW p \in Nat, NEW t,
           Stack(s, k), Pushing(s, k, p, t), DOMAIN s # {}
    PROVE  Popping(s, k, t, <<>>)
<1>1. t = p - 4 /\ t \in DOMAIN s
  BY DEF Pushing
<1>2. \A a \in DOMAIN s : a <= t
  BY <1>1 DEF Pushing, Stack
<1>3. Live(s, t) = DOMAIN s
  BY <1>2 DEF Live
<1>4. Cardinality(DOMAIN s) \in Nat
  BY FS_CardinalityType DEF Stack
<1>5. <<>> \in Seq(Int) /\ Len(<<>>) = 0
  OBVIOUS
<1>6. HeapPages \in Nat
  BY Constants
<1> QED
  BY <1>1, <1>3, <1>4, <1>5, <1>6 DEF Popping

\* Append, on the heap's frames.
LEMMA OneMore ==
    ASSUME NEW h \in Seq(Int), NEW x \in Int, NEW r, r = Append(h, x)
    PROVE  /\ r \in Seq(Int) /\ Len(h) \in Nat /\ Len(r) = Len(h) + 1
           /\ DOMAIN h = 1 .. Len(h) /\ DOMAIN r = DOMAIN h \cup {Len(h) + 1}
           /\ r[Len(h) + 1] = x
           /\ \A i \in DOMAIN h : i \in Nat /\ i < Len(h) + 1 /\ r[i] = h[i] /\ h[i] \in Int
<1>1. /\ r \in Seq(Int) /\ Len(r) = Len(h) + 1
      /\ \A i \in 1 .. Len(h) : r[i] = h[i]
      /\ r[Len(h) + 1] = x
  BY AppendProperties
<1>2. Len(h) \in Nat /\ DOMAIN h = 1 .. Len(h) /\ DOMAIN r = 1 .. Len(r)
  BY <1>1
<1>3. \A i \in 1 .. Len(h) : h[i] \in Int
  BY ElementOfSeq
<1> QED
  BY <1>1, <1>2, <1>3

\* pop_frame when the stack is down to its bottom.
LEMMA PopNone ==
    ASSUME NEW s, NEW k \in Nat, NEW h, Popping(s, k, k, h), Len(h) < HeapPages,
           Stack(s, k), NEW r, r = Append(h, NoFrame)
    PROVE  Popping(s, k, k, r)
<1>1. h \in Seq(Int) /\ NoFrame \in Int /\ HeapPages \in Nat
  BY Constants DEF Popping, NoFrame
<1>2. /\ r \in Seq(Int) /\ Len(h) \in Nat /\ Len(r) = Len(h) + 1
      /\ DOMAIN r = DOMAIN h \cup {Len(h) + 1}
      /\ r[Len(h) + 1] = NoFrame
      /\ \A i \in DOMAIN h : i \in Nat /\ i < Len(h) + 1 /\ r[i] = h[i] /\ h[i] \in Int
  BY <1>1, OneMore
<1>3. \A i \in DOMAIN r : r[i] # NoFrame => \E b \in DOMAIN s : b > k /\ r[i] = s[b]
  BY <1>2 DEF Popping
<1>4. ASSUME NEW i \in DOMAIN r, NEW j \in DOMAIN r, i < j, r[j] # NoFrame
      PROVE  r[j] < r[i]
  <2>1. j \in DOMAIN h
    BY <1>2, <1>4
  <2>2. i \in DOMAIN h
    <3>1. i # Len(h) + 1
      BY <2>1, <1>2, <1>4
    <3> QED
      BY <3>1, <1>2
  <2> QED
    BY <2>1, <2>2, <1>2, <1>4 DEF Popping
<1>5. Cardinality(DOMAIN s) <= Cardinality(Live(s, k)) + Len(r)
  <2>1. IsFiniteSet(DOMAIN s) /\ Live(s, k) \in SUBSET DOMAIN s
    BY DEF Stack, Live
  <2>2. Cardinality(DOMAIN s) \in Nat /\ Cardinality(Live(s, k)) \in Nat
    BY <2>1, FS_Subset, FS_CardinalityType
  <2>3. Cardinality(DOMAIN s) <= Cardinality(Live(s, k)) + Len(h)
    BY DEF Popping
  <2> QED
    BY <2>2, <2>3, <1>2
<1>6. k \in DOMAIN s /\ Len(r) <= HeapPages
  BY <1>1, <1>2 DEF Popping
<1> QED
  BY <1>2, <1>3, <1>4, <1>5, <1>6 DEF Popping

\* pop_frame otherwise.
LEMMA PopOne ==
    ASSUME NEW s, NEW k \in Nat, NEW t, NEW h, Popping(s, k, t, h), Len(h) < HeapPages,
           Stack(s, k), t # k, NEW r, r = Append(h, s[t])
    PROVE  Popping(s, k, t - 4, r)
<1>1. h \in Seq(Int) /\ s[t] \in Int /\ s[t] # NoFrame /\ HeapPages \in Nat
  BY Constants DEF Popping, Stack, NoFrame
<1>2. /\ r \in Seq(Int) /\ Len(h) \in Nat /\ Len(r) = Len(h) + 1
      /\ DOMAIN r = DOMAIN h \cup {Len(h) + 1}
      /\ r[Len(h) + 1] = s[t]
      /\ \A i \in DOMAIN h : i \in Nat /\ i < Len(h) + 1 /\ r[i] = h[i] /\ h[i] \in Int
  BY <1>1, OneMore
<1>3. t \in DOMAIN s /\ t \in Nat /\ t - 4 \in DOMAIN s /\ t - 4 < t
  BY DEF Popping, Stack
<1>4. \A i \in DOMAIN h : h[i] # NoFrame /\ \E b \in DOMAIN s : b > t /\ h[i] = s[b]
  BY DEF Popping
<1>5. ASSUME NEW i \in DOMAIN r
      PROVE  r[i] # NoFrame /\ \E b \in DOMAIN s : b > t - 4 /\ r[i] = s[b]
  <2>1. CASE i = Len(h) + 1
    BY <2>1, <1>1, <1>2, <1>3
  <2>2. CASE i \in DOMAIN h
    <3>1. PICK b \in DOMAIN s : b > t /\ h[i] = s[b]
      BY <2>2, <1>4
    <3>2. b \in Nat /\ b > t - 4 /\ r[i] = s[b]
      <4>1. b \in Nat
        BY DEF Stack
      <4>2. b > t - 4
        BY <4>1, <3>1, <1>3
      <4> QED
        BY <4>1, <4>2, <3>1, <2>2, <1>2
    <3> QED
      BY <3>2, <2>2, <1>2, <1>4
  <2> QED
    BY <2>1, <2>2, <1>2
<1>6. ASSUME NEW i \in DOMAIN r, NEW j \in DOMAIN r, i < j, r[j] # NoFrame
      PROVE  r[j] < r[i]
  <2>1. i \in DOMAIN h
    <3>1. i # Len(h) + 1
      BY <1>2, <1>6
    <3> QED
      BY <3>1, <1>2
  <2>2. CASE j \in DOMAIN h
    BY <2>1, <2>2, <1>2, <1>6 DEF Popping
  <2>3. CASE j = Len(h) + 1
    <3>1. PICK b \in DOMAIN s : b > t /\ h[i] = s[b]
      BY <2>1, <1>4
    <3>2. s[t] + PAGE <= s[b] /\ s[t] \in Nat /\ s[b] \in Nat
      BY <3>1, <1>3 DEF Stack
    <3>3. PAGE \in Nat /\ PAGE > 4
      BY Constants
    <3> QED
      BY <3>1, <3>2, <3>3, <2>1, <2>3, <1>2
  <2> QED
    BY <2>2, <2>3, <1>2
<1>7. Cardinality(DOMAIN s) <= Cardinality(Live(s, t - 4)) + Len(r)
  <2>1. IsFiniteSet(DOMAIN s) /\ Live(s, t) \in SUBSET DOMAIN s /\ t \in Live(s, t)
    BY <1>3 DEF Stack, Live
  <2>2. IsFiniteSet(Live(s, t)) /\ Cardinality(DOMAIN s) \in Nat /\ Cardinality(Live(s, t)) \in Nat
    BY <2>1, FS_Subset, FS_CardinalityType
  <2>3. Live(s, t - 4) = Live(s, t) \ {t}
    <3>1. ASSUME NEW a \in DOMAIN s
          PROVE  (a <= t - 4) <=> (a <= t /\ a # t)
      <4>1. a \in Nat /\ (a < t => a + 4 <= t)
        BY <1>3 DEF Stack
      <4> QED
        BY <4>1, <1>3
    <3> QED
      BY <3>1 DEF Live
  <2>4. Cardinality(Live(s, t - 4)) = Cardinality(Live(s, t)) - 1
    BY <2>1, <2>2, <2>3, FS_RemoveElement
  <2>5. Cardinality(DOMAIN s) <= Cardinality(Live(s, t)) + Len(h)
    BY DEF Popping
  <2> QED
    BY <2>2, <2>4, <2>5, <1>2
<1>8. Len(r) <= HeapPages
  BY <1>1, <1>2
<1> QED
  BY <1>2, <1>3, <1>5, <1>6, <1>7, <1>8 DEF Popping

-----------------------------------------------------------------------------
(* The invariant is inductive.                                             *)

LEMMA IInvInit ==
    ASSUME OrderedMaps, Init
    PROVE  IInv
<1>1. kern_end \in Nat /\ MiB <= kern_end
  BY Constants DEF Init
<1>2. PICK m \in Maps, e \in Behind : map = Append(m, e)
  BY DEF Init
<1>3. GoodMap(map)
  BY <1>2, MapIsGood
<1>4. entry \in 1 .. Len(map)
  BY <1>3 DEF Init, GoodMap
<1>5. DOMAIN mem = {}
  BY DEF Init
<1>6. Stack(mem, kern_end) /\ Pushing(mem, kern_end, placement_addr, top)
  BY <1>5, FS_EmptySet DEF Stack, Pushing, Init
<1> QED
  BY <1>1, <1>3, <1>4, <1>5, <1>6 DEF IInv, Init

LEMMA IInvReadEntry ==
    ASSUME IInv, ReadEntry
    PROVE  IInv'
<1>1. /\ kern_end \in Nat /\ GoodMap(map) /\ entry \in 1 .. Len(map) - 1
      /\ Len(map) \in Nat /\ phase = "map"
      /\ UNCHANGED <<kern_end, map, placement_addr, mem, top, heap>> /\ entry' = entry + 1
  BY DEF IInv, ReadEntry, GoodMap
<1>2. PICK e : e = map[entry + 1]
  OBVIOUS
<1>3. \A a \in DOMAIN mem : \E i \in 1 .. Len(map) - 1 : i <= entry + 1 /\ InEntry(map, i, mem[a])
  BY <1>1 DEF IInv
<1>4. CASE Available(map, entry + 1)
  <2>1. entry + 1 < Len(map)
    BY <1>1, <1>4 DEF GoodMap
  <2>2. /\ e.addr \in Nat /\ e.len \in Nat /\ e.addr + e.len <= Word /\ e.addr + PAGE <= Word
        /\ e.addr >= MiB /\ e.type = 1
    BY <1>1, <1>2, <1>4, <2>1 DEF GoodMap, Available
  <2>3. /\ curr' = RoundUp(e.addr % Word) % Word
        /\ last' = RoundDown((e.addr + e.len) % Word)
        /\ phase' = "push"
    BY <1>2, <2>2 DEF ReadEntry
  <2>4. PICK c, l : c = curr' /\ l = last'
    OBVIOUS
  <2>5. /\ c \in Nat /\ c % PAGE = 0 /\ e.addr <= c
        /\ (l - PAGE) % Word \in Nat
        /\ ((l - PAGE) % Word) + PAGE <= e.addr + e.len
    BY <2>2, <2>3, <2>4, EntryBounds
  <2>6. \A a \in DOMAIN mem : mem[a] + PAGE <= c
    <3> SUFFICES ASSUME NEW a \in DOMAIN mem
                 PROVE  mem[a] + PAGE <= c
      OBVIOUS
    <3>1. PICK i \in 1 .. Len(map) - 1 : i <= entry /\ InEntry(map, i, mem[a])
      BY DEF IInv
    <3>2. map[i].addr + map[i].len <= e.addr /\ map[i].addr \in Nat /\ map[i].len \in Nat
      BY <3>1, <2>1, <1>1, <1>2 DEF GoodMap
    <3>3. mem[a] \in Nat /\ mem[a] + PAGE <= map[i].addr + map[i].len /\ PAGE \in Nat
      BY <3>1, Constants DEF InEntry, IInv, Stack
    <3>4. PICK v, w, x, y, z : v = mem[a] /\ w = e.addr /\ x = map[i].addr /\ y = map[i].len /\ z = PAGE
      OBVIOUS
    <3>5. /\ v \in Nat /\ w \in Nat /\ x \in Nat /\ y \in Nat /\ z \in Nat /\ c \in Nat
          /\ v + z <= x + y /\ x + y <= w /\ w <= c
      BY <3>2, <3>3, <3>4, <2>2, <2>5, Zenon
    <3>6. v + z <= c
      BY ONLY <3>5
    <3> QED
      BY <3>4, <3>6, Zenon
  <2>7. InEntryNow'
    BY <2>1, <2>4, <2>5, <2>6, <1>1, <1>2, <1>4 DEF InEntryNow
  <2> QED
    BY <2>1, <2>3, <2>7, <1>1, <1>3 DEF IInv
<1>5. CASE ~ Available(map, entry + 1)
  <2>1. phase' = "map"
    BY <1>1, <1>5 DEF ReadEntry, Available
  <2> QED
    BY <2>1, <1>1, <1>3 DEF IInv
<1> QED
  BY <1>4, <1>5

LEMMA IInvPushRegion ==
    ASSUME IInv, PushRegion
    PROVE  IInv'
<1>1. /\ kern_end \in Nat /\ placement_addr \in Nat /\ kern_end <= placement_addr
      /\ GoodMap(map) /\ entry \in 1 .. Len(map) - 1 /\ Len(map) \in Nat /\ phase = "push"
      /\ UNCHANGED <<kern_end, map, entry, last, heap, phase>>
      /\ Stack(mem, kern_end) /\ Pushing(mem, kern_end, placement_addr, top)
  BY DEF IInv, PushRegion, GoodMap, InEntryNow
<1>2. PAGE \in Nat \ {0} /\ PAGE > 4 /\ Word \in Nat \ {0}
  BY Constants
<1>3. PICK b \in Nat : b = (last - PAGE) % Word
  BY <1>1 DEF IInv, InEntryNow
<1>4. PICK e : e = map[entry]
  OBVIOUS
<1>5. /\ curr \in Nat /\ curr < b /\ b + PAGE <= e.addr + e.len
      /\ curr % PAGE = 0 /\ e.addr <= curr /\ e.type = 1
      /\ \A a \in DOMAIN mem : mem[a] + PAGE <= curr
  BY <1>1, <1>3, <1>4 DEF IInv, InEntryNow, PushRegion, InRegion, Available
<1>6. e.addr \in Nat /\ e.len \in Nat /\ e.addr + e.len <= Word
  BY <1>1, <1>4 DEF GoodMap
<1>7. curr + PAGE < Word /\ curr + PAGE \in Nat
  BY <1>2, <1>5, <1>6
<1>8. curr' = curr + PAGE
  BY <1>7, <1>2, NoWrap DEF PushRegion
<1>9. (curr + PAGE) % PAGE = 0
  <2>1. PICK c \in Int : c = curr
    BY <1>5
  <2>2. c % PAGE = 0
    BY <2>1, <1>5
  <2>3. (c + PAGE) % PAGE = 0
    BY <2>2, <1>2, NextPage
  <2> QED
    BY <2>1, <2>3
<1>10. InEntry(map, entry, curr)
  BY <1>2, <1>4, <1>5, <1>6 DEF InEntry
<1>11. CASE curr > kern_end
  <2>1. /\ mem' = [a \in DOMAIN mem \cup {placement_addr} |->
                      IF a = placement_addr THEN curr ELSE mem[a]]
        /\ top' = placement_addr /\ placement_addr' = placement_addr + 4
    BY <1>11 DEF PushRegion, push_frame, kmalloc
  <2>2. PICK r : r = mem'
    OBVIOUS
  <2>3. Stack(r, kern_end) /\ Pushing(r, kern_end, placement_addr + 4, placement_addr)
    <3>1. PICK s, k, p, t, f : s = mem /\ k = kern_end /\ p = placement_addr /\ t = top /\ f = curr
      OBVIOUS
    <3>2. /\ k \in Nat /\ p \in Nat /\ f \in Nat /\ k <= p /\ f > k /\ f % PAGE = 0
          /\ Stack(s, k) /\ Pushing(s, k, p, t) /\ \A a \in DOMAIN s : s[a] + PAGE <= f
      BY <3>1, <1>1, <1>5, <1>11
    <3>3. r = [a \in DOMAIN s \cup {p} |-> IF a = p THEN f ELSE s[a]]
      BY <3>1, <2>1, <2>2
    <3>4. Stack(r, k) /\ Pushing(r, k, p + 4, p)
      BY ONLY <3>2, <3>3, PushStack
    <3> QED
      BY <3>1, <3>4
  <2>4. \A a \in DOMAIN r : r[a] = curr \/ (a \in DOMAIN mem /\ r[a] = mem[a])
    BY <2>1, <2>2
  <2>5. \A a \in DOMAIN r : r[a] + PAGE <= curr + PAGE
    <3>1. \A a \in DOMAIN mem : mem[a] \in Nat
      BY <1>1 DEF Stack
    <3> QED
      BY <3>1, <2>4, <1>2, <1>5
  <2>6. \A a \in DOMAIN r : \E i \in 1 .. Len(map) - 1 : i <= entry /\ InEntry(map, i, r[a])
    BY <2>4, <1>1, <1>10 DEF IInv
  <2>7. InEntryNow'
    <3>1. map[entry].addr <= curr + PAGE
      BY <1>2, <1>4, <1>5, <1>6
    <3>2. entry < Len(map) /\ Available(map, entry) /\ b + PAGE <= map[entry].addr + map[entry].len
      BY <1>1, <1>4, <1>5 DEF IInv, InEntryNow
    <3> QED
      BY <3>1, <3>2, <2>2, <2>5, <1>1, <1>3, <1>7, <1>8, <1>9 DEF InEntryNow
  <2>8. Stack(mem, kern_end)' /\ Pushing(mem, kern_end, placement_addr, top)'
    BY <2>1, <2>2, <2>3, <1>1
  <2>9. (\A a \in DOMAIN mem : \E i \in 1 .. Len(map) - 1 : i <= entry /\ InEntry(map, i, mem[a]))'
    BY <2>2, <2>6, <1>1
  <2>10. placement_addr' \in Nat /\ kern_end' <= placement_addr' /\ heap' = <<>>
    BY <2>1, <1>1 DEF IInv
  <2> QED
    BY <2>7, <2>8, <2>9, <2>10, <1>1 DEF IInv
<1>12. CASE ~ (curr > kern_end)
  <2>1. UNCHANGED <<mem, top, placement_addr>>
    BY <1>12 DEF PushRegion
  <2>2. \A a \in DOMAIN mem : mem[a] + PAGE <= curr + PAGE
    <3>1. \A a \in DOMAIN mem : mem[a] \in Nat
      BY <1>1 DEF Stack
    <3> QED
      BY <3>1, <1>2, <1>5
  <2>3. InEntryNow'
    <3>1. map[entry].addr <= curr + PAGE
      BY <1>2, <1>4, <1>5, <1>6
    <3>2. entry < Len(map) /\ Available(map, entry) /\ b + PAGE <= map[entry].addr + map[entry].len
      BY <1>1, <1>4, <1>5 DEF IInv, InEntryNow
    <3> QED
      BY <3>1, <3>2, <2>1, <2>2, <1>1, <1>3, <1>7, <1>8, <1>9 DEF InEntryNow
  <2> QED
    BY <2>1, <2>3, <1>1 DEF IInv
<1> QED
  BY <1>11, <1>12

LEMMA IInvInitPaging ==
    ASSUME IInv, InitPaging
    PROVE  IInv'
<1>1. /\ kern_end \in Nat /\ placement_addr \in Nat /\ kern_end <= placement_addr /\ phase = "map"
      /\ Stack(mem, kern_end) /\ Pushing(mem, kern_end, placement_addr, top) /\ heap = <<>>
      /\ UNCHANGED <<kern_end, map, entry, curr, last, mem, top, heap>> /\ phase' = "heap"
  BY DEF IInv, InitPaging
<1>2. placement_addr' \in Nat /\ kern_end < placement_addr'
  <2>1. PICK x \in Nat : x = placement_addr + HeapBytes
    BY <1>1, Constants
  <2>2. placement_addr' = RoundDown(x) + PAGE
    BY <2>1 DEF InitPaging, page_round, kmalloc
  <2>3. RoundDown(x) \in Nat /\ x < RoundDown(x) + PAGE
    BY RoundDownPage
  <2> QED
    BY <2>1, <2>2, <2>3, <1>1, Constants
<1>3. DOMAIN mem # {} => Popping(mem, kern_end, top, <<>>)
  <2>1. PICK s, k, p, t : s = mem /\ k = kern_end /\ p = placement_addr /\ t = top
    OBVIOUS
  <2>2. k \in Nat /\ p \in Nat /\ Stack(s, k) /\ Pushing(s, k, p, t)
    BY <2>1, <1>1
  <2>3. DOMAIN s # {} => Popping(s, k, t, <<>>)
    BY ONLY <2>2, PopStart
  <2> QED
    BY <2>1, <2>3
<1>4. (DOMAIN mem # {} => Popping(mem, kern_end, top, heap))'
  BY <1>1, <1>3
<1> QED
  BY <1>1, <1>2, <1>4 DEF IInv

LEMMA IInvMapHeapPage ==
    ASSUME IInv, MapHeapPage
    PROVE  IInv'
<1>1. /\ kern_end \in Nat /\ phase = "heap" /\ Stack(mem, kern_end) /\ Len(heap) < HeapPages
      /\ DOMAIN mem # {} => Popping(mem, kern_end, top, heap)
      /\ UNCHANGED <<kern_end, map, entry, curr, last, placement_addr, mem, phase>>
  BY DEF IInv, MapHeapPage
<1>2. PICK s, k, t, h, u, r : s = mem /\ k = kern_end /\ t = top /\ h = heap /\ u = top' /\ r = heap'
  OBVIOUS
<1>3. IF t = k THEN u = t /\ r = Append(h, NoFrame) ELSE u = t - 4 /\ r = Append(h, s[t])
  BY <1>2 DEF MapHeapPage, pop_frame, bottom
<1>4. ASSUME DOMAIN s # {}
      PROVE  Popping(s, k, u, r)
  <2>1. k \in Nat /\ Stack(s, k) /\ Popping(s, k, t, h) /\ Len(h) < HeapPages
    BY <1>1, <1>2, <1>4
  <2>2. CASE t = k
    <3>1. Popping(s, k, k, h) /\ u = k /\ r = Append(h, NoFrame)
      BY <2>1, <2>2, <1>3
    <3> QED
      BY <3>1, <2>1, PopNone
  <2>3. CASE t # k
    <3>1. u = t - 4 /\ r = Append(h, s[t])
      BY <2>3, <1>3
    <3> QED
      BY <3>1, <2>1, <2>3, PopOne
  <2> QED
    BY <2>2, <2>3
<1>5. (DOMAIN mem # {} => Popping(mem, kern_end, top, heap))'
  BY <1>1, <1>2, <1>4
<1> QED
  BY <1>1, <1>5 DEF IInv

\* IInv is preserved by every step, and holds at the start.
THEOREM Inductive ==
    ASSUME OrderedMaps
    PROVE  Spec => []IInv
<1>1. Init => IInv
  BY IInvInit
<1>2. IInv /\ [Next]_vars => IInv'
  <2> SUFFICES ASSUME IInv, [Next]_vars
               PROVE  IInv'
    OBVIOUS
  <2>1. CASE ReadEntry
    BY <2>1, IInvReadEntry
  <2>2. CASE PushRegion
    BY <2>2, IInvPushRegion
  <2>3. CASE RegionDone
    BY <2>3 DEF RegionDone, IInv
  <2>4. CASE InitPaging
    BY <2>4, IInvInitPaging
  <2>5. CASE MapHeapPage
    BY <2>5, IInvMapHeapPage
  <2>6. CASE EnablePaging
    BY <2>6 DEF EnablePaging, IInv
  <2>7. CASE UNCHANGED vars
    BY <2>7 DEF vars, IInv, InEntryNow
  <2> QED
    BY <2>1, <2>2, <2>3, <2>4, <2>5, <2>6, <2>7 DEF Next
<1> QED
  BY <1>1, <1>2, PTL DEF Spec

-----------------------------------------------------------------------------
(* The properties.                                                         *)

\* A popped frame lies behind every word that is still to be read.
LEMMA GivenBehind ==
    ASSUME NEW s, NEW k \in Nat, NEW t, NEW h, Stack(s, k), Popping(s, k, t, h),
           NEW i \in DOMAIN h, h[i] # NoFrame, NEW a \in Live(s, t)
    PROVE  h[i] \in Nat /\ a \in Nat /\ a + 3 < h[i] /\ s[a] < h[i] /\ h[i] % PAGE = 0
<1>1. PICK b \in DOMAIN s : b > t /\ h[i] = s[b]
  BY DEF Popping
<1>2. t \in Nat /\ a \in DOMAIN s /\ a \in Nat /\ b \in Nat /\ a < b
  <2>1. t \in DOMAIN s /\ a \in DOMAIN s /\ a <= t
    BY DEF Popping, Live
  <2>2. t \in Nat /\ a \in Nat /\ b \in Nat
    BY <2>1 DEF Stack
  <2> QED
    BY <2>1, <2>2, <1>1
<1>3. a + 4 <= b /\ s[a] + PAGE <= s[b] /\ s[b] > b /\ s[b] \in Nat /\ s[a] \in Nat /\ s[b] % PAGE = 0
  BY <1>1, <1>2 DEF Stack
<1>4. PAGE \in Nat /\ PAGE > 4
  BY Constants
<1> QED
  BY <1>1, <1>2, <1>3, <1>4

\* init_pmm (v1/os/pmm.c) puts the stack of free frames into frames that are on
\* it; no frame that pop_frame returned holds a word that a later pop_frame
\* reads, for every map in the order of addresses and however large the heap.
THEOREM StackStays ==
    ASSUME OrderedMaps
    PROVE  Spec => []StackNotGivenAway
<1>1. IInv => StackNotGivenAway
  <2> SUFFICES ASSUME IInv, NEW f \in Given, NEW x \in LiveBytes, x \in PageOf(f)
               PROVE  FALSE
    BY DEF StackNotGivenAway
  <2>1. PICK a \in DOMAIN mem : a <= top /\ x \in a .. a + 3
    BY DEF LiveBytes
  <2>2. PICK i \in DOMAIN heap : f = heap[i] /\ f # NoFrame
    BY DEF Given
  <2>3. phase \in {"heap", "on"}
    BY <2>2 DEF IInv
  <2>4. PICK s, k, t, h : s = mem /\ k = kern_end /\ t = top /\ h = heap
    OBVIOUS
  <2>5. /\ k \in Nat /\ Stack(s, k) /\ Popping(s, k, t, h)
        /\ i \in DOMAIN h /\ h[i] # NoFrame /\ a \in Live(s, t)
    BY <2>1, <2>2, <2>3, <2>4 DEF IInv, Live
  <2>6. h[i] \in Nat /\ a \in Nat /\ a + 3 < h[i]
    BY ONLY <2>5, GivenBehind
  <2>7. f \in Nat /\ a \in Nat /\ a + 3 < f
    BY <2>2, <2>4, <2>6
  <2>8. x >= f
    BY DEF PageOf
  <2> QED
    BY <2>1, <2>7, <2>8
<1> QED
  BY <1>1, Inductive, PTL

\* With more frames on the stack than the heap and the kernel's pages take, the
\* heap is full and away from those pages.
LEMMA HeapApart ==
    ASSUME NEW s, NEW k \in Nat, NEW t, NEW h, NEW p \in Nat, k < p,
           Stack(s, k), Popping(s, k, t, h),
           NEW K, K = {RoundDown(a) : a \in k .. p - 1},
           Cardinality(DOMAIN s) > HeapPages + Cardinality(K),
           NEW i \in DOMAIN h
    PROVE  h[i] # NoFrame /\ h[i] \notin K
<1>1. IsFiniteSet(K) /\ Cardinality(K) \in Nat /\ RoundDown(k) \in K
  <2>1. IsFiniteSet(0 .. p)
    BY FS_Interval
  <2>2. \A a \in k .. p - 1 : RoundDown(a) \in Nat /\ RoundDown(a) <= a
    BY RoundDownPage
  <2>3. K \in SUBSET (0 .. p)
    BY <2>2
  <2>4. RoundDown(k) \in K
    OBVIOUS
  <2> QED
    BY <2>1, <2>3, <2>4, FS_Subset, FS_CardinalityType
<1>2. PICK L : L = Live(s, t)
  OBVIOUS
<1>3. IsFiniteSet(L) /\ Cardinality(L) \in Nat
  <2>1. IsFiniteSet(DOMAIN s) /\ L \in SUBSET DOMAIN s
    BY <1>2 DEF Stack, Live
  <2> QED
    BY <2>1, FS_Subset, FS_CardinalityType
<1>4. Cardinality(K) < Cardinality(L)
  <2>1. /\ Cardinality(DOMAIN s) <= Cardinality(L) + Len(h) /\ Len(h) <= HeapPages
        /\ Len(h) \in Nat /\ HeapPages \in Nat
    BY <1>2, Constants DEF Popping
  <2>2. Cardinality(DOMAIN s) \in Nat
    BY FS_CardinalityType DEF Stack
  <2> QED
    BY <2>1, <2>2, <1>1, <1>3
<1>5. ASSUME NEW f \in [L -> K], \A a, b \in L : f[a] = f[b] => a = b
      PROVE  FALSE
  BY <1>1, <1>3, <1>4, <1>5, FS_PigeonHole
<1>6. h[i] # NoFrame
  <2> SUFFICES ASSUME h[i] = NoFrame
               PROVE  FALSE
    OBVIOUS
  <2>1. t = k
    BY DEF Popping
  <2>2. \A a \in L : a = k
    BY <2>1, <1>2 DEF Live, Stack
  <2>3. PICK f : f = [a \in L |-> RoundDown(k)]
    OBVIOUS
  <2>4. f \in [L -> K] /\ \A a, b \in L : f[a] = f[b] => a = b
    BY <2>2, <2>3, <1>1
  <2> QED
    BY <2>4, <1>5
<1>7. h[i] \notin K
  <2> SUFFICES ASSUME h[i] \in K
               PROVE  FALSE
    OBVIOUS
  <2>1. h[i] < p
    <3>1. PICK a \in k .. p - 1 : h[i] = RoundDown(a)
      OBVIOUS
    <3>2. a \in Nat /\ RoundDown(a) \in Nat /\ RoundDown(a) <= a
      BY RoundDownPage
    <3> QED
      BY <3>1, <3>2
  <2>2. ASSUME NEW a \in L
        PROVE  s[a] \in K
    <3>1. s[a] \in Nat /\ s[a] > k /\ s[a] % PAGE = 0
      BY <1>2 DEF Stack, Live
    <3>2. s[a] < h[i] /\ h[i] \in Nat
      BY <1>2, <1>6, GivenBehind
    <3>3. s[a] \in k .. p - 1
      BY <3>1, <3>2, <2>1
    <3>4. RoundDown(s[a]) = s[a]
      BY <3>1, RoundDownPage
    <3> QED
      BY <3>3, <3>4
  <2>3. PICK f : f = [a \in L |-> s[a]]
    OBVIOUS
  <2>4. f \in [L -> K]
    BY <2>2, <2>3
  <2>5. ASSUME NEW a \in L, NEW b \in L, f[a] = f[b]
        PROVE  a = b
    <3>1. /\ a \in DOMAIN s /\ b \in DOMAIN s /\ a \in Nat /\ b \in Nat
          /\ s[a] = s[b] /\ s[a] \in Nat /\ s[b] \in Nat
      BY <2>3, <2>5, <1>2 DEF Stack, Live
    <3>2. a < b => s[a] + PAGE <= s[b]
      BY <3>1 DEF Stack
    <3>3. b < a => s[b] + PAGE <= s[a]
      BY <3>1 DEF Stack
    <3>4. PAGE \in Nat /\ PAGE > 4
      BY Constants
    <3> QED
      BY <3>1, <3>2, <3>3, <3>4
  <2> QED
    BY <2>4, <2>5, <1>5
<1> QED
  BY <1>6, <1>7

\* Unless the map has no frame at all (pop_frame reads address 0 then), frames
\* are given out once, lie behind the kernel in available memory, and with
\* enough memory for both the heap is away from the kernel's own pages.
THEOREM FramesAreOwn ==
    ASSUME OrderedMaps
    PROVE  Spec => [](DOMAIN mem # {} => FramesOwn)
<1>1. IInv /\ DOMAIN mem # {} => FramesOwn
  <2> SUFFICES ASSUME IInv, DOMAIN mem # {}
               PROVE  FramesOwn
    OBVIOUS
  <2>1. PICK s, k, t, h, p : s = mem /\ k = kern_end /\ t = top /\ h = heap /\ p = placement_addr
    OBVIOUS
  <2>2. CASE heap = <<>> /\ phase # "on"
    BY <2>2 DEF FramesOwn, Given
  <2>3. CASE phase \in {"heap", "on"}
    <3>1. k \in Nat /\ p \in Nat /\ k < p /\ Stack(s, k) /\ Popping(s, k, t, h) /\ h \in Seq(Int)
      BY <2>1, <2>3 DEF IInv, Popping
    <3>2. ASSUME NEW i \in DOMAIN h, NEW j \in DOMAIN h, i # j, h[i] # NoFrame
          PROVE  h[i] # h[j]
      <4>1. DOMAIN h = 1 .. Len(h) /\ Len(h) \in Nat
        BY <3>1
      <4>2. i \in Nat /\ j \in Nat /\ h[i] \in Int /\ h[j] \in Int
        BY <3>1, <4>1, ElementOfSeq
      <4>3. CASE i < j
        BY <4>2, <4>3, <3>1, <3>2 DEF Popping
      <4>4. CASE j < i
        BY <4>2, <4>4, <3>1, <3>2 DEF Popping
      <4> QED
        BY <4>2, <4>3, <4>4, <3>2
    <3>3. ASSUME NEW f \in Given
          PROVE  /\ f > kern_end /\ f % PAGE = 0
                 /\ \E i \in 1 .. Len(map) - 1 : InEntry(map, i, f)
      <4>1. PICK i \in DOMAIN h : f = h[i] /\ f # NoFrame
        BY <2>1 DEF Given
      <4>2. PICK b \in DOMAIN s : f = s[b]
        BY <4>1, <3>1 DEF Popping
      <4>3. b \in Nat /\ f \in Nat /\ f > b /\ b >= k /\ f % PAGE = 0
        BY <4>2, <3>1 DEF Stack
      <4>4. \E n \in 1 .. Len(map) - 1 : InEntry(map, n, f)
        BY <4>2, <2>1 DEF IInv
      <4> QED
        BY <4>3, <4>4, <3>1, <2>1
    <3>4. ASSUME Cardinality(DOMAIN mem) > HeapPages + Cardinality(KernelPages)
          PROVE  /\ \A i \in DOMAIN heap : heap[i] # NoFrame
                 /\ Given \cap KernelPages = {}
      <4>1. PICK K : K = KernelPages
        OBVIOUS
      <4>2. K = {RoundDown(a) : a \in k .. p - 1} /\ Cardinality(DOMAIN s) > HeapPages + Cardinality(K)
        BY <4>1, <3>4, <2>1 DEF KernelPages
      <4>3. \A i \in DOMAIN h : h[i] # NoFrame /\ h[i] \notin K
        BY ONLY <4>2, <3>1, HeapApart
      <4> QED
        BY <4>1, <4>3, <2>1 DEF Given
    <3>5. \A i, j \in DOMAIN heap : i # j /\ heap[i] # NoFrame => heap[i] # heap[j]
      BY <3>2, <2>1
    <3> QED
      BY <3>3, <3>4, <3>5 DEF FramesOwn, InEntry
  <2> QED
    BY <2>2, <2>3 DEF IInv
<1>2. IInv => (DOMAIN mem # {} => FramesOwn)
  BY <1>1
<1> QED
  BY <1>2, Inductive, PTL
=============================================================================
