---------------------------- MODULE KHeapProofs -----------------------------
(***************************************************************************)
(* Proofs about the words of the kernel heap, for every size of the heap,  *)
(* every set of requests and every use that callers make of their memory:  *)
(* headers, footers and bins always describe a chain of blocks, and the    *)
(* allocators and kheap_free do on the words what BlockChain does on that  *)
(* chain.                                                                  *)
(***************************************************************************)
EXTENDS KHeap, FiniteSetTheorems, SequenceTheorems, WellFoundedInduction, TLAPS

-----------------------------------------------------------------------------
(* Numbers.                                                                *)

\* What the assumptions say of the bounds of the heap.
LEMMA Bounds ==
    /\ Start \in Nat /\ End \in Nat /\ AddrSpace \in Nat
    /\ 4096 <= Start /\ Start + 4096 <= End /\ End < AddrSpace
    /\ Start % 4 = 0 /\ End % 4 = 0
<1>1. /\ Start \in Nat /\ End \in Nat /\ AddrSpace \in Nat
      /\ 0 < Start /\ Start < End /\ End < AddrSpace
      /\ Start % 4096 = 0 /\ End % 4096 = 0
  BY KHeapOpsAssumption DEF PG_SZ
<1>2. Start = 4096 * (Start \div 4096) /\ End = 4096 * (End \div 4096)
  BY <1>1
<1>3. PICK s \in Int, e \in Int : Start = 4096 * s /\ End = 4096 * e
  BY <1>1, <1>2
<1>4. 4096 <= Start /\ Start + 4096 <= End
  BY <1>1, <1>3
<1>5. Start % 4 = 0 /\ End % 4 = 0
  BY <1>1, <1>3
<1> QED
  BY <1>1, <1>4, <1>5

\* Multiples of the word.
LEMMA WordSums ==
    ASSUME NEW a \in Int, a % 4 = 0, NEW b \in Int, b % 4 = 0
    PROVE  (a + b) % 4 = 0 /\ (a - b) % 4 = 0
<1>1. PICK x \in Int, y \in Int : a = 4 * x /\ b = 4 * y
  <2>1. a = 4 * (a \div 4) /\ b = 4 * (b \div 4)
    OBVIOUS
  <2> QED
    BY <2>1
<1>2. a + b = 4 * (x + y) /\ a - b = 4 * (x - y)
  BY <1>1
<1>3. \A z \in Int : (4 * z) % 4 = 0
  OBVIOUS
<1> QED
  BY <1>1, <1>2, <1>3

\* A bounded set of numbers that is not empty has a greatest element.
LEMMA Greatest ==
    ASSUME NEW S \in SUBSET Nat, S # {}, NEW n \in Nat, \A x \in S : x <= n
    PROVE  \E x \in S : \A y \in S : y <= x
<1> DEFINE T == {n - x : x \in S}
           R == OpToRel(<, Nat)
<1>1. T \in SUBSET Nat /\ T # {}
  <2>1. \A x \in S : n - x \in Nat
    OBVIOUS
  <2>2. PICK x \in S : TRUE
    OBVIOUS
  <2>3. n - x \in T
    BY <2>2
  <2> QED
    BY <2>1, <2>3
<1>2. IsWellFoundedOn(R, Nat)
  BY NatLessThanWellFounded
<1> HIDE DEF R
<1>3. PICK t \in T : \A u \in T : ~ (<<u, t>> \in R)
  BY <1>1, <1>2, WFMin
<1>4. PICK x \in S : t = n - x
  BY <1>3
<1>5. ASSUME NEW y \in S PROVE y <= x
  <2>1. n - y \in T
    OBVIOUS
  <2>2. ~ (n - y < t)
    BY <1>1, <1>3, <2>1 DEF R, OpToRel
  <2> QED
    BY <1>4, <2>2
<1> QED
  BY <1>5

\* A set of numbers that is not empty has a least element.
LEMMA LeastNat ==
    ASSUME NEW S \in SUBSET Nat, S # {}
    PROVE  \E x \in S : \A y \in S : x <= y
<1> DEFINE R == OpToRel(<, Nat)
<1>1. IsWellFoundedOn(R, Nat)
  BY NatLessThanWellFounded
<1> HIDE DEF R
<1>2. PICK x \in S : \A y \in S : ~ (<<y, x>> \in R)
  BY <1>1, WFMin
<1>3. \A y \in S : ~ (y < x)
  BY <1>2 DEF R, OpToRel
<1> QED
  BY <1>3

-----------------------------------------------------------------------------
(* Memory.                                                                 *)

\* Addresses of the words of the heap, and of the word behind it.
Word(a) == a \in Start .. End /\ a % 4 = 0

\* A heap whose words are 32-bit values at word addresses.
IsHeap(h) ==
    /\ h = [mem |-> h.mem, bins |-> h.bins]
    /\ h.mem = [a \in DOMAIN h.mem |-> h.mem[a]]
    /\ \A a \in DOMAIN h.mem : Word(a) /\ h.mem[a] \in 1 .. AddrSpace - 1
    /\ h.bins \in [0 .. BIN_CNT - 1 -> Nat]

\* What is read is a 32-bit value, and 0 outside the heap.
LEMMA LoadType ==
    ASSUME NEW h, IsHeap(h), NEW a
    PROVE  /\ Load(h, a) \in 0 .. AddrSpace - 1
           /\ Load(h, a) \in Nat
           /\ Load(h, a) # 0 => Word(a)
           /\ a \in DOMAIN h.mem <=> Load(h, a) # 0
           /\ a \in DOMAIN h.mem => h.mem[a] = Load(h, a)
<1>1. AddrSpace \in Nat /\ 0 < AddrSpace
  BY Bounds
<1>2. CASE a \in DOMAIN h.mem
  BY <1>1, <1>2 DEF IsHeap, Load
<1>3. CASE a \notin DOMAIN h.mem
  BY <1>1, <1>3 DEF Load
<1> QED
  BY <1>2, <1>3

\* A store changes the words it names and no other.
LEMMA StoreLoad ==
    ASSUME NEW h, IsHeap(h), NEW A, \A a \in A : Word(a), NEW v \in 0 .. AddrSpace - 1,
           NEW g, g = Store(h, A, v)
    PROVE  /\ IsHeap(g) /\ g.bins = h.bins
           /\ \A a : Load(g, a) = IF a \in A THEN v ELSE Load(h, a)
<1> DEFINE W == (DOMAIN h.mem \ A) \cup (IF v = 0 THEN {} ELSE A)
           m == [a \in W |-> IF a \in A THEN v ELSE h.mem[a]]
<1>1. g = [mem |-> m, bins |-> h.bins]
  BY DEF Store, IsHeap
<1>2. g.mem = m /\ g.bins = h.bins
  BY <1>1
<1>3. AddrSpace \in Nat
  BY Bounds
<1>4. ASSUME NEW a \in W PROVE Word(a) /\ m[a] \in 1 .. AddrSpace - 1
  BY <1>3 DEF IsHeap
<1>5. IsHeap(g)
  BY <1>1, <1>2, <1>4 DEF IsHeap
<1>6. ASSUME NEW a PROVE Load(g, a) = IF a \in A THEN v ELSE Load(h, a)
  BY <1>2 DEF Load
<1> QED
  BY <1>2, <1>5, <1>6

\* The words from lo to hi were cleared.
Cleared(h, g, lo, hi) ==
    /\ IsHeap(g) /\ g.bins = h.bins
    /\ \A a : Load(g, a) = IF lo <= a /\ a < hi THEN 0 ELSE Load(h, a)

\* memset clears the words of its range.
LEMMA ZeroLoad ==
    ASSUME NEW h, IsHeap(h), NEW lo \in Nat, NEW n \in Nat
    PROVE  Cleared(h, Zero(h, lo, n), lo, lo + n)
<1> SUFFICES ASSUME NEW g, g = Zero(h, lo, n)
             PROVE  Cleared(h, g, lo, lo + n)
  OBVIOUS
<1> DEFINE W == {x \in DOMAIN h.mem : ~ (lo <= x /\ x < lo + n)}
           m == [a \in W |-> h.mem[a]]
<1>1. g = [mem |-> m, bins |-> h.bins]
  BY DEF Zero, IsHeap
<1>2. g.mem = m /\ g.bins = h.bins
  BY <1>1
<1>3. IsHeap(g)
  BY <1>1, <1>2 DEF IsHeap
<1>4. ASSUME NEW a PROVE Load(g, a) = IF lo <= a /\ a < lo + n THEN 0 ELSE Load(h, a)
  BY <1>2 DEF Load
<1> QED
  BY <1>2, <1>3, <1>4 DEF Cleared

-----------------------------------------------------------------------------
(* Headers and the links of lists.                                         *)

\* Blocks whose headers and footers do not overlap.
Apart(S) ==
    /\ \A x \in S : x \in Start .. End - 20 /\ x % 4 = 0
    /\ \A x, y \in S : x < y => x + 20 <= y

\* Nothing but links of the blocks S differs in the two heaps.
OnlyLinks(h, g, S) ==
    \A a \in Nat : (\A x \in S : a # x + 8 /\ a # x + 12) => Load(g, a) = Load(h, a)

\* The words of a header.
LEMMA HeaderWords ==
    ASSUME NEW S, Apart(S), NEW x \in S
    PROVE  /\ x \in Nat /\ x # 0
           /\ Word(x) /\ Word(x + 4) /\ Word(x + 8) /\ Word(x + 12) /\ Word(x + 16)
           /\ x \in 0 .. AddrSpace - 1
<1>1. /\ Start \in Nat /\ End \in Nat /\ 4096 <= Start
      /\ x \in Start .. End - 20 /\ x % 4 = 0
      /\ AddrSpace \in Nat /\ End < AddrSpace
  BY Bounds DEF Apart
<1>2. x \in Int /\ 4 % 4 = 0 /\ 8 % 4 = 0 /\ 12 % 4 = 0 /\ 16 % 4 = 0
  BY <1>1
<1>3. (x + 4) % 4 = 0 /\ (x + 8) % 4 = 0 /\ (x + 12) % 4 = 0 /\ (x + 16) % 4 = 0
  BY <1>1, <1>2
<1> QED
  BY <1>1, <1>3 DEF Word

\* Words of two headers.
LEMMA HeadersApart ==
    ASSUME NEW S, Apart(S), NEW x \in S, NEW y \in S
    PROVE  /\ x + 8 = y + 8 => x = y
           /\ x + 12 = y + 12 => x = y
           /\ x + 8 # y + 12
           /\ x # y + 8 /\ x # y + 12
           /\ x + 4 # y + 8 /\ x + 4 # y + 12
<1>1. x \in Nat /\ y \in Nat
  BY HeaderWords
<1>2. (x < y => x + 20 <= y) /\ (y < x => y + 20 <= x)
  BY DEF Apart
<1> QED
  BY <1>1, <1>2

\* A step that changes only links leaves sizes and flags alone.
LEMMA OnlyLinksKeep ==
    ASSUME NEW S, Apart(S), NEW h, NEW g, OnlyLinks(h, g, S), NEW x \in S
    PROVE  size(g, x) = size(h, x) /\ hole(g, x) = hole(h, x)
<1>1. x \in Nat /\ x + 4 \in Nat
  BY HeaderWords
<1>2. \A y \in S : x # y + 8 /\ x # y + 12 /\ x + 4 # y + 8 /\ x + 4 # y + 12
  BY HeadersApart
<1> QED
  BY <1>1, <1>2 DEF OnlyLinks, size, hole

\* Two changes of links of the blocks S are one.
LEMMA OnlyLinksTrans ==
    ASSUME NEW S, NEW h, NEW g, NEW k, OnlyLinks(h, g, S), OnlyLinks(g, k, S)
    PROVE  OnlyLinks(h, k, S)
  BY DEF OnlyLinks

\* What setting the next field of block b, its prev field or both, or the
\* head of bin i makes of heap h, as long as only the blocks S count.
NextSet(h, g, S, b, v) ==
    /\ IsHeap(g) /\ g.bins = h.bins /\ OnlyLinks(h, g, S)
    /\ \A x \in S : next(g, x) = (IF x = b THEN v ELSE next(h, x))
    /\ \A x \in S : prev(g, x) = prev(h, x)

PrevSet(h, g, S, b, v) ==
    /\ IsHeap(g) /\ g.bins = h.bins /\ OnlyLinks(h, g, S)
    /\ \A x \in S : next(g, x) = next(h, x)
    /\ \A x \in S : prev(g, x) = (IF x = b THEN v ELSE prev(h, x))

LinksCleared(h, g, S, b) ==
    /\ IsHeap(g) /\ g.bins = h.bins /\ OnlyLinks(h, g, S)
    /\ \A x \in S : next(g, x) = (IF x = b THEN 0 ELSE next(h, x))
    /\ \A x \in S : prev(g, x) = (IF x = b THEN 0 ELSE prev(h, x))

HeadSet(h, g, i, v) ==
    /\ IsHeap(g) /\ g.bins = [h.bins EXCEPT ![i] = v]
    /\ \A a : Load(g, a) = Load(h, a)

\* A store to the next field of a block of S changes no other link of S.
LEMMA SetNextLinks ==
    ASSUME NEW h, IsHeap(h), NEW S, Apart(S), NEW b \in S, NEW v \in S \cup {0}
    PROVE  NextSet(h, SetNext(h, b, v), S, b, v)
<1> SUFFICES ASSUME NEW g, g = SetNext(h, b, v)
             PROVE  NextSet(h, g, S, b, v)
  OBVIOUS
<1>1. v \in 0 .. AddrSpace - 1 /\ Word(b + 8)
  BY HeaderWords, Bounds
<1>2. /\ IsHeap(g) /\ g.bins = h.bins
      /\ \A a : Load(g, a) = IF a \in {b + 8} THEN v ELSE Load(h, a)
  BY <1>1, StoreLoad DEF SetNext
<1>3. \A x \in S : next(g, x) = (IF x = b THEN v ELSE next(h, x))
  BY <1>2, HeadersApart DEF next
<1>4. \A x \in S : prev(g, x) = prev(h, x)
  BY <1>2, HeadersApart DEF prev
<1>5. OnlyLinks(h, g, S)
  BY <1>2 DEF OnlyLinks
<1> QED
  BY <1>2, <1>3, <1>4, <1>5 DEF NextSet

\* A store to the prev field of a block of S changes no other link of S.
LEMMA SetPrevLinks ==
    ASSUME NEW h, IsHeap(h), NEW S, Apart(S), NEW b \in S, NEW v \in S \cup {0}
    PROVE  PrevSet(h, SetPrev(h, b, v), S, b, v)
<1> SUFFICES ASSUME NEW g, g = SetPrev(h, b, v)
             PROVE  PrevSet(h, g, S, b, v)
  OBVIOUS
<1>1. v \in 0 .. AddrSpace - 1 /\ Word(b + 12)
  BY HeaderWords, Bounds
<1>2. /\ IsHeap(g) /\ g.bins = h.bins
      /\ \A a : Load(g, a) = IF a \in {b + 12} THEN v ELSE Load(h, a)
  BY <1>1, StoreLoad DEF SetPrev
<1>3. \A x \in S : prev(g, x) = (IF x = b THEN v ELSE prev(h, x))
  BY <1>2, HeadersApart DEF prev
<1>4. \A x \in S : next(g, x) = next(h, x)
  BY <1>2, HeadersApart DEF next
<1>5. OnlyLinks(h, g, S)
  BY <1>2 DEF OnlyLinks
<1> QED
  BY <1>2, <1>3, <1>4, <1>5 DEF PrevSet

\* Clearing the links of a block of S changes no other link of S.
LEMMA ClearLinksLinks ==
    ASSUME NEW h, IsHeap(h), NEW S, Apart(S), NEW b \in S
    PROVE  LinksCleared(h, ClearLinks(h, b), S, b)
<1> SUFFICES ASSUME NEW g, g = ClearLinks(h, b)
             PROVE  LinksCleared(h, g, S, b)
  OBVIOUS
<1>1. 0 \in 0 .. AddrSpace - 1 /\ \A a \in {b + 8, b + 12} : Word(a)
  BY HeaderWords, Bounds
<1>2. /\ IsHeap(g) /\ g.bins = h.bins
      /\ \A a : Load(g, a) = IF a \in {b + 8, b + 12} THEN 0 ELSE Load(h, a)
  BY <1>1, StoreLoad DEF ClearLinks, NULL
<1>3. \A x \in S : next(g, x) = (IF x = b THEN 0 ELSE next(h, x))
  BY <1>2, HeadersApart DEF next
<1>4. \A x \in S : prev(g, x) = (IF x = b THEN 0 ELSE prev(h, x))
  BY <1>2, HeadersApart DEF prev
<1>5. OnlyLinks(h, g, S)
  BY <1>2 DEF OnlyLinks
<1> QED
  BY <1>2, <1>3, <1>4, <1>5 DEF LinksCleared

\* Moving the head of a bin changes no word.
LEMMA HeadLinks ==
    ASSUME NEW h, IsHeap(h), NEW i \in 0 .. 8, NEW v \in Nat
    PROVE  HeadSet(h, SetHead(h, i, v), i, v)
<1> SUFFICES ASSUME NEW g, g = SetHead(h, i, v)
             PROVE  HeadSet(h, g, i, v)
  OBVIOUS
<1>1. g = [mem |-> h.mem, bins |-> [h.bins EXCEPT ![i] = v]]
  BY DEF IsHeap, SetHead
<1>2. g.mem = h.mem /\ g.bins = [h.bins EXCEPT ![i] = v]
  BY <1>1
<1>3. IsHeap(g)
  BY <1>1, <1>2 DEF IsHeap, BIN_CNT
<1> QED
  BY <1>2, <1>3 DEF Load, HeadSet

-----------------------------------------------------------------------------
(* The list of a bin.                                                      *)

\* The blocks s, in this order, are the list of bin i: each points to the next
\* one, and each but the first one back.
IsList(h, i, s) ==
    /\ \A k, l \in 1 .. Len(s) : s[k] = s[l] => k = l
    /\ h.bins[i] = IF Len(s) = 0 THEN 0 ELSE s[1]
    /\ \A k \in 1 .. Len(s) : next(h, s[k]) = IF k = Len(s) THEN 0 ELSE s[k + 1]
    /\ \A k \in 2 .. Len(s) : prev(h, s[k]) = s[k - 1]

\* A list does not change as long as its head and its links do not.
LEMMA ListKept ==
    ASSUME NEW h, NEW i, NEW s, IsList(h, i, s), NEW g, g.bins[i] = h.bins[i],
           Len(s) \in Nat,
           \A k \in 1 .. Len(s) : next(g, s[k]) = next(h, s[k]) /\ prev(g, s[k]) = prev(h, s[k])
    PROVE  IsList(g, i, s)
<1>1. \A k \in 2 .. Len(s) : k \in 1 .. Len(s)
  OBVIOUS
<1> QED
  BY <1>1 DEF IsList

\* A heap has no room for more than MaxBlocks blocks.
LEMMA FewBlocks ==
    ASSUME NEW S, Apart(S), NEW s \in Seq(S), \A k, l \in 1 .. Len(s) : s[k] = s[l] => k = l
    PROVE  MaxBlocks \in Nat /\ Len(s) <= MaxBlocks
<1> DEFINE n == Len(s)
           T == 0 .. MaxBlocks - 1
           f == [k \in 1 .. n |-> (s[k] - Start) \div 20]
<1>1. Start \in Nat /\ End \in Nat /\ Start + 4096 <= End /\ n \in Nat
  BY Bounds
<1>2. MaxBlocks = (End - Start) \div 20
  BY DEF MaxBlocks, BLCK_OVERHEAD
<1>3. PICK d \in Int : d = MaxBlocks /\ 20 * d <= End - Start /\ End - Start < 20 * d + 20
  BY <1>1, <1>2
<1>4. MaxBlocks \in Nat
  BY <1>1, <1>3
<1>5. ASSUME NEW k \in 1 .. n
      PROVE  /\ s[k] \in S /\ s[k] \in Nat /\ Start <= s[k] /\ s[k] + 20 <= End
             /\ f[k] \in Int /\ 20 * f[k] <= s[k] - Start /\ s[k] - Start < 20 * f[k] + 20
  <2>1. s[k] \in S
    OBVIOUS
  <2>2. s[k] \in Nat /\ Start <= s[k] /\ s[k] + 20 <= End
    BY <1>1, <2>1 DEF Apart
  <2>3. PICK e \in Nat : e = s[k] - Start
    BY <1>1, <2>2
  <2>4. e \div 20 \in Int /\ 20 * (e \div 20) <= e /\ e < 20 * (e \div 20) + 20
    OBVIOUS
  <2>5. f[k] = e \div 20
    BY <2>3
  <2> HIDE DEF f
  <2> QED
    BY <2>1, <2>2, <2>3, <2>4, <2>5
<1>6. ASSUME NEW k \in 1 .. n PROVE f[k] \in T
  <2> HIDE DEF f
  <2>1. f[k] \in Int /\ s[k] \in Nat
    BY <1>5
  <2>2. PICK q \in Int : q = f[k]
    BY <2>1
  <2>3. PICK c \in Nat : c = s[k]
    BY <2>1
  <2>4. Start <= c /\ c + 20 <= End /\ 20 * q <= c - Start /\ c - Start < 20 * q + 20
    BY <1>5, <2>2, <2>3
  <2>5. 0 <= q /\ q <= d - 1
    BY ONLY <1>1, <1>3, <2>4, q \in Int, c \in Nat, d \in Int
  <2> QED
    BY <1>3, <2>2, <2>5
<1>7. ASSUME NEW k \in 1 .. n, NEW l \in 1 .. n, f[k] = f[l] PROVE k = l
  <2>1. s[k] \in Nat /\ s[l] \in Nat /\ s[k] \in S /\ s[l] \in S
    BY <1>5
  <2>2. ~ (s[k] + 20 <= s[l]) /\ ~ (s[l] + 20 <= s[k])
    <3> HIDE DEF f
    <3>1. PICK q \in Int : q = f[k] /\ q = f[l]
      BY <1>5, <1>7
    <3>2. 20 * q <= s[k] - Start /\ s[k] - Start < 20 * q + 20
      BY <1>5, <3>1
    <3>3. 20 * q <= s[l] - Start /\ s[l] - Start < 20 * q + 20
      BY <1>5, <3>1
    <3> QED
      BY ONLY <1>1, <2>1, <3>2, <3>3, q \in Int
  <2>3. s[k] = s[l]
    BY <2>1, <2>2 DEF Apart
  <2> QED
    BY <2>3
<1>8. f \in Injection(1 .. n, T)
  <2>1. f \in [1 .. n -> T]
    BY <1>6
  <2>2. IsInjective(f)
    BY <1>7 DEF IsInjective
  <2> QED
    BY <2>1, <2>2 DEF Injection
<1>9. /\ IsFiniteSet(T) /\ Cardinality(T) = MaxBlocks
      /\ IsFiniteSet(1 .. n) /\ Cardinality(1 .. n) = n
  <2>1. IsFiniteSet(T) /\ Cardinality(T) = MaxBlocks
    <3>1. 0 \in Int /\ MaxBlocks - 1 \in Int
      BY <1>4
    <3>2. IsFiniteSet(T) /\ Cardinality(T) = IF 0 > MaxBlocks - 1 THEN 0 ELSE (MaxBlocks - 1) - 0 + 1
      BY <3>1, FS_Interval
    <3> QED
      BY <1>4, <3>2
  <2>2. IsFiniteSet(1 .. n) /\ Cardinality(1 .. n) = n
    <3>1. IsFiniteSet(1 .. n) /\ Cardinality(1 .. n) = IF 1 > n THEN 0 ELSE n - 1 + 1
      BY <1>1, FS_Interval
    <3> QED
      BY <1>1, <3>1
  <2> QED
    BY <2>1, <2>2
<1>10. Cardinality(1 .. n) <= Cardinality(T)
  BY <1>8, <1>9, FS_Injection
<1> QED
  BY <1>4, <1>9, <1>10

\* Following the next pointers gives the list.
LEMMA BinIs ==
    ASSUME NEW h, IsHeap(h), NEW S, Apart(S), NEW i \in 0 .. 8,
           NEW s \in Seq(S), IsList(h, i, s)
    PROVE  Bin(h, i) = s
<1> DEFINE n == Len(s)
           P(w) == w = [k \in Nat |-> IF k = 0 THEN h.bins[i] ELSE next(h, w[k - 1])]
           Node == CHOOSE w : P(w)
           Q(m) == Node[m] = NULL /\ \A k \in 0 .. m - 1 : Node[k] # NULL
           F == [k \in Nat |-> IF k < n THEN s[k + 1] ELSE 0]
<1>1. Bin(h, i) = [k \in 1 .. (CHOOSE m \in 0 .. MaxBlocks : Q(m)) |-> Node[k - 1]]
  BY DEF Bin
<1>2. n \in Nat /\ n <= MaxBlocks /\ MaxBlocks \in Nat
  BY FewBlocks DEF IsList
<1>3. next(h, 0) = 0
  <2>1. ~ Word(8)
    BY Bounds DEF Word
  <2>2. Load(h, 8) = 0
    BY <2>1, LoadType
  <2> QED
    BY <2>2 DEF next
<1>4. ASSUME NEW k \in Nat
      PROVE  F[k] = IF k = 0 THEN h.bins[i] ELSE next(h, F[k - 1])
  <2>1. CASE k = 0
    BY <1>2, <2>1 DEF IsList
  <2>2. CASE k # 0 /\ k - 1 < n
    <3>1. k \in 1 .. n /\ F[k - 1] = s[k]
      BY <1>2, <2>2
    <3>2. next(h, s[k]) = IF k = n THEN 0 ELSE s[k + 1]
      BY <3>1 DEF IsList
    <3> QED
      BY <1>2, <2>2, <3>1, <3>2
  <2>3. CASE k # 0 /\ ~ (k - 1 < n)
    <3>1. F[k - 1] = 0 /\ F[k] = 0
      BY <1>2, <2>3
    <3> QED
      BY <1>3, <2>3, <3>1
  <2> QED
    BY <2>1, <2>2, <2>3
<1>5. P(F)
  <2>1. F = [k \in Nat |-> F[k]]
    OBVIOUS
  <2> HIDE DEF F
  <2> QED
    BY <1>4, <2>1
<1>6. PICK node : node = Node
  OBVIOUS
<1>7. P(node)
  <2> HIDE DEF P, F
  <2> QED
    BY <1>5, <1>6
<1>8. \A k \in Nat : node[k] = IF k = 0 THEN h.bins[i] ELSE next(h, node[k - 1])
  BY <1>7
<1> HIDE DEF P, F
<1>9. \A k \in Nat : node[k] = F[k]
  <2> DEFINE B == {k \in Nat : node[k] # F[k]}
  <2>1. ASSUME B # {} PROVE FALSE
    <3>1. PICK k \in B : \A j \in B : k <= j
      BY <2>1, LeastNat
    <3>2. k # 0
      BY <1>4, <1>8, <3>1
    <3>3. k - 1 \in Nat /\ k - 1 \notin B
      BY <3>1, <3>2
    <3>4. node[k] = F[k]
      BY <1>4, <1>8, <3>1, <3>2, <3>3
    <3> QED
      BY <3>1, <3>4
  <2> QED
    BY <2>1
<1>10. /\ \A k \in 1 .. n : F[k - 1] = s[k] /\ F[k - 1] # 0
       /\ F[n] = 0
  <2>1. ASSUME NEW k \in 1 .. n PROVE F[k - 1] = s[k] /\ F[k - 1] # 0
    <3>1. s[k] \in S /\ k - 1 \in Nat
      BY <1>2
    <3>2. F[k - 1] = s[k]
      BY <1>2, <3>1 DEF F
    <3> QED
      BY <3>1, <3>2, HeaderWords
  <2> QED
    BY <1>2, <2>1 DEF F
<1>11. Q(n)
  BY <1>2, <1>6, <1>9, <1>10 DEF NULL
<1>12. \A m \in 0 .. MaxBlocks : Q(m) => m = n
  <2> SUFFICES ASSUME NEW m \in 0 .. MaxBlocks, Q(m) PROVE m = n
    OBVIOUS
  <2>1. ~ (m < n)
    <3>1. ASSUME m < n PROVE FALSE
      <4>1. m + 1 \in 1 .. n /\ (m + 1) - 1 = m /\ m \in Nat
        BY <1>2, <3>1
      <4>2. node[m] # 0
        BY <1>9, <1>10, <4>1
      <4> QED
        BY <1>6, <4>2 DEF NULL
    <3> QED
      BY <3>1
  <2>2. ~ (n < m)
    <3>1. ASSUME n < m PROVE FALSE
      <4>1. n \in 0 .. m - 1
        BY <1>2, <3>1
      <4>2. node[n] = 0
        BY <1>2, <1>9, <1>10
      <4> QED
        BY <1>6, <4>1, <4>2 DEF NULL
    <3> QED
      BY <3>1
  <2> QED
    BY <1>2, <2>1, <2>2
<1>13. (CHOOSE m \in 0 .. MaxBlocks : Q(m)) = n
  <2>1. n \in 0 .. MaxBlocks
    BY <1>2
  <2> HIDE DEF Q, n
  <2> QED
    BY <1>11, <1>12, <2>1
<1>14. Bin(h, i) = [k \in 1 .. n |-> node[k - 1]]
  <2> HIDE DEF Q, n, Node
  <2> QED
    BY <1>1, <1>6, <1>13
<1>15. \A k \in 1 .. n : node[k - 1] = s[k]
  BY <1>2, <1>9, <1>10
<1>16. s = [k \in 1 .. n |-> s[k]]
  OBVIOUS
<1> QED
  BY <1>14, <1>15, <1>16

-----------------------------------------------------------------------------
(* A block goes into a list.                                               *)

\* The sequence s with b at place p.
WithBlock(s, p, b) ==
    [k \in 1 .. Len(s) + 1 |-> IF k < p THEN s[k] ELSE IF k = p THEN b ELSE s[k - 1]]

\* Where the members of s are in the longer sequence t.
Inserted(S, s, p, b, t) ==
    /\ t \in Seq(S) /\ Len(t) = Len(s) + 1
    /\ t[p] = b
    /\ \A k \in 1 .. p - 1 : t[k] = s[k]
    /\ \A k \in p + 1 .. Len(s) + 1 : t[k] = s[k - 1]

\* The members of the longer sequence.
LEMMA WithBlockIs ==
    ASSUME NEW S, NEW s \in Seq(S), NEW b \in S, NEW p \in 1 .. Len(s) + 1,
           NEW t, t = WithBlock(s, p, b)
    PROVE  Inserted(S, s, p, b, t)
<1>1. Len(s) \in Nat /\ \A k \in 1 .. Len(s) : s[k] \in S
  OBVIOUS
<1>2. PICK n \in Nat : n = Len(s)
  BY <1>1
<1>3. t = [k \in 1 .. n + 1 |-> IF k < p THEN s[k] ELSE IF k = p THEN b ELSE s[k - 1]]
  BY <1>2 DEF WithBlock
<1>4. \A k \in 1 .. n + 1 : t[k] \in S
  BY <1>1, <1>2, <1>3
<1>5. t \in [1 .. n + 1 -> S]
  BY <1>3, <1>4
<1>6. t \in Seq(S) /\ Len(t) = n + 1
  BY <1>2, <1>5
<1> QED
  BY <1>2, <1>3, <1>6 DEF Inserted

\* The links of g make b the block at place p of the list s of bin i in h.
LinkedAt(h, g, S, i, s, p, b) ==
    /\ p \in 1 .. Len(s) + 1
    /\ g.bins[i] = IF p = 1 THEN b ELSE h.bins[i]
    /\ \A j \in 0 .. 8 \ {i} : g.bins[j] = h.bins[j]
    /\ IsHeap(g) /\ OnlyLinks(h, g, S)
    /\ \A x \in S : next(g, x) = IF x = b THEN IF p = Len(s) + 1 THEN 0 ELSE s[p]
                                 ELSE IF p > 1 /\ x = s[p - 1] THEN b ELSE next(h, x)
    /\ \A x \in S : prev(g, x) = IF x = b THEN IF p = 1 THEN 0 ELSE s[p - 1]
                                 ELSE IF p <= Len(s) /\ x = s[p] THEN b ELSE prev(h, x)

\* If the links and the head are those of LinkedAt, the list is s with b in it.
LEMMA LinkedIn ==
    ASSUME NEW S, NEW h, NEW i \in 0 .. 8, NEW s \in Seq(S), IsList(h, i, s),
           NEW b \in S, \A k \in 1 .. Len(s) : s[k] # b,
           NEW p, NEW g, LinkedAt(h, g, S, i, s, p, b)
    PROVE  IsList(g, i, WithBlock(s, p, b))
<1> SUFFICES ASSUME NEW t, t = WithBlock(s, p, b),
                    p \in 1 .. Len(s) + 1,
                    g.bins[i] = IF p = 1 THEN b ELSE h.bins[i],
                    \A x \in S : next(g, x) = IF x = b THEN IF p = Len(s) + 1 THEN 0 ELSE s[p]
                                              ELSE IF p > 1 /\ x = s[p - 1] THEN b ELSE next(h, x),
                    \A x \in S : prev(g, x) = IF x = b THEN IF p = 1 THEN 0 ELSE s[p - 1]
                                              ELSE IF p <= Len(s) /\ x = s[p] THEN b ELSE prev(h, x)
             PROVE  IsList(g, i, t)
  BY DEF LinkedAt
<1>1. PICK n \in Nat : n = Len(s)
  OBVIOUS
<1>2. \A k \in 1 .. n : s[k] \in S /\ s[k] # b
  BY <1>1
<1>3. /\ Len(t) = n + 1
      /\ t[p] = b
      /\ \A k \in 1 .. p - 1 : t[k] = s[k]
      /\ \A k \in p + 1 .. n + 1 : t[k] = s[k - 1]
  <2>1. Inserted(S, s, p, b, t)
    BY WithBlockIs
  <2> QED
    BY <1>1, <2>1 DEF Inserted
<1>4. \A k, l \in 1 .. n : s[k] = s[l] => k = l
  BY <1>1 DEF IsList
<1>5. ASSUME NEW k \in 1 .. n + 1, NEW l \in 1 .. n + 1, t[k] = t[l] PROVE k = l
  <2>1. k = p <=> t[k] = b
    BY <1>1, <1>2, <1>3
  <2>2. l = p <=> t[l] = b
    BY <1>1, <1>2, <1>3
  <2>3. CASE k # p /\ l # p
    <3>1. PICK u \in 1 .. n : t[k] = s[u] /\ (IF k < p THEN u = k ELSE u = k - 1)
      BY <1>1, <1>3, <2>3
    <3>2. PICK v \in 1 .. n : t[l] = s[v] /\ (IF l < p THEN v = l ELSE v = l - 1)
      BY <1>1, <1>3, <2>3
    <3>3. u = v
      BY <1>4, <1>5, <3>1, <3>2
    <3> QED
      BY <1>1, <2>3, <3>1, <3>2, <3>3
  <2> QED
    BY <1>5, <2>1, <2>2, <2>3
<1>6. g.bins[i] = IF Len(t) = 0 THEN 0 ELSE t[1]
  <2>1. CASE p = 1
    BY <1>3, <2>1
  <2>2. CASE p # 1
    <3>1. t[1] = s[1] /\ n # 0
      BY <1>1, <1>3, <2>2
    <3>2. h.bins[i] = s[1]
      BY <1>1, <3>1 DEF IsList
    <3> QED
      BY <1>3, <2>2, <3>1, <3>2
  <2> QED
    BY <2>1, <2>2
<1>7. ASSUME NEW k \in 1 .. n + 1
      PROVE  next(g, t[k]) = IF k = n + 1 THEN 0 ELSE t[k + 1]
  <2>1. CASE k = p
    BY <1>1, <1>3, <2>1
  <2>2. CASE k < p - 1
    <3>1. k \in 1 .. n /\ t[k] = s[k] /\ t[k + 1] = s[k + 1] /\ k # n /\ k # n + 1 /\ p > 1 /\ p - 1 \in 1 .. n
      BY <1>1, <1>3, <2>2
    <3>2. s[k] # b /\ s[k] # s[p - 1] /\ s[k] \in S
      BY <1>2, <1>4, <2>2, <3>1
    <3>3. next(h, s[k]) = s[k + 1]
      BY <1>1, <3>1 DEF IsList
    <3> QED
      BY <3>1, <3>2, <3>3
  <2>3. CASE k = p - 1
    <3>1. k \in 1 .. n /\ t[k] = s[k] /\ t[k + 1] = b /\ k # n + 1 /\ p > 1
      BY <1>1, <1>3, <2>3
    <3>2. s[k] # b /\ s[k] \in S
      BY <1>2, <3>1
    <3> QED
      BY <2>3, <3>1, <3>2
  <2>4. CASE k > p
    <3>1. k - 1 \in 1 .. n /\ t[k] = s[k - 1] /\ (k # n + 1 => t[k + 1] = s[k] /\ k - 1 # n) /\ (k = n + 1 => k - 1 = n)
      BY <1>1, <1>3, <2>4
    <3>2. s[k - 1] # b /\ s[k - 1] \in S /\ ~ (p > 1 /\ s[k - 1] = s[p - 1])
      <4>1. p > 1 => p - 1 \in 1 .. n /\ k - 1 # p - 1
        BY <1>1, <2>4
      <4> QED
        BY <1>2, <1>4, <3>1, <4>1
    <3>3. next(h, s[k - 1]) = IF k - 1 = n THEN 0 ELSE s[k]
      <4>1. \A j \in 1 .. n : next(h, s[j]) = IF j = n THEN 0 ELSE s[j + 1]
        BY ONLY IsList(h, i, s), <1>1 DEF IsList
      <4>2. PICK j \in 1 .. n : j = k - 1 /\ j + 1 = k
        BY <3>1
      <4> QED
        BY ONLY <4>1, <4>2
    <3> QED
      BY <3>1, <3>2, <3>3
  <2> QED
    BY <1>1, <2>1, <2>2, <2>3, <2>4
<1>8. ASSUME NEW k \in 2 .. n + 1
      PROVE  prev(g, t[k]) = t[k - 1]
  <2>1. CASE k = p
    BY <1>1, <1>3, <2>1
  <2>2. CASE k < p
    <3>1. k \in 2 .. n /\ k \in 1 .. n /\ t[k] = s[k] /\ t[k - 1] = s[k - 1]
      BY <1>1, <1>3, <2>2
    <3>2. s[k] # b /\ s[k] \in S /\ ~ (p <= n /\ s[k] = s[p])
      BY <1>1, <1>2, <1>4, <2>2, <3>1
    <3>3. prev(h, s[k]) = s[k - 1]
      BY <1>1, <3>1 DEF IsList
    <3> QED
      BY <1>1, <3>1, <3>2, <3>3
  <2>3. CASE k = p + 1
    <3>1. p \in 1 .. n /\ t[k] = s[p] /\ t[k - 1] = b
      BY <1>1, <1>3, <2>3
    <3>2. s[p] # b /\ s[p] \in S
      BY <1>2, <3>1
    <3> QED
      BY <1>1, <3>1, <3>2
  <2>4. CASE k > p + 1
    <3>1. k - 1 \in 2 .. n /\ k - 1 \in 1 .. n /\ t[k] = s[k - 1] /\ t[k - 1] = s[k - 2] /\ p \in 1 .. n
          /\ (k - 1) - 1 = k - 2
      BY <1>1, <1>3, <2>4
    <3>2. s[k - 1] # b /\ s[k - 1] \in S /\ s[k - 1] # s[p]
      BY <1>2, <1>4, <2>4, <3>1
    <3>3. prev(h, s[k - 1]) = s[k - 2]
      BY <1>1, <3>1 DEF IsList
    <3> QED
      BY <1>1, <3>1, <3>2, <3>3
  <2> QED
    BY <1>1, <2>1, <2>2, <2>3, <2>4
<1> QED
  BY <1>3, <1>5, <1>6, <1>7, <1>8 DEF IsList

\* The first place of s whose block is larger than b, 0 if there is none.
Place(h, s, b) == First({k \in DOMAIN s : size(h, s[k]) > size(h, b)})

\* The place found by the walk of add_block_sorted is the one behind the blocks
\* that are not larger.
LEMMA PlaceIs ==
    ASSUME NEW h, IsHeap(h), NEW S, NEW s \in Seq(S), NEW n \in Nat, Len(s) = n, NEW b,
           NEW pos, pos = Place(h, s, b)
    PROVE  \/ pos = 0 /\ \A k \in 1 .. n : size(h, s[k]) <= size(h, b)
           \/ /\ pos \in 1 .. n
              /\ size(h, s[pos]) > size(h, b)
              /\ \A k \in 1 .. pos - 1 : size(h, s[k]) <= size(h, b)
<1> DEFINE I == {k \in 1 .. n : size(h, s[k]) > size(h, b)}
<1>1. pos = IF I # {} THEN Min(I) ELSE 0
  <2>1. DOMAIN s = 1 .. n
    OBVIOUS
  <2>2. pos = First(I)
    BY <2>1 DEF Place
  <2> QED
    BY <2>2 DEF First
<1>2. \A x : size(h, x) \in Nat
  BY LoadType DEF size
<1>3. CASE I = {}
  BY <1>1, <1>2, <1>3
<1>4. CASE I # {}
  <2>1. I \in SUBSET Nat
    OBVIOUS
  <2>2. PICK m \in I : \A k \in I : m <= k
    BY <1>4, <2>1, LeastNat
  <2>3. Min(I) \in I /\ \A k \in I : Min(I) <= k
    BY <2>2 DEF Min
  <2>4. pos \in I /\ \A k \in I : pos <= k
    BY <1>1, <1>4, <2>3
  <2>5. \A k \in 1 .. pos - 1 : k \notin I /\ k \in 1 .. n
    BY <2>4
  <2> QED
    BY <1>2, <2>4, <2>5
<1> QED
  BY <1>3, <1>4

\* The stores that link b behind the last block e, before the first one, and
\* between d and e.
LEMMA LinkLast ==
    ASSUME NEW S, Apart(S), NEW h, IsHeap(h), NEW e \in S, NEW b \in S, e # b,
           NEW g, g = SetPrev(SetNext(h, e, b), b, e)
    PROVE  /\ IsHeap(g) /\ g.bins = h.bins /\ OnlyLinks(h, g, S)
           /\ \A x \in S : next(g, x) = (IF x = e THEN b ELSE next(h, x))
           /\ \A x \in S : prev(g, x) = (IF x = b THEN e ELSE prev(h, x))
<1>1. PICK h1 : h1 = SetNext(h, e, b)
  OBVIOUS
<1>2. NextSet(h, h1, S, e, b)
  BY <1>1, SetNextLinks
<1>3. IsHeap(h1) /\ g = SetPrev(h1, b, e)
  BY <1>1, <1>2 DEF NextSet
<1>4. PrevSet(h1, g, S, b, e)
  BY <1>3, SetPrevLinks
<1>5. OnlyLinks(h, g, S)
  BY <1>2, <1>4, OnlyLinksTrans DEF NextSet, PrevSet
<1> QED
  BY <1>2, <1>4, <1>5 DEF NextSet, PrevSet

\* What makes b the head of bin i, in front of e.
FirstLinked(h, g, S, i, b, e) ==
    /\ IsHeap(g) /\ g.bins = [h.bins EXCEPT ![i] = b] /\ OnlyLinks(h, g, S)
    /\ \A x \in S : next(g, x) = (IF x = b THEN e ELSE next(h, x))
    /\ \A x \in S : prev(g, x) = (IF x = e THEN b ELSE prev(h, x))

\* The stores of add_block_sorted that put b in front of the first block e.
LEMMA LinkFirst ==
    ASSUME NEW S, Apart(S), NEW h, IsHeap(h), NEW e \in S, NEW b \in S, e # b,
           NEW i \in 0 .. 8,
           NEW g, g = SetHead(SetPrev(SetNext(h, b, e), e, b), i, b)
    PROVE  FirstLinked(h, g, S, i, b, e)
<1>1. PICK h1, h2 : h1 = SetNext(h, b, e) /\ h2 = SetPrev(h1, e, b)
  OBVIOUS
<1>2. NextSet(h, h1, S, b, e)
  BY <1>1, SetNextLinks
<1>3. IsHeap(h1)
  BY <1>2 DEF NextSet
<1>4. PrevSet(h1, h2, S, e, b)
  BY <1>1, <1>3, SetPrevLinks
<1>5. b \in Nat /\ g = SetHead(h2, i, b) /\ IsHeap(h2)
  BY <1>1, <1>4, HeaderWords DEF PrevSet
<1>6. HeadSet(h2, g, i, b)
  BY <1>5, HeadLinks
<1>7. \A x \in S : next(g, x) = next(h2, x) /\ prev(g, x) = prev(h2, x)
  BY <1>6 DEF next, prev, HeadSet
<1>8. OnlyLinks(h, g, S)
  BY <1>2, <1>4, <1>6 DEF OnlyLinks, NextSet, PrevSet, HeadSet
<1> QED
  BY <1>2, <1>4, <1>6, <1>7, <1>8 DEF NextSet, PrevSet, HeadSet, FirstLinked

\* The stores of add_block_sorted that put b between its neighbours d and e.
LEMMA LinkBetween ==
    ASSUME NEW S, Apart(S), NEW h, IsHeap(h),
           NEW d \in S, NEW e \in S, NEW b \in S, e # b, d # b, d # e,
           NEW g, g = SetPrev(SetPrev(SetNext(SetNext(h, b, e), d, b), b, d), e, b)
    PROVE  /\ IsHeap(g) /\ g.bins = h.bins /\ OnlyLinks(h, g, S)
           /\ \A x \in S : next(g, x) = (IF x = b THEN e ELSE IF x = d THEN b ELSE next(h, x))
           /\ \A x \in S : prev(g, x) = (IF x = b THEN d ELSE IF x = e THEN b ELSE prev(h, x))
<1>1. PICK h1, h2, h3 : /\ h1 = SetNext(h, b, e) /\ h2 = SetNext(h1, d, b)
                        /\ h3 = SetPrev(h2, b, d) /\ g = SetPrev(h3, e, b)
  OBVIOUS
<1>2. NextSet(h, h1, S, b, e)
  BY <1>1, SetNextLinks
<1>3. IsHeap(h1)
  BY <1>2 DEF NextSet
<1>4. NextSet(h1, h2, S, d, b)
  BY <1>1, <1>3, SetNextLinks
<1>5. IsHeap(h2)
  BY <1>4 DEF NextSet
<1>6. PrevSet(h2, h3, S, b, d)
  BY <1>1, <1>5, SetPrevLinks
<1>7. IsHeap(h3)
  BY <1>6 DEF PrevSet
<1>8. PrevSet(h3, g, S, e, b)
  BY <1>1, <1>7, SetPrevLinks
<1>9. OnlyLinks(h, g, S)
  BY <1>2, <1>4, <1>6, <1>8 DEF OnlyLinks, NextSet, PrevSet
<1>10. \A x \in S : next(g, x) = (IF x = b THEN e ELSE IF x = d THEN b ELSE next(h, x))
  BY <1>2, <1>4, <1>6, <1>8 DEF NextSet, PrevSet
<1>11. \A x \in S : prev(g, x) = (IF x = b THEN d ELSE IF x = e THEN b ELSE prev(h, x))
  BY <1>2, <1>4, <1>6, <1>8 DEF NextSet, PrevSet
<1>12. IsHeap(g) /\ g.bins = h.bins
  BY <1>2, <1>4, <1>6, <1>8 DEF NextSet, PrevSet
<1> QED
  BY <1>9, <1>10, <1>11, <1>12

\* In an empty bin, at its head, between two blocks or at its end:
\* add_block_sorted links the block where the walk stopped.
LEMMA LinkedAtCases ==
    ASSUME NEW S, Apart(S), NEW h, IsHeap(h), NEW i \in 0 .. 8,
           NEW s \in Seq(S), IsList(h, i, s),
           NEW b \in S, \A k \in 1 .. Len(s) : s[k] # b, next(h, b) = 0, prev(h, b) = 0,
           NEW pos \in 0 .. Len(s), Bin(h, i) = s,
           NEW g, g = LinkAt(h, i, s, pos, b)
    PROVE  LinkedAt(h, g, S, i, s, IF pos = 0 THEN Len(s) + 1 ELSE pos, b)
<1>1. PICK n \in Nat : n = Len(s)
  OBVIOUS
<1>2. \A k \in 1 .. n : s[k] \in S /\ s[k] # b
  BY <1>1
<1>3. h.bins[i] = IF n = 0 THEN 0 ELSE s[1]
  BY <1>1 DEF IsList
<1>4. h.bins \in [0 .. 8 -> Nat] /\ b \in Nat
  BY HeaderWords DEF IsHeap, BIN_CNT
<1>5. CASE n = 0
  <2>1. s = <<>> /\ pos = 0
    <3>1. s # <<>> => Len(s) \in Nat \ {0}
      BY EmptySeq
    <3> QED
      BY <1>1, <1>5, <3>1
  <2>2. g = SetHead(h, i, b)
    BY <2>1 DEF LinkAt
  <2>3. HeadSet(h, g, i, b)
    BY <1>4, <2>2, HeadLinks
  <2>4. \A x \in S : next(g, x) = next(h, x) /\ prev(g, x) = prev(h, x)
    BY <2>3 DEF next, prev, HeadSet
  <2>5. IsHeap(g) /\ OnlyLinks(h, g, S) /\ g.bins = [h.bins EXCEPT ![i] = b]
    BY <2>3 DEF OnlyLinks, HeadSet
  <2>6. g.bins[i] = b /\ \A j \in 0 .. 8 \ {i} : g.bins[j] = h.bins[j]
    BY <1>4, <2>5
  <2>7. LinkedAt(h, g, S, i, s, 1, b)
    BY <1>1, <1>5, <2>4, <2>5, <2>6 DEF LinkedAt
  <2> QED
    BY <1>1, <1>5, <2>1, <2>7
<1>6. CASE n # 0 /\ pos = 0
  <2>1. PICK e \in S : e = s[n] /\ e # b
    BY <1>2, <1>6
  <2>2. s # <<>>
    BY <1>1, <1>6
  <2>3. g = SetPrev(SetNext(h, e, b), b, e)
    BY <1>1, <1>6, <2>1, <2>2 DEF LinkAt, Last
  <2>4. /\ IsHeap(g) /\ g.bins = h.bins /\ OnlyLinks(h, g, S)
        /\ \A x \in S : next(g, x) = (IF x = e THEN b ELSE next(h, x))
        /\ \A x \in S : prev(g, x) = (IF x = b THEN e ELSE prev(h, x))
    BY <2>1, <2>3, LinkLast
  <2>5. n + 1 \in 1 .. n + 1 /\ n + 1 > 1 /\ (n + 1) - 1 = n /\ ~ (n + 1 <= n) /\ n + 1 # 1
    BY <1>6
  <2>6. LinkedAt(h, g, S, i, s, n + 1, b)
    BY <1>1, <2>1, <2>4, <2>5 DEF LinkedAt
  <2> QED
    BY <1>1, <1>6, <2>6
<1>7. CASE n # 0 /\ pos = 1
  <2>1. PICK e \in S : e = s[1] /\ e # b
    BY <1>2, <1>7
  <2>2. s # <<>>
    BY <1>1, <1>7
  <2>3. g = SetHead(SetPrev(SetNext(h, b, e), e, b), i, b)
    BY <1>3, <1>7, <2>1, <2>2 DEF LinkAt
  <2>4. FirstLinked(h, g, S, i, b, e)
    BY <2>1, <2>3, LinkFirst
  <2>5. 1 \in 1 .. n + 1 /\ 1 # n + 1 /\ ~ (1 > 1) /\ 1 <= n
    BY <1>7
  <2>6. g.bins[i] = b /\ \A j \in 0 .. 8 \ {i} : g.bins[j] = h.bins[j]
    BY <1>4, <2>4 DEF FirstLinked
  <2>7. LinkedAt(h, g, S, i, s, 1, b)
    BY <1>1, <2>1, <2>4, <2>5, <2>6 DEF LinkedAt, FirstLinked
  <2> QED
    BY <1>7, <2>7
<1>8. CASE n # 0 /\ pos \in 2 .. n
  <2>1. /\ pos \in 1 .. n /\ pos - 1 \in 1 .. n /\ pos # 0 /\ pos # 1 /\ pos > 1
        /\ pos \in 1 .. n + 1 /\ pos # n + 1 /\ pos <= n
    BY <1>8
  <2>2. PICK e \in S, d \in S : e = s[pos] /\ d = s[pos - 1] /\ e # b /\ d # b
    BY <1>2, <2>1
  <2>3. e # d
    BY <1>1, <2>1, <2>2 DEF IsList
  <2>4. s # <<>>
    BY <1>1, <1>8
  <2>5. g = SetPrev(SetPrev(SetNext(SetNext(h, b, e), d, b), b, d), e, b)
    BY <2>1, <2>2, <2>4 DEF LinkAt
  <2>6. /\ IsHeap(g) /\ g.bins = h.bins /\ OnlyLinks(h, g, S)
        /\ \A x \in S : next(g, x) = (IF x = b THEN e ELSE IF x = d THEN b ELSE next(h, x))
        /\ \A x \in S : prev(g, x) = (IF x = b THEN d ELSE IF x = e THEN b ELSE prev(h, x))
    BY <2>2, <2>3, <2>5, LinkBetween
  <2>7. LinkedAt(h, g, S, i, s, pos, b)
    BY <1>1, <2>1, <2>2, <2>6 DEF LinkedAt
  <2> QED
    BY <2>1, <2>7
<1> QED
  BY <1>1, <1>5, <1>6, <1>7, <1>8

\* Block b is at place p of the list of bin i in g, with the list s of h around
\* it, smaller blocks and blocks of its size before it, larger ones behind it.
Added(h, g, S, i, s, p, b) ==
    /\ IsList(g, i, WithBlock(s, p, b))
    /\ \A k \in 1 .. p - 1 : size(h, s[k]) <= size(h, b)
    /\ p <= Len(s) => size(h, s[p]) > size(h, b)
    /\ IsHeap(g) /\ OnlyLinks(h, g, S)
    /\ \A j \in 0 .. 8 \ {i} : g.bins[j] = h.bins[j]

\* add_block_sorted puts the block behind those that are not larger.
LEMMA AddEffect ==
    ASSUME NEW S, Apart(S), NEW h0, IsHeap(h0), NEW i \in 0 .. 8,
           NEW s \in Seq(S), IsList(h0, i, s),
           NEW b \in S, \A k \in 1 .. Len(s) : s[k] # b,
           NEW g, g = add_block_sorted(h0, i, b)
    PROVE  \E p \in 1 .. Len(s) + 1 : Added(h0, g, S, i, s, p, b)
<1>1. PICK n \in Nat : n = Len(s)
  OBVIOUS
<1>2. \A k \in 1 .. n : s[k] \in S /\ s[k] # b
  BY <1>1
<1>3. PICK h : h = ClearLinks(h0, b)
  OBVIOUS
<1>4. LinksCleared(h0, h, S, b)
  BY <1>3, ClearLinksLinks
<1>5. IsHeap(h) /\ h.bins = h0.bins /\ next(h, b) = 0 /\ prev(h, b) = 0 /\ OnlyLinks(h0, h, S)
  BY <1>4 DEF LinksCleared
<1>6. IsList(h, i, s)
  <2>1. \A k \in 1 .. Len(s) : next(h, s[k]) = next(h0, s[k]) /\ prev(h, s[k]) = prev(h0, s[k])
    BY <1>1, <1>2, <1>4 DEF LinksCleared
  <2> QED
    BY <1>5, <2>1, ListKept
<1>7. Bin(h, i) = s
  BY <1>5, <1>6, BinIs
<1>8. \A x \in S : size(h, x) = size(h0, x)
  BY <1>5, OnlyLinksKeep
<1>9. PICK pos : pos = Place(h, s, b)
  OBVIOUS
<1>10. \/ pos = 0 /\ \A k \in 1 .. n : size(h, s[k]) <= size(h, b)
       \/ /\ pos \in 1 .. n
          /\ size(h, s[pos]) > size(h, b)
          /\ \A k \in 1 .. pos - 1 : size(h, s[k]) <= size(h, b)
  BY <1>1, <1>5, <1>9, PlaceIs
<1>11. g = LinkAt(h, i, s, pos, b)
  BY <1>3, <1>7, <1>9 DEF add_block_sorted, Place
<1>12. pos \in 0 .. Len(s)
  BY <1>1, <1>10
<1>13. PICK p : p = IF pos = 0 THEN n + 1 ELSE pos
  OBVIOUS
<1>14. LinkedAt(h, g, S, i, s, p, b)
  BY <1>1, <1>2, <1>5, <1>6, <1>7, <1>11, <1>12, <1>13, LinkedAtCases
<1>15. p \in 1 .. n + 1
  BY <1>1, <1>10, <1>13
<1>16. IsList(g, i, WithBlock(s, p, b))
  BY <1>1, <1>2, <1>6, <1>14, LinkedIn
<1>17. \A k \in 1 .. p - 1 : size(h0, s[k]) <= size(h0, b)
  BY <1>1, <1>2, <1>8, <1>10, <1>13
<1>18. p <= n => size(h0, s[p]) > size(h0, b)
  BY <1>1, <1>2, <1>8, <1>10, <1>13
<1>19. IsHeap(g) /\ OnlyLinks(h0, g, S) /\ \A j \in 0 .. 8 \ {i} : g.bins[j] = h0.bins[j]
  BY <1>5, <1>14, OnlyLinksTrans DEF LinkedAt
<1> QED
  BY <1>1, <1>15, <1>16, <1>17, <1>18, <1>19 DEF Added

-----------------------------------------------------------------------------
(* A block leaves a list.                                                  *)

\* The sequence s without its p-th block.
WithoutBlock(s, p) == [k \in 1 .. Len(s) - 1 |-> IF k < p THEN s[k] ELSE s[k + 1]]

\* The members of the shorter sequence.
LEMMA WithoutBlockIs ==
    ASSUME NEW S, NEW s \in Seq(S), NEW p \in 1 .. Len(s),
           NEW t, t = WithoutBlock(s, p)
    PROVE  /\ t \in Seq(S) /\ Len(t) = Len(s) - 1
           /\ \A k \in 1 .. p - 1 : t[k] = s[k]
           /\ \A k \in p .. Len(s) - 1 : t[k] = s[k + 1]
<1>1. PICK n \in Nat : n = Len(s)
  OBVIOUS
<1>2. \A k \in 1 .. n : s[k] \in S
  BY <1>1
<1>3. t = [k \in 1 .. n - 1 |-> IF k < p THEN s[k] ELSE s[k + 1]]
  BY <1>1 DEF WithoutBlock
<1>4. \A k \in 1 .. n - 1 : t[k] \in S
  BY <1>1, <1>2, <1>3
<1>5. n - 1 \in Nat /\ t \in [1 .. n - 1 -> S]
  BY <1>1, <1>3, <1>4
<1>6. t \in Seq(S) /\ Len(t) = n - 1
  BY <1>5
<1> QED
  BY <1>1, <1>3, <1>6

\* The links of g leave out the block at place p of the list s of bin i in h.
LinkedOut(h, g, S, i, s, p) ==
    /\ g.bins[i] = IF p = 1 THEN next(h, s[1]) ELSE h.bins[i]
    /\ \A j \in 0 .. 8 \ {i} : g.bins[j] = h.bins[j]
    /\ IsHeap(g) /\ OnlyLinks(h, g, S)
    /\ \A x \in S : x # s[p] =>
          next(g, x) = IF p > 1 /\ x = s[p - 1] THEN next(h, s[p]) ELSE next(h, x)
    /\ \A x \in S : x # s[p] =>
          prev(g, x) = IF p > 1 /\ p < Len(s) /\ x = s[p + 1] THEN s[p - 1] ELSE prev(h, x)

\* If the links and the head are those of LinkedOut, the list is s without its
\* p-th block.
LEMMA LinkedOutList ==
    ASSUME NEW S, NEW h, NEW i \in 0 .. 8, NEW s \in Seq(S), IsList(h, i, s),
           NEW p \in 1 .. Len(s), NEW g, LinkedOut(h, g, S, i, s, p)
    PROVE  IsList(g, i, WithoutBlock(s, p))
<1> SUFFICES ASSUME NEW t, t = WithoutBlock(s, p) PROVE IsList(g, i, t)
  OBVIOUS
<1>1. PICK n \in Nat : n = Len(s)
  OBVIOUS
<1>3. /\ Len(t) = n - 1
      /\ \A k \in 1 .. p - 1 : t[k] = s[k]
      /\ \A k \in p .. n - 1 : t[k] = s[k + 1]
  BY <1>1, WithoutBlockIs
<1> SUFFICES ASSUME g.bins[i] = IF p = 1 THEN next(h, s[1]) ELSE h.bins[i],
                    \A x \in S : x # s[p] =>
                        next(g, x) = IF p > 1 /\ x = s[p - 1] THEN next(h, s[p]) ELSE next(h, x),
                    \A x \in S : x # s[p] =>
                        prev(g, x) = IF p > 1 /\ p < Len(s) /\ x = s[p + 1] THEN s[p - 1]
                                     ELSE prev(h, x)
             PROVE  IsList(g, i, t)
  BY DEF LinkedOut
<1>2. \A k \in 1 .. n : s[k] \in S
  BY <1>1
<1>4. \A k, l \in 1 .. n : s[k] = s[l] => k = l
  BY <1>1 DEF IsList
<1>5. \A k \in 1 .. n : next(h, s[k]) = IF k = n THEN 0 ELSE s[k + 1]
  BY <1>1 DEF IsList
<1>6. ASSUME NEW k \in 1 .. n - 1, NEW l \in 1 .. n - 1, t[k] = t[l] PROVE k = l
  <2>1. PICK u \in 1 .. n : t[k] = s[u] /\ u # p /\ (IF k < p THEN u = k ELSE u = k + 1)
    BY <1>1, <1>3
  <2>2. PICK v \in 1 .. n : t[l] = s[v] /\ v # p /\ (IF l < p THEN v = l ELSE v = l + 1)
    BY <1>1, <1>3
  <2>3. u = v
    BY <1>4, <1>6, <2>1, <2>2
  <2> QED
    BY <1>1, <2>1, <2>2, <2>3
<1>7. g.bins[i] = IF n - 1 = 0 THEN 0 ELSE t[1]
  <2>1. CASE p = 1
    BY <1>1, <1>3, <1>5, <2>1
  <2>2. CASE p # 1
    <3>1. t[1] = s[1] /\ n - 1 # 0 /\ n # 0
      BY <1>1, <1>3, <2>2
    <3>2. h.bins[i] = s[1]
      BY <1>1, <3>1 DEF IsList
    <3> QED
      BY <2>2, <3>1, <3>2
  <2> QED
    BY <2>1, <2>2
<1>8. ASSUME NEW k \in 1 .. n - 1
      PROVE  next(g, t[k]) = IF k = n - 1 THEN 0 ELSE t[k + 1]
  <2>1. CASE k < p - 1
    <3>1. /\ k \in 1 .. n /\ k # n /\ k # n - 1 /\ p > 1 /\ p - 1 \in 1 .. n /\ p \in 1 .. n
          /\ t[k] = s[k] /\ t[k + 1] = s[k + 1]
      BY <1>1, <1>3, <2>1
    <3>2. s[k] \in S /\ s[k] # s[p] /\ s[k] # s[p - 1]
      BY <1>2, <1>4, <2>1, <3>1
    <3> QED
      BY <1>5, <3>1, <3>2
  <2>2. CASE k = p - 1
    <3>1. /\ k \in 1 .. n /\ p > 1 /\ p \in 1 .. n /\ t[k] = s[k]
          /\ (k # n - 1 => t[k + 1] = s[p + 1]) /\ (p = n <=> k = n - 1)
      BY <1>1, <1>3, <2>2
    <3>2. s[k] \in S /\ s[k] # s[p]
      BY <1>2, <1>4, <2>2, <3>1
    <3> QED
      BY <1>5, <2>2, <3>1, <3>2
  <2>3. CASE k >= p
    <3>1. /\ k + 1 \in 1 .. n /\ p \in 1 .. n /\ (p > 1 => p - 1 \in 1 .. n)
          /\ t[k] = s[k + 1] /\ (k # n - 1 => t[k + 1] = s[(k + 1) + 1])
          /\ (k + 1 = n <=> k = n - 1)
      BY <1>1, <1>3, <2>3
    <3>2. s[k + 1] \in S /\ s[k + 1] # s[p] /\ ~ (p > 1 /\ s[k + 1] = s[p - 1])
      BY <1>2, <1>4, <2>3, <3>1
    <3>3. next(h, s[k + 1]) = IF k + 1 = n THEN 0 ELSE s[(k + 1) + 1]
      BY <1>5, <3>1
    <3> QED
      BY <3>1, <3>2, <3>3
  <2> QED
    BY <1>1, <2>1, <2>2, <2>3
<1>9. ASSUME NEW k \in 2 .. n - 1
      PROVE  prev(g, t[k]) = t[k - 1]
  <2>1. CASE k < p
    <3>1. /\ k \in 2 .. n /\ k \in 1 .. n /\ p \in 1 .. n /\ t[k] = s[k] /\ t[k - 1] = s[k - 1]
      BY <1>1, <1>3, <2>1
    <3>2. s[k] \in S /\ s[k] # s[p] /\ ~ (p < n /\ s[k] = s[p + 1])
      BY <1>1, <1>2, <1>4, <2>1, <3>1
    <3>3. prev(h, s[k]) = s[k - 1]
      BY <1>1, <3>1 DEF IsList
    <3> QED
      BY <1>1, <3>1, <3>2, <3>3
  <2>2. CASE k = p
    <3>1. /\ p \in 1 .. n /\ p + 1 \in 1 .. n /\ p > 1 /\ p < n /\ t[k] = s[p + 1] /\ t[k - 1] = s[p - 1]
      BY <1>1, <1>3, <2>2
    <3>2. s[p + 1] \in S /\ s[p + 1] # s[p]
      BY <1>2, <1>4, <3>1
    <3> QED
      BY <1>1, <3>1, <3>2
  <2>3. CASE k > p
    <3>1. /\ p \in 1 .. n /\ k + 1 \in 2 .. n /\ k + 1 \in 1 .. n /\ (k + 1) - 1 = k
          /\ t[k] = s[k + 1] /\ t[k - 1] = s[k]
      BY <1>1, <1>3, <2>3
    <3>2. s[k + 1] \in S /\ s[k + 1] # s[p] /\ ~ (p < n /\ s[k + 1] = s[p + 1])
      BY <1>1, <1>2, <1>4, <2>3, <3>1
    <3>3. prev(h, s[k + 1]) = s[k]
      BY <1>1, <3>1 DEF IsList
    <3> QED
      BY <1>1, <3>1, <3>2, <3>3
  <2> QED
    BY <1>1, <2>1, <2>2, <2>3
<1> QED
  BY <1>3, <1>6, <1>7, <1>8, <1>9 DEF IsList

\* The block at place p of the list of bin i is out of it in g.
Removed(h, g, S, i, s, p) ==
    /\ IsList(g, i, WithoutBlock(s, p))
    /\ IsHeap(g) /\ OnlyLinks(h, g, S)
    /\ \A j \in 0 .. 8 \ {i} : g.bins[j] = h.bins[j]

\* remove_block takes the block out of the list it is in.
LEMMA RemoveEffect ==
    ASSUME NEW S, Apart(S), NEW h, IsHeap(h), NEW i \in 0 .. 8,
           NEW s \in Seq(S), IsList(h, i, s), NEW p \in 1 .. Len(s),
           NEW b, b = s[p], NEW g, g = remove_block(h, i, b)
    PROVE  Removed(h, g, S, i, s, p)
<1>1. PICK n \in Nat : n = Len(s)
  OBVIOUS
<1>2. \A k \in 1 .. n : s[k] \in S /\ s[k] # 0
  BY <1>1, HeaderWords
<1>3. b \in S /\ b # 0 /\ p \in 1 .. n /\ n # 0
  BY <1>1, <1>2
<1>4. \A k, l \in 1 .. n : s[k] = s[l] => k = l
  BY <1>1 DEF IsList
<1>5. h.bins[i] = s[1]
  BY <1>1, <1>3 DEF IsList
<1>6. next(h, b) = IF p = n THEN 0 ELSE s[p + 1]
  BY <1>1 DEF IsList
<1>7. p # 1 => prev(h, b) = s[p - 1]
  BY <1>1, <1>3 DEF IsList
<1>8. h.bins \in [0 .. 8 -> Nat]
  BY DEF IsHeap, BIN_CNT
<1>9. SUFFICES LinkedOut(h, g, S, i, s, p)
  <2>1. IsList(g, i, WithoutBlock(s, p))
    BY <1>9, LinkedOutList
  <2> QED
    BY <1>9, <2>1 DEF LinkedOut, Removed
<1>10. CASE p = 1
  <2>1. PICK v : v = next(h, b)
    OBVIOUS
  <2>2. g = ClearLinks(SetHead(h, i, v), b)
    BY <1>2, <1>3, <1>5, <1>10, <2>1 DEF remove_block, NULL
  <2>3. PICK h1 : h1 = SetHead(h, i, v)
    OBVIOUS
  <2>4. v \in Nat
    BY <2>1, LoadType DEF next
  <2>5. HeadSet(h, h1, i, v)
    BY <2>3, <2>4, HeadLinks
  <2>6. IsHeap(h1) /\ g = ClearLinks(h1, b)
    BY <2>2, <2>3, <2>5 DEF HeadSet
  <2>7. LinksCleared(h1, g, S, b)
    BY <1>3, <2>6, ClearLinksLinks
  <2>8. \A x \in S : next(h1, x) = next(h, x) /\ prev(h1, x) = prev(h, x)
    BY <2>5 DEF next, prev, HeadSet
  <2>9. OnlyLinks(h, g, S)
    BY <2>5, <2>7 DEF OnlyLinks, HeadSet, LinksCleared
  <2>10. g.bins[i] = v /\ \A j \in 0 .. 8 \ {i} : g.bins[j] = h.bins[j]
    BY <1>8, <2>5, <2>7 DEF HeadSet, LinksCleared
  <2> QED
    BY <1>10, <2>1, <2>7, <2>8, <2>9, <2>10 DEF LinkedOut, LinksCleared
<1>11. CASE p # 1
  <2>1. p \in 2 .. n /\ p - 1 \in 1 .. n /\ p > 1
    BY <1>3, <1>11
  <2>2. PICK d \in S : d = s[p - 1] /\ d # b /\ d = prev(h, b)
    BY <1>2, <1>3, <1>4, <1>7, <1>11, <2>1
  <2>3. PICK v \in S \cup {0} : v = next(h, b) /\ v = IF p = n THEN 0 ELSE s[p + 1]
    <3>1. p # n => p + 1 \in 1 .. n
      BY <1>3
    <3> QED
      BY <1>2, <1>6, <3>1
  <2>4. v # b /\ (v # 0 => v # d)
    <3>1. CASE p = n
      BY <1>3, <2>3, <3>1
    <3>2. CASE p # n
      <4>1. p + 1 \in 1 .. n /\ p + 1 # p /\ p + 1 # p - 1 /\ v = s[p + 1]
        BY <1>3, <2>3, <3>2
      <4> QED
        BY <1>3, <1>4, <2>1, <2>2, <4>1
    <3> QED
      BY <3>1, <3>2
  <2>5. s[1] # b /\ s[1] # 0
    BY <1>2, <1>3, <1>4, <1>11
  <2>6. b \in ToSet(Bin(h, i))
    <3>1. Bin(h, i) = s
      BY BinIs
    <3> QED
      BY <1>1, <1>3, <3>1 DEF ToSet
  <2>7. g = LET k == SetNext(h, d, v)
            IN  ClearLinks(IF v = 0 THEN k ELSE SetPrev(k, v, d), b)
    BY <1>5, <2>2, <2>3, <2>5, <2>6 DEF remove_block, NULL
  <2>8. PICK h1 : h1 = SetNext(h, d, v)
    OBVIOUS
  <2>9. PICK h2 : h2 = IF v = 0 THEN h1 ELSE SetPrev(h1, v, d)
    OBVIOUS
  <2>10. g = ClearLinks(h2, b)
    BY <2>7, <2>8, <2>9
  <2>11. NextSet(h, h1, S, d, v)
    BY <2>8, SetNextLinks
  <2>12. IsHeap(h1)
    BY <2>11 DEF NextSet
  <2>13. PrevSet(h1, h2, S, v, d)
    <3>1. CASE v = 0
      <4>1. h2 = h1 /\ \A x \in S : x # v
        BY <2>9, <3>1, HeaderWords
      <4> QED
        BY <2>12, <4>1 DEF PrevSet, OnlyLinks
    <3>2. CASE v # 0
      <4>1. v \in S /\ h2 = SetPrev(h1, v, d)
        BY <2>9, <3>2
      <4> QED
        BY <2>12, <4>1, SetPrevLinks
    <3> QED
      BY <3>1, <3>2
  <2>14. IsHeap(h2)
    BY <2>13 DEF PrevSet
  <2>15. LinksCleared(h2, g, S, b)
    BY <1>3, <2>10, <2>14, ClearLinksLinks
  <2>16. OnlyLinks(h, g, S) /\ IsHeap(g) /\ g.bins = h.bins
    BY <2>11, <2>13, <2>15 DEF OnlyLinks, NextSet, PrevSet, LinksCleared
  <2>17. \A x \in S : x # b => next(g, x) = IF x = d THEN v ELSE next(h, x)
    BY <2>11, <2>13, <2>15 DEF NextSet, PrevSet, LinksCleared
  <2>18. \A x \in S : x # b => prev(g, x) = IF x = v THEN d ELSE prev(h, x)
    BY <2>11, <2>13, <2>15 DEF NextSet, PrevSet, LinksCleared
  <2>19. \A x \in S : (x = v) <=> (p < n /\ x = s[p + 1])
    <3>1. \A x \in S : x # 0
      BY HeaderWords
    <3>2. p < n <=> p # n
      BY <1>3
    <3>3. p # n => p + 1 \in 1 .. n
      BY <1>3
    <3> QED
      BY <1>2, <2>3, <3>1, <3>2, <3>3
  <2>20. \A x \in S : x # b => prev(g, x) = IF p < n /\ x = s[p + 1] THEN d ELSE prev(h, x)
    BY <2>18, <2>19
  <2> QED
    BY <1>1, <1>11, <2>1, <2>2, <2>3, <2>16, <2>17, <2>20 DEF LinkedOut
<1> QED
  BY <1>10, <1>11

-----------------------------------------------------------------------------
(* The nine bins.                                                          *)

\* The lists L are those of the bins; no block is in two of them.
Linked(h, S, L) ==
    /\ IsHeap(h) /\ Apart(S)
    /\ L \in [0 .. 8 -> Seq(S)]
    /\ \A i \in 0 .. 8 : IsList(h, i, L[i])
    /\ \A i, j \in 0 .. 8 : i # j => ToSet(L[i]) \cap ToSet(L[j]) = {}

\* The blocks s are sorted by the sizes f, and belong in bin i.
SortedList(f, s, i) ==
    /\ \A k \in 1 .. Len(s) : get_bin_index(f[s[k]]) = i
    /\ \A k, l \in 1 .. Len(s) : k < l => f[s[k]] <= f[s[l]]

Sorted(f, L) == \A i \in 0 .. 8 : SortedList(f, L[i], i)

\* The blocks in the lists L.
FreeOf(L) == UNION {ToSet(L[i]) : i \in 0 .. 8}

\* The members of a sequence, by their places.
LEMMA ToSetIs ==
    ASSUME NEW S, NEW s \in Seq(S)
    PROVE  /\ ToSet(s) \subseteq S
           /\ \A x : x \in ToSet(s) <=> \E k \in 1 .. Len(s) : x = s[k]
<1>1. DOMAIN s = 1 .. Len(s) /\ \A k \in 1 .. Len(s) : s[k] \in S
  OBVIOUS
<1> QED
  BY <1>1 DEF ToSet

\* The members of the bins, bin by bin.
LEMMA FreeOfIs ==
    ASSUME NEW S, NEW L \in [0 .. 8 -> Seq(S)]
    PROVE  /\ FreeOf(L) \subseteq S
           /\ \A x : x \in FreeOf(L) <=> \E i \in 0 .. 8 : x \in ToSet(L[i])
<1>1. \A x : x \in FreeOf(L) <=> \E i \in 0 .. 8 : x \in ToSet(L[i])
  BY DEF FreeOf
<1>2. \A i \in 0 .. 8 : ToSet(L[i]) \subseteq S
  BY ToSetIs
<1> QED
  BY <1>1, <1>2

\* One block more is in the list.
LEMMA WithBlockSet ==
    ASSUME NEW S, NEW s \in Seq(S), NEW b \in S, NEW p \in 1 .. Len(s) + 1,
           NEW t, t = WithBlock(s, p, b)
    PROVE  ToSet(t) = ToSet(s) \cup {b}
<1>1. PICK n \in Nat : n = Len(s)
  OBVIOUS
<1>2. /\ t \in Seq(S) /\ Len(t) = n + 1 /\ t[p] = b
      /\ \A k \in 1 .. p - 1 : t[k] = s[k]
      /\ \A k \in p + 1 .. n + 1 : t[k] = s[k - 1]
  <2>1. Inserted(S, s, p, b, t)
    BY WithBlockIs
  <2> QED
    BY <1>1, <2>1 DEF Inserted
<1>3. \A x : x \in ToSet(s) <=> \E k \in 1 .. n : x = s[k]
  BY <1>1, ToSetIs
<1>4. \A x : x \in ToSet(t) <=> \E k \in 1 .. n + 1 : x = t[k]
  <2>1. t \in Seq(S) /\ Len(t) = n + 1
    BY <1>2
  <2>2. \A x : x \in ToSet(t) <=> \E k \in 1 .. Len(t) : x = t[k]
    BY ONLY <2>1, ToSetIs
  <2> QED
    BY ONLY <2>1, <2>2
<1>5. ASSUME NEW x \in ToSet(t) PROVE x \in ToSet(s) \cup {b}
  <2>1. PICK k \in 1 .. n + 1 : x = t[k]
    BY <1>4
  <2>2. k \in 1 .. p - 1 \/ k = p \/ k \in p + 1 .. n + 1
    BY <1>1
  <2>3. CASE k \in 1 .. p - 1
    <3>1. k \in 1 .. n /\ x = s[k]
      BY <1>1, <1>2, <2>1, <2>3
    <3> QED
      BY <1>3, <3>1
  <2>4. CASE k \in p + 1 .. n + 1
    <3>1. k - 1 \in 1 .. n /\ x = s[k - 1]
      BY <1>1, <1>2, <2>1, <2>4
    <3> QED
      BY <1>3, <3>1
  <2> QED
    BY <1>2, <2>1, <2>2, <2>3, <2>4
<1>6. ASSUME NEW x \in ToSet(s) PROVE x \in ToSet(t)
  <2>1. PICK k \in 1 .. n : x = s[k]
    BY <1>3
  <2>2. CASE k < p
    <3>1. k \in 1 .. n + 1 /\ x = t[k]
      BY <1>1, <1>2, <2>1, <2>2
    <3> QED
      BY <1>4, <3>1
  <2>3. CASE k >= p
    <3>1. k + 1 \in 1 .. n + 1 /\ k + 1 \in p + 1 .. n + 1 /\ (k + 1) - 1 = k
      BY <1>1, <2>1, <2>3
    <3>2. x = t[k + 1]
      BY <1>2, <2>1, <3>1
    <3> QED
      BY <1>4, <3>1, <3>2
  <2> QED
    BY <1>1, <2>2, <2>3
<1>7. b \in ToSet(t)
  BY <1>1, <1>2, <1>4
<1> QED
  BY <1>5, <1>6, <1>7

\* One block less is in the list.
LEMMA WithoutBlockSet ==
    ASSUME NEW S, NEW s \in Seq(S), NEW p \in 1 .. Len(s),
           \A k, l \in 1 .. Len(s) : s[k] = s[l] => k = l,
           NEW t, t = WithoutBlock(s, p)
    PROVE  ToSet(t) = ToSet(s) \ {s[p]}
<1>1. PICK n \in Nat : n = Len(s)
  OBVIOUS
<1>2. /\ t \in Seq(S) /\ Len(t) = n - 1
      /\ \A k \in 1 .. p - 1 : t[k] = s[k]
      /\ \A k \in p .. n - 1 : t[k] = s[k + 1]
  BY <1>1, WithoutBlockIs
<1>3. \A x : x \in ToSet(s) <=> \E k \in 1 .. n : x = s[k]
  BY <1>1, ToSetIs
<1>4. \A x : x \in ToSet(t) <=> \E k \in 1 .. n - 1 : x = t[k]
  BY <1>2, ToSetIs
<1>5. ASSUME NEW x \in ToSet(t) PROVE x \in ToSet(s) \ {s[p]}
  <2>1. PICK k \in 1 .. n - 1 : x = t[k]
    BY <1>4
  <2>2. PICK u \in 1 .. n : x = s[u] /\ u # p
    <3>1. CASE k < p
      <4>1. k \in 1 .. n /\ k # p /\ x = s[k]
        BY <1>1, <1>2, <2>1, <3>1
      <4> QED
        BY <4>1
    <3>2. CASE k >= p
      <4>1. k + 1 \in 1 .. n /\ k + 1 # p /\ x = s[k + 1]
        BY <1>1, <1>2, <2>1, <3>2
      <4> QED
        BY <4>1
    <3> QED
      BY <1>1, <3>1, <3>2
  <2> QED
    BY <1>1, <1>3, <2>2
<1>6. ASSUME NEW x \in ToSet(s) \ {s[p]} PROVE x \in ToSet(t)
  <2>1. PICK k \in 1 .. n : x = s[k] /\ k # p
    BY <1>3
  <2>2. CASE k < p
    <3>1. k \in 1 .. n - 1 /\ x = t[k]
      BY <1>1, <1>2, <2>1, <2>2
    <3> QED
      BY <1>4, <3>1
  <2>3. CASE k > p
    <3>1. k - 1 \in 1 .. n - 1 /\ k - 1 \in p .. n - 1 /\ (k - 1) + 1 = k
      BY <1>1, <2>1, <2>3
    <3>2. x = t[k - 1]
      BY <1>2, <2>1, <3>1
    <3> QED
      BY <1>4, <3>1, <3>2
  <2> QED
    BY <1>1, <2>1, <2>2, <2>3
<1> QED
  BY <1>5, <1>6

\* Changing the links of some blocks leaves those of the others alone.
LEMMA OtherLinks ==
    ASSUME NEW S, Apart(S), NEW T \in SUBSET S, NEW h, NEW g, OnlyLinks(h, g, T),
           NEW x \in S, x \notin T
    PROVE  next(g, x) = next(h, x) /\ prev(g, x) = prev(h, x)
<1>1. x + 8 \in Nat /\ x + 12 \in Nat
  BY HeaderWords
<1>2. \A y \in T : x + 8 # y + 8 /\ x + 12 # y + 12 /\ x + 8 # y + 12 /\ x + 12 # y + 8
  <2>1. ASSUME NEW y \in T PROVE x + 8 # y + 8 /\ x + 12 # y + 12 /\ x + 8 # y + 12 /\ y + 8 # x + 12
    BY HeadersApart
  <2> QED
    BY <2>1
<1> QED
  BY <1>1, <1>2 DEF OnlyLinks, next, prev

\* The list of a bin is left alone by changes of links of other blocks.
LEMMA OtherList ==
    ASSUME NEW S, Apart(S), NEW T \in SUBSET S, NEW h, NEW g, OnlyLinks(h, g, T),
           NEW j, NEW s \in Seq(S), IsList(h, j, s), ToSet(s) \cap T = {},
           g.bins[j] = h.bins[j]
    PROVE  IsList(g, j, s)
<1>1. ASSUME NEW k \in 1 .. Len(s)
      PROVE  next(g, s[k]) = next(h, s[k]) /\ prev(g, s[k]) = prev(h, s[k])
  <2>1. PICK x : x = s[k] /\ x \in S /\ x \notin T
    BY ToSetIs
  <2> QED
    BY <2>1, OtherLinks
<1>2. Len(s) \in Nat
  OBVIOUS
<1> QED
  BY <1>1, <1>2, ListKept

\* Fewer blocks do not overlap either.
LEMMA ApartSubset ==
    ASSUME NEW S, Apart(S), NEW T \in SUBSET S
    PROVE  Apart(T)
  BY DEF Apart

\* A change of links of the blocks T is one of links of more blocks.
LEMMA OnlyLinksMore ==
    ASSUME NEW S, NEW T \in SUBSET S, NEW h, NEW g, OnlyLinks(h, g, T)
    PROVE  OnlyLinks(h, g, S)
  BY DEF OnlyLinks

\* A sequence over the set of its members.
LEMMA OverMembers ==
    ASSUME NEW S, NEW s \in Seq(S), NEW T, ToSet(s) \subseteq T
    PROVE  s \in Seq(T)
<1>1. PICK n \in Nat : n = Len(s)
  OBVIOUS
<1>2. s \in [1 .. n -> S]
  BY <1>1
<1>3. \A k \in 1 .. n : s[k] \in T
  BY <1>1, ToSetIs
<1>4. s \in [1 .. n -> T]
  BY <1>2, <1>3
<1> QED
  BY <1>4

\* The sorted list with b in its place.
LEMMA SortedWith ==
    ASSUME NEW f, NEW i, NEW S, NEW s \in Seq(S), SortedList(f, s, i),
           NEW b \in S, get_bin_index(f[b]) = i,
           \A x \in S : f[x] \in Nat,
           NEW p \in 1 .. Len(s) + 1,
           \A k \in 1 .. p - 1 : f[s[k]] <= f[b],
           p <= Len(s) => f[s[p]] > f[b],
           NEW t, t = WithBlock(s, p, b)
    PROVE  SortedList(f, t, i)
<1>1. PICK n \in Nat : n = Len(s)
  OBVIOUS
<1>2. /\ Len(t) = n + 1 /\ t[p] = b
      /\ \A k \in 1 .. p - 1 : t[k] = s[k]
      /\ \A k \in p + 1 .. n + 1 : t[k] = s[k - 1]
  <2>1. Inserted(S, s, p, b, t)
    BY WithBlockIs
  <2> QED
    BY <1>1, <2>1 DEF Inserted
<1>3. /\ \A k \in 1 .. n : s[k] \in S /\ f[s[k]] \in Nat /\ get_bin_index(f[s[k]]) = i
      /\ \A k, l \in 1 .. n : k < l => f[s[k]] <= f[s[l]]
      /\ f[b] \in Nat
  BY <1>1 DEF SortedList
<1>4. ASSUME NEW k \in 1 .. n + 1 PROVE get_bin_index(f[t[k]]) = i
  <2>1. CASE k < p
    BY <1>1, <1>2, <1>3, <2>1
  <2>2. CASE k = p
    BY <1>2, <2>2
  <2>3. CASE k > p
    <3>1. k - 1 \in 1 .. n /\ t[k] = s[k - 1]
      BY <1>1, <1>2, <2>3
    <3> QED
      BY <1>3, <3>1
  <2> QED
    BY <1>1, <2>1, <2>2, <2>3
<1>5. \A k \in p .. n : f[s[k]] > f[b]
  <2> SUFFICES ASSUME NEW k \in p .. n PROVE f[s[k]] > f[b]
    OBVIOUS
  <2>1. k \in 1 .. n /\ p \in 1 .. n
    BY <1>1
  <2>2. f[s[p]] > f[b] /\ f[s[p]] <= f[s[k]]
    BY <1>1, <1>3, <2>1
  <2> QED
    BY <1>3, <2>1, <2>2
<1>6. ASSUME NEW k \in 1 .. n + 1, NEW l \in 1 .. n + 1, k < l
      PROVE  f[t[k]] <= f[t[l]]
  <2>1. CASE l < p
    <3>1. k \in 1 .. n /\ l \in 1 .. n /\ t[k] = s[k] /\ t[l] = s[l]
      BY <1>1, <1>2, <1>6, <2>1
    <3> QED
      BY <1>3, <1>6, <3>1
  <2>2. CASE l = p
    <3>1. t[k] = s[k] /\ t[l] = b /\ k \in 1 .. p - 1
      BY <1>1, <1>2, <1>6, <2>2
    <3> QED
      BY <3>1
  <2>3. CASE l > p /\ k < p
    <3>1. t[k] = s[k] /\ t[l] = s[l - 1] /\ k \in 1 .. n /\ l - 1 \in 1 .. n /\ k < l - 1
      BY <1>1, <1>2, <1>6, <2>3
    <3> QED
      BY <1>3, <3>1
  <2>4. CASE l > p /\ k = p
    <3>1. t[k] = b /\ t[l] = s[l - 1] /\ l - 1 \in p .. n /\ l - 1 \in 1 .. n
      BY <1>1, <1>2, <2>4
    <3> QED
      BY <1>3, <1>5, <3>1
  <2>5. CASE l > p /\ k > p
    <3>1. t[k] = s[k - 1] /\ t[l] = s[l - 1] /\ l - 1 \in 1 .. n /\ k - 1 \in 1 .. n /\ k - 1 < l - 1
      BY <1>1, <1>2, <1>6, <2>5
    <3> QED
      BY <1>3, <3>1
  <2> QED
    BY <1>1, <1>6, <2>1, <2>2, <2>3, <2>4, <2>5
<1> QED
  BY <1>2, <1>4, <1>6 DEF SortedList

\* The sorted list without its p-th block, whose size may have changed.
LEMMA SortedWithout ==
    ASSUME NEW f, NEW i, NEW S, NEW s \in Seq(S), SortedList(f, s, i),
           NEW p \in 1 .. Len(s), NEW f2, \A k \in 1 .. Len(s) : k # p => f2[s[k]] = f[s[k]],
           NEW t, t = WithoutBlock(s, p)
    PROVE  SortedList(f2, t, i)
<1>1. PICK n \in Nat : n = Len(s)
  OBVIOUS
<1>2. /\ Len(t) = n - 1
      /\ \A k \in 1 .. p - 1 : t[k] = s[k]
      /\ \A k \in p .. n - 1 : t[k] = s[k + 1]
  BY <1>1, WithoutBlockIs
<1>3. /\ \A k \in 1 .. n : get_bin_index(f[s[k]]) = i
      /\ \A k, l \in 1 .. n : k < l => f[s[k]] <= f[s[l]]
      /\ \A k \in 1 .. n : k # p => f2[s[k]] = f[s[k]]
  BY <1>1 DEF SortedList
<1>4. ASSUME NEW k \in 1 .. n - 1
      PROVE  \E u \in 1 .. n : t[k] = s[u] /\ u # p /\ u = IF k < p THEN k ELSE k + 1
  <2>1. CASE k < p
    <3>1. k \in 1 .. n /\ k # p /\ t[k] = s[k]
      BY <1>1, <1>2, <2>1
    <3> QED
      BY <2>1, <3>1
  <2>2. CASE k >= p
    <3>1. k + 1 \in 1 .. n /\ k + 1 # p /\ t[k] = s[k + 1] /\ ~ (k < p)
      BY <1>1, <1>2, <2>2
    <3> QED
      BY <3>1
  <2> QED
    BY <1>1, <2>1, <2>2
<1>5. \A k \in 1 .. n - 1 : get_bin_index(f2[t[k]]) = i
  BY <1>3, <1>4
<1>6. ASSUME NEW k \in 1 .. n - 1, NEW l \in 1 .. n - 1, k < l
      PROVE  f2[t[k]] <= f2[t[l]]
  <2>1. PICK u \in 1 .. n : t[k] = s[u] /\ u # p /\ u = IF k < p THEN k ELSE k + 1
    BY <1>4
  <2>2. PICK v \in 1 .. n : t[l] = s[v] /\ v # p /\ v = IF l < p THEN l ELSE l + 1
    BY <1>4
  <2>3. u < v
    BY <1>1, <1>6, <2>1, <2>2
  <2> QED
    BY <1>3, <2>1, <2>2, <2>3
<1> QED
  BY <1>2, <1>5, <1>6 DEF SortedList

\* The bins after b was put at place p of the list of bin i.
BinsWith(L, i, p, b) == [L EXCEPT ![i] = WithBlock(L[i], p, b)]

\* The bins after the p-th block of bin i was taken out.
BinsWithout(L, i, p) == [L EXCEPT ![i] = WithoutBlock(L[i], p)]

\* Block b joined the lists L, or left them; its size may have changed then.
AddedTo(h, g, S, f, L, b) ==
    \E M : /\ Linked(g, S, M) /\ Sorted(f, M) /\ FreeOf(M) = FreeOf(L) \cup {b}
           /\ OnlyLinks(h, g, FreeOf(L) \cup {b})

RemovedFrom(h, g, S, f, L, b) ==
    \E M : /\ Linked(g, S, M) /\ Sorted(f, M) /\ FreeOf(M) = FreeOf(L) \ {b}
           /\ OnlyLinks(h, g, FreeOf(L))

\* add_block_sorted puts a block that is in no bin into the bin of its size, in
\* order, and keeps the other bins.
LEMMA AddLinked ==
    ASSUME NEW h, NEW S, NEW L, Linked(h, S, L), NEW f, Sorted(f, L),
           \A x \in S : f[x] \in Nat /\ size(h, x) = f[x],
           NEW b \in S, b \notin FreeOf(L), NEW i \in 0 .. 8, i = get_bin_index(f[b])
    PROVE  AddedTo(h, add_block_sorted(h, i, b), S, f, L, b)
<1> SUFFICES ASSUME NEW g, g = add_block_sorted(h, i, b)
             PROVE  \E M : /\ Linked(g, S, M) /\ Sorted(f, M) /\ FreeOf(M) = FreeOf(L) \cup {b}
                           /\ OnlyLinks(h, g, FreeOf(L) \cup {b})
  BY DEF AddedTo
<1>1. /\ IsHeap(h) /\ Apart(S) /\ L \in [0 .. 8 -> Seq(S)]
      /\ \A j \in 0 .. 8 : IsList(h, j, L[j])
      /\ \A j, k \in 0 .. 8 : j # k => ToSet(L[j]) \cap ToSet(L[k]) = {}
  BY DEF Linked
<1>2. PICK s \in Seq(S) : s = L[i]
  BY <1>1
<1>3. IsList(h, i, s)
  BY <1>1, <1>2
<1>4. PICK T : T = ToSet(s) \cup {b}
  OBVIOUS
<1>5. T \in SUBSET S /\ ToSet(s) \subseteq T /\ b \in T
  BY <1>4, ToSetIs
<1>6. s \in Seq(T) /\ Apart(T)
  BY <1>1, <1>5, OverMembers, ApartSubset
<1>7. b \notin ToSet(s)
  BY <1>1, <1>2, FreeOfIs
<1>8. \A k \in 1 .. Len(s) : s[k] # b
  BY <1>7, ToSetIs
<1>9. PICK p \in 1 .. Len(s) + 1 : Added(h, g, T, i, s, p, b)
  BY <1>1, <1>3, <1>5, <1>6, <1>8, AddEffect
<1>10. PICK t : t = WithBlock(s, p, b)
  OBVIOUS
<1>11. t \in Seq(S)
  <2>1. Inserted(S, s, p, b, t)
    BY <1>10, WithBlockIs
  <2> QED
    BY <2>1 DEF Inserted
<1>12. ToSet(t) = ToSet(s) \cup {b}
  BY <1>10, WithBlockSet
<1>13. PICK M : M = BinsWith(L, i, p, b)
  OBVIOUS
<1>14. /\ M \in [0 .. 8 -> Seq(S)] /\ M[i] = t
       /\ \A j \in 0 .. 8 : j # i => M[j] = L[j]
  BY <1>1, <1>2, <1>10, <1>11, <1>13 DEF BinsWith
<1>15. \A j \in 0 .. 8 : IsList(g, j, M[j])
  <2> SUFFICES ASSUME NEW j \in 0 .. 8 PROVE IsList(g, j, M[j])
    OBVIOUS
  <2>1. CASE j = i
    BY <1>9, <1>10, <1>14, <2>1 DEF Added
  <2>2. CASE j # i
    <3>1. PICK r \in Seq(S) : r = L[j]
      BY <1>1
    <3>2. ToSet(r) \cap T = {}
      <4>1. ToSet(r) \cap ToSet(s) = {}
        BY <1>1, <1>2, <2>2, <3>1
      <4>2. b \notin ToSet(r)
        BY <1>1, <3>1, FreeOfIs
      <4> QED
        BY <1>4, <4>1, <4>2
    <3>3. g.bins[j] = h.bins[j] /\ OnlyLinks(h, g, T)
      BY <1>9, <2>2 DEF Added
    <3>4. IsList(h, j, r)
      BY <1>1, <3>1
    <3>5. IsList(g, j, r)
      BY <1>1, <1>5, <3>2, <3>3, <3>4, OtherList
    <3> QED
      BY <1>14, <2>2, <3>1, <3>5
  <2> QED
    BY <2>1, <2>2
<1>16. \A j, k \in 0 .. 8 : j # k => ToSet(M[j]) \cap ToSet(M[k]) = {}
  <2>1. \A j \in 0 .. 8 : b \notin ToSet(L[j])
    BY <1>1, FreeOfIs
  <2>2. \A j \in 0 .. 8 : ToSet(M[j]) = IF j = i THEN ToSet(L[j]) \cup {b} ELSE ToSet(L[j])
    BY <1>2, <1>12, <1>14
  <2> SUFFICES ASSUME NEW j \in 0 .. 8, NEW k \in 0 .. 8, j # k
               PROVE  ToSet(M[j]) \cap ToSet(M[k]) = {}
    OBVIOUS
  <2>3. ToSet(L[j]) \cap ToSet(L[k]) = {}
    BY <1>1
  <2>4. b \notin ToSet(L[j]) /\ b \notin ToSet(L[k])
    BY <2>1
  <2>5. /\ ToSet(M[j]) = IF j = i THEN ToSet(L[j]) \cup {b} ELSE ToSet(L[j])
        /\ ToSet(M[k]) = IF k = i THEN ToSet(L[k]) \cup {b} ELSE ToSet(L[k])
    BY <2>2
  <2> QED
    BY ONLY <2>3, <2>4, <2>5, j # k
<1>17. Linked(g, S, M)
  BY <1>1, <1>9, <1>14, <1>15, <1>16 DEF Linked, Added
<1>18. Sorted(f, M)
  <2>1. SortedList(f, s, i)
    BY <1>2 DEF Sorted
  <2>2. size(h, b) = f[b] /\ \A k \in 1 .. Len(s) : size(h, s[k]) = f[s[k]]
    OBVIOUS
  <2>3. \A k \in 1 .. p - 1 : f[s[k]] <= f[b]
    BY <1>9, <2>2 DEF Added
  <2>4. p <= Len(s) => f[s[p]] > f[b]
    BY <1>9, <2>2 DEF Added
  <2>5. SortedList(f, t, i)
    BY <1>10, <2>1, <2>3, <2>4, SortedWith
  <2> QED
    BY <1>14, <2>5 DEF Sorted
<1>19. FreeOf(M) = FreeOf(L) \cup {b}
  <2>1. \A j \in 0 .. 8 : ToSet(M[j]) = IF j = i THEN ToSet(L[j]) \cup {b} ELSE ToSet(L[j])
    BY <1>2, <1>12, <1>14
  <2>2. \A x : x \in FreeOf(M) <=> \E j \in 0 .. 8 : x \in ToSet(M[j])
    BY <1>14, FreeOfIs
  <2>3. \A x : x \in FreeOf(L) <=> \E j \in 0 .. 8 : x \in ToSet(L[j])
    BY <1>1, FreeOfIs
  <2>4. \A x : x \in FreeOf(M) <=> x \in FreeOf(L) \cup {b}
    BY <2>1, <2>2, <2>3
  <2> QED
    BY <2>4
<1>20. OnlyLinks(h, g, FreeOf(L) \cup {b})
  <2>1. T \subseteq FreeOf(L) \cup {b}
    BY <1>1, <1>2, <1>4, FreeOfIs
  <2> QED
    BY <1>9, <2>1, OnlyLinksMore DEF Added
<1> QED
  BY <1>17, <1>18, <1>19, <1>20

\* A block that is taken out of its bin may change its size.
LEMMA RemoveLinked ==
    ASSUME NEW h, NEW S, NEW L, Linked(h, S, L), NEW f, Sorted(f, L),
           NEW i \in 0 .. 8, NEW b, b \in ToSet(L[i]),
           NEW f2, \A x \in FreeOf(L) \ {b} : f2[x] = f[x]
    PROVE  RemovedFrom(h, remove_block(h, i, b), S, f2, L, b)
<1> SUFFICES ASSUME NEW g, g = remove_block(h, i, b)
             PROVE  \E M : /\ Linked(g, S, M) /\ Sorted(f2, M) /\ FreeOf(M) = FreeOf(L) \ {b}
                           /\ OnlyLinks(h, g, FreeOf(L))
  BY DEF RemovedFrom
<1>1. /\ IsHeap(h) /\ Apart(S) /\ L \in [0 .. 8 -> Seq(S)]
      /\ \A j \in 0 .. 8 : IsList(h, j, L[j])
      /\ \A j, k \in 0 .. 8 : j # k => ToSet(L[j]) \cap ToSet(L[k]) = {}
  BY DEF Linked
<1>2. PICK s \in Seq(S) : s = L[i]
  BY <1>1
<1>3. IsList(h, i, s) /\ b \in ToSet(s)
  BY <1>1, <1>2
<1>4. PICK T : T = ToSet(s)
  OBVIOUS
<1>5. T \in SUBSET S
  BY <1>4, ToSetIs
<1>6. s \in Seq(T) /\ Apart(T)
  BY <1>1, <1>4, <1>5, OverMembers, ApartSubset
<1>7. PICK p \in 1 .. Len(s) : b = s[p]
  BY <1>3, ToSetIs
<1>8. \A k, l \in 1 .. Len(s) : s[k] = s[l] => k = l
  BY <1>3 DEF IsList
<1>9. Removed(h, g, T, i, s, p)
  BY <1>1, <1>3, <1>6, <1>7, RemoveEffect
<1>10. PICK t : t = WithoutBlock(s, p)
  OBVIOUS
<1>11. t \in Seq(S)
  BY <1>10, WithoutBlockIs
<1>12. ToSet(t) = ToSet(s) \ {b}
  BY <1>7, <1>8, <1>10, WithoutBlockSet
<1>13. PICK M : M = BinsWithout(L, i, p)
  OBVIOUS
<1>14. /\ M \in [0 .. 8 -> Seq(S)] /\ M[i] = t
       /\ \A j \in 0 .. 8 : j # i => M[j] = L[j]
  BY <1>1, <1>2, <1>10, <1>11, <1>13 DEF BinsWithout
<1>15. \A j \in 0 .. 8 : IsList(g, j, M[j])
  <2> SUFFICES ASSUME NEW j \in 0 .. 8 PROVE IsList(g, j, M[j])
    OBVIOUS
  <2>1. CASE j = i
    BY <1>9, <1>10, <1>14, <2>1 DEF Removed
  <2>2. CASE j # i
    <3>1. PICK r \in Seq(S) : r = L[j]
      BY <1>1
    <3>2. ToSet(r) \cap T = {}
      BY <1>1, <1>2, <1>4, <2>2, <3>1
    <3>3. g.bins[j] = h.bins[j] /\ OnlyLinks(h, g, T)
      BY <1>9, <2>2 DEF Removed
    <3>4. IsList(h, j, r)
      BY <1>1, <3>1
    <3>5. IsList(g, j, r)
      BY <1>1, <1>5, <3>2, <3>3, <3>4, OtherList
    <3> QED
      BY <1>14, <2>2, <3>1, <3>5
  <2> QED
    BY <2>1, <2>2
<1>16. \A j \in 0 .. 8 : ToSet(M[j]) = IF j = i THEN ToSet(L[j]) \ {b} ELSE ToSet(L[j])
  BY <1>2, <1>12, <1>14
<1>17. \A j, k \in 0 .. 8 : j # k => ToSet(M[j]) \cap ToSet(M[k]) = {}
  BY <1>1, <1>16
<1>18. Linked(g, S, M)
  BY <1>1, <1>9, <1>14, <1>15, <1>17 DEF Linked, Removed
<1>19. \A x : x \in FreeOf(L) <=> \E j \in 0 .. 8 : x \in ToSet(L[j])
  BY <1>1, FreeOfIs
<1>20. FreeOf(M) = FreeOf(L) \ {b}
  <2>1. \A x : x \in FreeOf(M) <=> \E j \in 0 .. 8 : x \in ToSet(M[j])
    BY <1>14, FreeOfIs
  <2>2. \A j \in 0 .. 8 : j # i => b \notin ToSet(L[j])
    BY <1>1
  <2>3. \A x : x \in FreeOf(M) <=> x \in FreeOf(L) /\ x # b
    BY <1>16, <1>19, <2>1, <2>2
  <2> QED
    BY <2>3
<1>21. Sorted(f2, M)
  <2> SUFFICES ASSUME NEW j \in 0 .. 8 PROVE SortedList(f2, M[j], j)
    BY DEF Sorted
  <2>1. SortedList(f, L[j], j)
    BY DEF Sorted
  <2>2. CASE j = i
    <3>1. ASSUME NEW k \in 1 .. Len(s), k # p PROVE f2[s[k]] = f[s[k]]
      <4>1. s[k] # b
        BY <1>7, <1>8, <3>1
      <4>2. s[k] \in ToSet(s)
        BY ToSetIs
      <4>3. s[k] \in FreeOf(L)
        BY <1>2, <1>19, <4>2
      <4> QED
        BY <4>1, <4>3
    <3>2. SortedList(f2, t, i)
      BY <1>2, <1>10, <2>1, <2>2, <3>1, SortedWithout
    <3> QED
      BY <1>14, <2>2, <3>2
  <2>3. CASE j # i
    <3>1. PICK r \in Seq(S) : r = L[j]
      BY <1>1
    <3>2. ASSUME NEW k \in 1 .. Len(r) PROVE f2[r[k]] = f[r[k]]
      <4>1. r[k] \in ToSet(r)
        BY ToSetIs
      <4>2. r[k] # b /\ r[k] \in FreeOf(L)
        BY <1>1, <1>2, <1>3, <1>19, <2>3, <3>1, <4>1
      <4> QED
        BY <4>2
    <3>3. SortedList(f2, r, j)
      BY <2>1, <3>1, <3>2 DEF SortedList
    <3> QED
      BY <1>14, <2>3, <3>1, <3>3
  <2> QED
    BY <2>2, <2>3
<1>22. OnlyLinks(h, g, FreeOf(L))
  <2>1. T \subseteq FreeOf(L)
    BY <1>2, <1>4, <1>19
  <2> QED
    BY <1>9, <2>1, OnlyLinksMore DEF Removed
<1> QED
  BY <1>18, <1>20, <1>21, <1>22

-----------------------------------------------------------------------------
(* Searching the bins.                                                     *)

\* The bin of a size, written out.
BinBounds(sz, i) ==
    \/ i = 0 /\ sz < 8
    \/ i = 1 /\ 8 <= sz /\ sz < 16
    \/ i = 2 /\ 16 <= sz /\ sz < 32
    \/ i = 3 /\ 32 <= sz /\ sz < 64
    \/ i = 4 /\ 64 <= sz /\ sz < 128
    \/ i = 5 /\ 128 <= sz /\ sz < 256
    \/ i = 6 /\ 256 <= sz /\ sz < 512
    \/ i = 7 /\ 512 <= sz /\ sz < 1024
    \/ i = 8 /\ 1024 <= sz

\* get_bin_index returns one of the nine bins, and its bounds hold the size.
LEMMA BinIndexIs ==
    ASSUME NEW sz \in Nat
    PROVE  get_bin_index(sz) \in 0 .. 8 /\ BinBounds(sz, get_bin_index(sz))
<1> DEFINE P(i) == 2 ^ (i + 2) <= sz /\ (i = 8 \/ sz < 2 ^ (i + 3))
<1>1. get_bin_index(sz) = IF sz < 4 THEN 0 ELSE CHOOSE i \in 0 .. 8 : P(i)
  BY DEF get_bin_index, BIN_CNT
<1>2. CASE sz < 4
  BY <1>1, <1>2 DEF BinBounds
<1>3. CASE sz >= 4
  <2>1. P(0) <=> 4 <= sz /\ sz < 8
    OBVIOUS
  <2>2. P(1) <=> 8 <= sz /\ sz < 16
    OBVIOUS
  <2>3. P(2) <=> 16 <= sz /\ sz < 32
    OBVIOUS
  <2>4. P(3) <=> 32 <= sz /\ sz < 64
    OBVIOUS
  <2>5. P(4) <=> 64 <= sz /\ sz < 128
    OBVIOUS
  <2>6. P(5) <=> 128 <= sz /\ sz < 256
    OBVIOUS
  <2>7. P(6) <=> 256 <= sz /\ sz < 512
    OBVIOUS
  <2>8. P(7) <=> 512 <= sz /\ sz < 1024
    OBVIOUS
  <2>9. P(8) <=> 1024 <= sz
    OBVIOUS
  <2>10. PICK c : c = CHOOSE i \in 0 .. 8 : P(i)
    OBVIOUS
  <2> HIDE DEF P
  <2>11. \A i \in 0 .. 8 : P(i) <=> BinBounds(sz, i) /\ 4 <= sz
    BY <2>1, <2>2, <2>3, <2>4, <2>5, <2>6, <2>7, <2>8, <2>9 DEF BinBounds
  <2>12. \E i \in 0 .. 8 : BinBounds(sz, i)
    BY <1>3 DEF BinBounds
  <2>13. c \in 0 .. 8 /\ P(c)
    BY <1>3, <2>10, <2>11, <2>12
  <2>14. get_bin_index(sz) = c
    BY <1>1, <1>3, <2>10
  <2>15. BinBounds(sz, c)
    BY <2>11, <2>13
  <2> QED
    BY <2>13, <2>14, <2>15
<1> QED
  BY <1>2, <1>3

\* A larger block never belongs to a lower bin.
LEMMA BinIndexMonotone ==
    ASSUME NEW x \in Nat, NEW y \in Nat, x <= y
    PROVE  get_bin_index(x) <= get_bin_index(y)
<1>1. PICK i \in 0 .. 8, j \in 0 .. 8 :
          /\ i = get_bin_index(x) /\ j = get_bin_index(y)
          /\ BinBounds(x, i) /\ BinBounds(y, j)
  BY BinIndexIs
<1>2. i <= j
  BY <1>1 DEF BinBounds
<1> QED
  BY <1>1, <1>2

\* Block b is the first one of the list s that has sz bytes, 0 if none has.
FirstFitting(h, s, sz, b) ==
    \/ b = 0 /\ \A k \in 1 .. Len(s) : size(h, s[k]) < sz
    \/ \E p \in 1 .. Len(s) :
          /\ b = s[p] /\ b # 0 /\ size(h, s[p]) >= sz
          /\ \A k \in 1 .. p - 1 : size(h, s[k]) < sz

\* get_first_fit finds the first block of a list that is large enough.
LEMMA FirstFit ==
    ASSUME NEW h, IsHeap(h), NEW S, Apart(S), NEW i \in 0 .. 8,
           NEW s \in Seq(S), IsList(h, i, s), NEW sz \in Nat
    PROVE  FirstFitting(h, s, sz, get_first_fit(h, i, sz))
<1> SUFFICES ASSUME NEW b, b = get_first_fit(h, i, sz)
             PROVE  FirstFitting(h, s, sz, b)
  OBVIOUS
<1>1. PICK n \in Nat : n = Len(s)
  OBVIOUS
<1> DEFINE I == {k \in 1 .. n : size(h, s[k]) >= sz}
<1>2. Bin(h, i) = s
  BY BinIs
<1>3. b = IF First(I) = 0 THEN 0 ELSE s[First(I)]
  <2>1. DOMAIN s = 1 .. n
    BY <1>1
  <2> QED
    BY <1>2, <2>1 DEF get_first_fit, NULL
<1>4. \A x : size(h, x) \in Nat
  BY LoadType DEF size
<1>5. CASE I = {}
  BY <1>1, <1>3, <1>4, <1>5 DEF First, FirstFitting
<1>6. CASE I # {}
  <2>1. I \in SUBSET Nat
    OBVIOUS
  <2>2. PICK m \in I : \A k \in I : m <= k
    BY <1>6, <2>1, LeastNat
  <2>3. Min(I) \in I /\ \A k \in I : Min(I) <= k
    BY <2>2 DEF Min
  <2>4. PICK p : p = First(I)
    OBVIOUS
  <2>5. p \in I /\ \A k \in I : p <= k
    BY <1>6, <2>3, <2>4 DEF First
  <2>6. \A k \in 1 .. p - 1 : k \notin I /\ k \in 1 .. n
    BY <2>5
  <2>7. b = s[p] /\ s[p] \in S
    BY <1>1, <1>3, <2>4, <2>5
  <2>8. b # 0
    BY <2>7, HeaderWords
  <2> QED
    BY <1>1, <1>4, <2>5, <2>6, <2>7, <2>8 DEF FirstFitting
<1> QED
  BY <1>5, <1>6

\* The block that kheap_alloc finds is a smallest one that fits.
LEMMA FoundIs ==
    ASSUME NEW h, NEW S, NEW L, Linked(h, S, L), NEW f, Sorted(f, L),
           \A x \in S : f[x] \in Nat /\ size(h, x) = f[x],
           NEW sz \in Nat, FittingBins(h, sz) # {}
    PROVE  /\ FoundBin(h, sz) \in 0 .. 8
           /\ Found(h, sz) \in ToSet(L[FoundBin(h, sz)])
           /\ f[Found(h, sz)] >= sz
           /\ \A c \in FreeOf(L) : f[c] >= sz => f[Found(h, sz)] <= f[c]
<1>1. /\ IsHeap(h) /\ Apart(S) /\ L \in [0 .. 8 -> Seq(S)]
      /\ \A j \in 0 .. 8 : IsList(h, j, L[j])
  BY DEF Linked
<1>2. get_bin_index(sz) \in 0 .. 8
  BY BinIndexIs
<1>3. PICK F : F = FittingBins(h, sz)
  OBVIOUS
<1>4. F = {j \in get_bin_index(sz) .. 8 : get_first_fit(h, j, sz) # 0}
  BY <1>3 DEF FittingBins, BIN_CNT, NULL
<1>5. PICK i \in F : \A j \in F : i <= j
  <2>1. F \in SUBSET Nat /\ F # {}
    BY <1>2, <1>3, <1>4
  <2> QED
    BY <2>1, LeastNat
<1>6. FoundBin(h, sz) = i
  <2>1. FoundBin(h, sz) = CHOOSE j \in F : \A k \in F : j <= k
    BY <1>3 DEF FoundBin
  <2>2. \A j \in F : (\A k \in F : j <= k) => j = i
    BY <1>2, <1>4, <1>5
  <2> QED
    BY <1>5, <2>1, <2>2
<1>7. i \in 0 .. 8 /\ get_first_fit(h, i, sz) # 0
  BY <1>2, <1>4, <1>5
<1>8. PICK b : b = get_first_fit(h, i, sz)
  OBVIOUS
<1>9. Found(h, sz) = b
  BY <1>6, <1>8 DEF Found
<1>10. PICK s \in Seq(S) : s = L[i]
  BY <1>1, <1>7
<1>11. \A k \in 1 .. Len(s) : s[k] \in S /\ f[s[k]] \in Nat /\ size(h, s[k]) = f[s[k]]
  OBVIOUS
<1>12. PICK p \in 1 .. Len(s) : b = s[p] /\ f[b] >= sz /\ \A k \in 1 .. p - 1 : f[s[k]] < sz
  <2>1. IsList(h, i, s)
    BY <1>1, <1>7, <1>10
  <2>2. PICK p \in 1 .. Len(s) : /\ b = s[p] /\ b # 0 /\ size(h, s[p]) >= sz
                                 /\ \A k \in 1 .. p - 1 : size(h, s[k]) < sz
    <3>1. FirstFitting(h, s, sz, b)
      BY <1>1, <1>7, <1>8, <2>1, FirstFit
    <3> QED
      BY <1>7, <1>8, <3>1 DEF FirstFitting
  <2>3. \A k \in 1 .. p - 1 : k \in 1 .. Len(s)
    OBVIOUS
  <2> QED
    BY <1>11, <2>2, <2>3
<1>13. b \in ToSet(s)
  BY <1>12, ToSetIs
<1>14. SortedList(f, s, i)
  BY <1>7, <1>10 DEF Sorted
<1>15. ASSUME NEW c \in FreeOf(L), f[c] >= sz PROVE f[b] <= f[c]
  <2>1. PICK j \in 0 .. 8 : c \in ToSet(L[j])
    BY <1>1, FreeOfIs
  <2>2. PICK r \in Seq(S) : r = L[j]
    BY <1>1
  <2>3. PICK q \in 1 .. Len(r) : c = r[q]
    BY <2>1, <2>2, ToSetIs
  <2>4. c \in S /\ f[c] \in Nat /\ b \in S /\ f[b] \in Nat
    BY <1>11, <1>12, <2>3
  <2>5. SortedList(f, r, j)
    BY <2>2 DEF Sorted
  <2>6. get_bin_index(f[c]) = j /\ get_bin_index(f[b]) = i
    BY <1>12, <1>14, <2>3, <2>5 DEF SortedList
  <2>7. get_bin_index(sz) <= j
    BY <1>15, <2>4, <2>6, BinIndexMonotone
  <2>8. get_first_fit(h, j, sz) # 0
    <3>1. IsList(h, j, r)
      BY <1>1, <2>2
    <3>2. ~ (size(h, r[q]) < sz)
      BY <1>15, <2>3, <2>4
    <3>3. FirstFitting(h, r, sz, get_first_fit(h, j, sz))
      BY <1>1, <3>1, FirstFit
    <3> QED
      BY <2>3, <3>2, <3>3 DEF FirstFitting
  <2>9. i <= j
    BY <1>2, <1>4, <1>5, <2>7, <2>8
  <2>10. CASE i = j
    <3>1. s = r
      BY <1>10, <2>2, <2>10
    <3>2. ~ (q < p)
      <4>1. q < p => q \in 1 .. p - 1
        BY <2>3
      <4> QED
        BY <1>11, <1>12, <1>15, <2>3, <3>1, <4>1
    <3>3. p < q \/ p = q
      BY <1>12, <2>3, <3>1, <3>2
    <3> QED
      BY <1>12, <1>14, <2>3, <2>4, <3>1, <3>3 DEF SortedList
  <2>11. CASE i < j
    <3>1. ~ (f[c] <= f[b])
      <4>1. f[c] <= f[b] => get_bin_index(f[c]) <= get_bin_index(f[b])
        BY <2>4, BinIndexMonotone
      <4> QED
        BY <1>7, <2>1, <2>6, <2>11, <4>1
    <3> QED
      BY <2>4, <3>1
  <2> QED
    BY <1>7, <2>1, <2>9, <2>10, <2>11
<1> QED
  BY <1>6, <1>7, <1>9, <1>10, <1>12, <1>13, <1>15

\* No bin has a block that fits only if there is none.
LEMMA NoneFits ==
    ASSUME NEW h, NEW S, NEW L, Linked(h, S, L), NEW f, Sorted(f, L),
           \A x \in S : f[x] \in Nat /\ size(h, x) = f[x],
           NEW sz \in Nat, FittingBins(h, sz) = {}
    PROVE  \A c \in FreeOf(L) : f[c] < sz
<1>1. /\ IsHeap(h) /\ Apart(S) /\ L \in [0 .. 8 -> Seq(S)]
      /\ \A j \in 0 .. 8 : IsList(h, j, L[j])
  BY DEF Linked
<1>0. FreeOf(L) \subseteq S
  BY <1>1, FreeOfIs
<1> SUFFICES ASSUME NEW c \in FreeOf(L), f[c] >= sz PROVE FALSE
  BY <1>0
<1>2. PICK j \in 0 .. 8 : c \in ToSet(L[j])
  BY <1>1, FreeOfIs
<1>3. PICK r \in Seq(S) : r = L[j]
  BY <1>1
<1>4. PICK q \in 1 .. Len(r) : c = r[q]
  BY <1>2, <1>3, ToSetIs
<1>5. c \in S /\ f[c] \in Nat
  BY <1>4
<1>6. get_bin_index(f[c]) = j
  BY <1>3, <1>4 DEF Sorted, SortedList
<1>7. get_bin_index(sz) <= j /\ get_bin_index(sz) \in 0 .. 8
  BY <1>5, <1>6, BinIndexMonotone, BinIndexIs
<1>8. get_first_fit(h, j, sz) # 0
  <2>1. IsList(h, j, r)
    BY <1>1, <1>3
  <2>2. ~ (size(h, r[q]) < sz)
    BY <1>4, <1>5
  <2>3. FirstFitting(h, r, sz, get_first_fit(h, j, sz))
    BY <1>1, <2>1, FirstFit
  <2> QED
    BY <1>4, <2>2, <2>3 DEF FirstFitting
<1> QED
  BY <1>7, <1>8 DEF FittingBins, BIN_CNT, NULL

-----------------------------------------------------------------------------
(* The chain of blocks.                                                    *)

\* The sizes f of blocks that tile the heap.
Chained(f) ==
    /\ f \in [DOMAIN f -> Nat] /\ Start \in DOMAIN f
    /\ \A b \in DOMAIN f : /\ b \in Start .. End /\ b % 4 = 0 /\ f[b] % 4 = 0
                           /\ b + f[b] + 20 = End \/ b + f[b] + 20 \in DOMAIN f
    /\ \A b, c \in DOMAIN f : b < c => b + f[b] + 20 <= c

\* Sizes and addresses are multiples of the word, and every block ends in the
\* heap.
LEMMA ChainedIs ==
    ASSUME NEW f, Chained(f), NEW b \in DOMAIN f
    PROVE  /\ b \in Nat /\ f[b] \in Nat /\ b % 4 = 0 /\ f[b] % 4 = 0
           /\ Start <= b /\ b + f[b] + 20 <= End
<1>1. Start \in Nat /\ End \in Nat
  BY Bounds
<1>2. b \in Nat /\ f[b] \in Nat /\ b % 4 = 0 /\ f[b] % 4 = 0 /\ Start <= b
  BY <1>1 DEF Chained
<1>3. b + f[b] + 20 = End \/ b + f[b] + 20 \in DOMAIN f
  BY DEF Chained
<1>4. b + f[b] + 20 <= End
  BY <1>1, <1>2, <1>3 DEF Chained
<1> QED
  BY <1>2, <1>4

\* Behind a block there is a block or the end of the heap.
LEMMA Follower ==
    ASSUME NEW f, Chained(f), NEW b \in DOMAIN f
    PROVE  b + f[b] + 20 = End \/ b + f[b] + 20 \in DOMAIN f
  BY DEF Chained

\* Two blocks of a chain do not overlap.
LEMMA BlocksApart ==
    ASSUME NEW f, Chained(f), NEW b \in DOMAIN f, NEW c \in DOMAIN f, c # b
    PROVE  b + f[b] + 20 <= c \/ c + f[c] + 20 <= b
<1>1. b \in Nat /\ c \in Nat
  BY ChainedIs
<1> QED
  BY <1>1 DEF Chained

\* The headers of a chain do not overlap.
LEMMA ChainedApart ==
    ASSUME NEW f, Chained(f)
    PROVE  Apart(DOMAIN f)
<1>1. Start \in Nat /\ End \in Nat
  BY Bounds
<1>2. ASSUME NEW x \in DOMAIN f PROVE x \in Start .. End - 20 /\ x % 4 = 0
  BY <1>1, ChainedIs
<1>3. ASSUME NEW x \in DOMAIN f, NEW y \in DOMAIN f, x < y PROVE x + 20 <= y
  <2>1. x \in Nat /\ y \in Nat /\ f[x] \in Nat
    BY ChainedIs
  <2>2. x + f[x] + 20 <= y
    BY <1>3 DEF Chained
  <2> QED
    BY <2>1, <2>2
<1> QED
  BY <1>2, <1>3 DEF Apart

\* Every block but the first one has a neighbour in front of it.
LEMMA Neighbour ==
    ASSUME NEW f, Chained(f), NEW b \in DOMAIN f, b # Start
    PROVE  \E p \in DOMAIN f : p + f[p] + 20 = b
<1> DEFINE T == {x \in DOMAIN f : x < b}
<1>1. Start \in Nat /\ b \in Nat /\ Start < b /\ Start \in DOMAIN f
  BY Bounds, ChainedIs DEF Chained
<1>2. T \in SUBSET Nat /\ T # {} /\ \A x \in T : x <= b
  <2>1. \A x \in T : x \in Nat
    BY ChainedIs
  <2>2. Start \in T
    BY <1>1
  <2>3. \A x \in T : x <= b
    BY <1>1, <2>1
  <2> HIDE DEF T
  <2> QED
    BY <2>1, <2>2, <2>3
<1>3. PICK p \in T : \A x \in T : x <= p
  <2> HIDE DEF T
  <2> QED
    BY <1>1, <1>2, Greatest
<1>4. p \in Nat /\ f[p] \in Nat /\ p + f[p] + 20 <= b
  <2>1. p \in DOMAIN f /\ p < b
    BY <1>3
  <2> QED
    BY <2>1, ChainedIs DEF Chained
<1>5. p + f[p] + 20 \in DOMAIN f
  <2>1. b < End
    <3>1. f[b] \in Nat /\ b + f[b] + 20 <= End /\ End \in Nat
      BY Bounds, ChainedIs
    <3> QED
      BY <1>1, <3>1
  <2>2. p + f[p] + 20 = End \/ p + f[p] + 20 \in DOMAIN f
    BY Follower
  <2> QED
    BY <1>1, <1>4, <2>1, <2>2, Bounds
<1>6. ~ (p + f[p] + 20 < b)
  <2>1. p + f[p] + 20 < b => p + f[p] + 20 \in T
    BY <1>5
  <2> QED
    BY <1>3, <1>4, <2>1
<1> QED
  BY <1>1, <1>3, <1>4, <1>6

\* The map g from blocks to sizes that splitting block b of f gives.
IsCut(f, b, sz, g) ==
    /\ g \in [DOMAIN f \cup {b + sz + 20} -> Nat]
    /\ g[b] = sz /\ g[b + sz + 20] = f[b] - sz - 20
    /\ \A x \in DOMAIN f : x # b => g[x] = f[x]

\* Splitting a block makes the remainder a block of its own.
LEMMA CutIs ==
    ASSUME NEW f, Chained(f), NEW b \in DOMAIN f, NEW sz \in Nat, sz + 20 <= f[b]
    PROVE  /\ b + sz + 20 \notin DOMAIN f
           /\ IsCut(f, b, sz, Chain!Cut(f, b, sz))
<1>1. b \in Nat /\ f[b] \in Nat
  BY ChainedIs
<1>2. b + sz + 20 \notin DOMAIN f
  <2>1. ASSUME b + sz + 20 \in DOMAIN f PROVE FALSE
    <3>1. b < b + sz + 20
      BY <1>1
    <3>2. b + f[b] + 20 <= b + sz + 20
      BY <2>1, <3>1 DEF Chained
    <3> QED
      BY <1>1, <3>2
  <2> QED
    BY <2>1
<1>3. PICK c \in Nat : c = b + sz + 20
  BY <1>1
<1>4. PICK g : g = [x \in DOMAIN f \cup {c} |->
                      CASE x = b -> sz [] x = c -> f[b] - sz - 20 [] OTHER -> f[x]]
  OBVIOUS
<1>5. Chain!Cut(f, b, sz) = g
  BY <1>3, <1>4 DEF Chain!Cut, Chain!BLCK_OVERHEAD
<1>6. c # b /\ c \notin DOMAIN f /\ f[b] - sz - 20 \in Nat /\ \A x \in DOMAIN f : f[x] \in Nat
  BY <1>1, <1>2, <1>3 DEF Chained
<1>7. /\ g[b] = sz /\ g[c] = f[b] - sz - 20
      /\ \A x \in DOMAIN f : x # b => g[x] = f[x]
  BY <1>4, <1>6
<1>8. g \in [DOMAIN f \cup {c} -> Nat]
  BY <1>4, <1>6
<1> QED
  BY <1>2, <1>3, <1>5, <1>7, <1>8 DEF IsCut

\* Block b of f was split.
Cuts(f, b, sz, g) ==
    /\ IsCut(f, b, sz, g) /\ Chained(g)
    /\ DOMAIN g = DOMAIN f \cup {b + sz + 20} /\ b + sz + 20 \notin DOMAIN f

\* A chain with a block split is a chain.
LEMMA CutChained ==
    ASSUME NEW f, Chained(f), NEW b \in DOMAIN f, NEW sz \in Nat, sz + 20 <= f[b], sz % 4 = 0,
           b + sz + 20 \notin DOMAIN f, NEW g, IsCut(f, b, sz, g)
    PROVE  Cuts(f, b, sz, g)
<1>1. PICK c : c = b + sz + 20
  OBVIOUS
<1>2. PICK m \in Nat : m = f[b]
  BY ChainedIs
<1>3. /\ b \in Nat /\ b % 4 = 0 /\ m % 4 = 0 /\ Start <= b /\ b + m + 20 <= End
      /\ b + m + 20 = End \/ b + m + 20 \in DOMAIN f
  BY <1>2, ChainedIs, Follower
<1>4. Start \in Nat /\ End \in Nat
  BY Bounds
<1>5. c \in Nat /\ c \in Start .. End /\ c + (m - sz - 20) + 20 = b + m + 20 /\ b < c
  BY <1>1, <1>2, <1>3, <1>4
<1>6. c % 4 = 0 /\ (m - sz - 20) % 4 = 0
  <2>1. 20 % 4 = 0 /\ sz + 20 \in Int /\ b + sz \in Int /\ m - sz \in Int
    BY <1>2, <1>3
  <2>2. (b + sz) % 4 = 0 /\ (m - sz) % 4 = 0
    BY <1>2, <1>3, <2>1, WordSums
  <2>3. ((b + sz) + 20) % 4 = 0 /\ ((m - sz) - 20) % 4 = 0
    BY <2>1, <2>2, WordSums
  <2> QED
    BY <1>1, <1>2, <1>3, <2>3
<1>7. /\ g \in [DOMAIN f \cup {c} -> Nat] /\ g[b] = sz /\ g[c] = m - sz - 20
      /\ \A x \in DOMAIN f : x # b => g[x] = f[x]
      /\ c \notin DOMAIN f
  BY <1>1, <1>2 DEF IsCut
<1>8. DOMAIN g = DOMAIN f \cup {c}
  BY <1>7
<1>9. ASSUME NEW x \in DOMAIN g
      PROVE  /\ x \in Start .. End /\ x % 4 = 0 /\ g[x] % 4 = 0
             /\ x + g[x] + 20 = End \/ x + g[x] + 20 \in DOMAIN g
  <2>1. CASE x = b
    BY <1>1, <1>3, <1>4, <1>5, <1>7, <1>8, <2>1
  <2>2. CASE x = c
    BY <1>3, <1>5, <1>6, <1>7, <1>8, <2>2
  <2>3. CASE x # b /\ x # c
    <3>1. x \in DOMAIN f /\ g[x] = f[x]
      BY <1>7, <1>8, <2>3
    <3> QED
      BY <1>8, <3>1 DEF Chained
  <2> QED
    BY <2>1, <2>2, <2>3
<1>10. ASSUME NEW x \in DOMAIN g, NEW y \in DOMAIN g, x < y
       PROVE  x + g[x] + 20 <= y
  <2>1. x \in Nat /\ y \in Nat
    BY <1>5, <1>8, ChainedIs
  <2>2. \A z \in DOMAIN f : z # b => z \in Nat /\ f[z] \in Nat /\ (b + m + 20 <= z \/ z + f[z] + 20 <= b)
    BY <1>2, ChainedIs, BlocksApart
  <2>3. CASE x = b
    <3>1. y = c \/ (y \in DOMAIN f /\ y # b)
      BY <1>8, <1>10, <2>1, <2>3
    <3> QED
      BY <1>1, <1>2, <1>3, <1>5, <1>7, <1>10, <2>1, <2>2, <2>3, <3>1
  <2>4. CASE x = c
    <3>1. y \in DOMAIN f /\ y # b
      BY <1>5, <1>8, <1>10, <2>1, <2>4, <1>3
    <3> QED
      BY <1>1, <1>2, <1>3, <1>5, <1>7, <1>10, <2>1, <2>2, <2>4, <3>1
  <2>5. CASE x # b /\ x # c
    <3>1. x \in DOMAIN f /\ g[x] = f[x] /\ f[x] \in Nat
      BY <1>7, <1>8, <2>2, <2>5
    <3>2. CASE y = c
      BY <1>1, <1>2, <1>3, <1>5, <1>10, <2>1, <2>2, <2>5, <3>1, <3>2
    <3>3. CASE y # c
      <4>1. y \in DOMAIN f
        BY <1>8, <3>3
      <4> QED
        BY <1>10, <3>1, <4>1 DEF Chained
    <3> QED
      BY <3>2, <3>3
  <2> QED
    BY <2>3, <2>4, <2>5
<1>11. Start \in DOMAIN g /\ g \in [DOMAIN g -> Nat]
  BY <1>7, <1>8 DEF Chained
<1>12. Chained(g)
  BY <1>8, <1>9, <1>10, <1>11 DEF Chained
<1> QED
  BY <1>1, <1>8, <1>12 DEF Cuts

\* Splitting, with what it makes of the chain.
LEMMA CutEffect ==
    ASSUME NEW f, Chained(f), NEW b \in DOMAIN f, NEW sz \in Nat, sz + 20 <= f[b], sz % 4 = 0
    PROVE  Cuts(f, b, sz, Chain!Cut(f, b, sz))
<1>1. PICK g : g = Chain!Cut(f, b, sz)
  OBVIOUS
<1>2. b + sz + 20 \notin DOMAIN f /\ IsCut(f, b, sz, g)
  BY <1>1, CutIs
<1>3. Cuts(f, b, sz, g)
  BY <1>2, CutChained
<1> QED
  BY <1>1, <1>3

\* The map g from blocks to sizes that joining block b and its follower gives.
IsJoin(f, b, g) ==
    /\ g \in [DOMAIN f \ {b + f[b] + 20} -> Nat]
    /\ g[b] = f[b] + 20 + f[b + f[b] + 20]
    /\ \A x \in DOMAIN f : x # b /\ x # b + f[b] + 20 => g[x] = f[x]

\* Joining a block and its follower makes one block of both.
LEMMA JoinIs ==
    ASSUME NEW f, Chained(f), NEW b \in DOMAIN f, b + f[b] + 20 \in DOMAIN f
    PROVE  IsJoin(f, b, Chain!Join(f, b))
<1>1. b \in Nat /\ f[b] \in Nat
  BY ChainedIs
<1>2. PICK c \in DOMAIN f : c = b + f[b] + 20
  OBVIOUS
<1>3. PICK g : g = [x \in DOMAIN f \ {c} |-> IF x = b THEN f[b] + 20 + f[c] ELSE f[x]]
  OBVIOUS
<1>4. Chain!Join(f, b) = g
  BY <1>2, <1>3 DEF Chain!Join, Chain!After, Chain!BLCK_OVERHEAD
<1>5. b # c /\ f[b] + 20 + f[c] \in Nat /\ \A x \in DOMAIN f : f[x] \in Nat
  <2>1. f[c] \in Nat /\ \A x \in DOMAIN f : f[x] \in Nat
    BY ChainedIs
  <2> QED
    BY <1>1, <1>2, <2>1
<1>6. /\ g[b] = f[b] + 20 + f[c]
      /\ \A x \in DOMAIN f : x # b /\ x # c => g[x] = f[x]
  BY <1>3, <1>5
<1>7. g \in [DOMAIN f \ {c} -> Nat]
  BY <1>3, <1>5
<1> QED
  BY <1>2, <1>4, <1>6, <1>7 DEF IsJoin

\* A chain with two neighbours joined is a chain.
LEMMA JoinChained ==
    ASSUME NEW f, Chained(f), NEW b \in DOMAIN f, NEW c \in DOMAIN f, c = b + f[b] + 20,
           NEW g, IsJoin(f, b, g)
    PROVE  Chained(g) /\ DOMAIN g = DOMAIN f \ {c}
<1>1. PICK m \in Nat, k \in Nat : m = f[b] /\ k = f[c]
  BY ChainedIs
<1>2. /\ b \in Nat /\ b % 4 = 0 /\ m % 4 = 0 /\ Start <= b
      /\ c \in Nat /\ k % 4 = 0 /\ c + k + 20 <= End
      /\ c + k + 20 = End \/ c + k + 20 \in DOMAIN f
  BY <1>1, ChainedIs, Follower
<1>3. Start \in Nat /\ End \in Nat
  BY Bounds
<1>4. b < c /\ b + (m + 20 + k) + 20 = c + k + 20 /\ c # Start
  BY <1>1, <1>2, <1>3
<1>5. (m + 20 + k) % 4 = 0
  <2>1. 20 % 4 = 0 /\ m + 20 \in Int
    BY <1>1
  <2>2. (m + 20) % 4 = 0
    BY <1>2, <2>1, WordSums
  <2>3. ((m + 20) + k) % 4 = 0
    BY <1>2, <2>1, <2>2, WordSums
  <2> QED
    BY <1>1, <2>3
<1>6. /\ g \in [DOMAIN f \ {c} -> Nat] /\ g[b] = m + 20 + k
      /\ \A x \in DOMAIN f : x # b /\ x # c => g[x] = f[x]
  BY <1>1 DEF IsJoin
<1>7. DOMAIN g = DOMAIN f \ {c}
  BY <1>6
<1>8. \A z \in DOMAIN f : z # b => z \in Nat /\ f[z] \in Nat /\ (c <= z \/ z + f[z] + 20 <= b)
  BY <1>1, ChainedIs, BlocksApart
<1>9. \A z \in DOMAIN f : z # c => z \in Nat /\ f[z] \in Nat /\ (c + k + 20 <= z \/ z + f[z] + 20 <= c)
  BY <1>1, ChainedIs, BlocksApart
<1>10. ASSUME NEW x \in DOMAIN g
       PROVE  /\ x \in Start .. End /\ x % 4 = 0 /\ g[x] % 4 = 0
              /\ x + g[x] + 20 = End \/ x + g[x] + 20 \in DOMAIN g
  <2>1. CASE x = b
    <3>1. c + k + 20 # c
      BY <1>1, <1>2
    <3>2. b \in Start .. End
      BY <1>1, <1>2, <1>3
    <3> QED
      BY <1>2, <1>4, <1>5, <1>6, <1>7, <2>1, <3>1, <3>2
  <2>2. CASE x # b
    <3>1. x \in DOMAIN f /\ g[x] = f[x] /\ x # c
      BY <1>6, <1>7, <2>2
    <3>2. x + f[x] + 20 # c
      <4>1. c <= x \/ x + f[x] + 20 <= b
        BY <1>8, <2>2, <3>1
      <4>2. x \in Nat /\ f[x] \in Nat
        BY <1>8, <2>2, <3>1
      <4> QED
        BY <1>2, <1>4, <4>1, <4>2
    <3> QED
      BY <1>7, <3>1, <3>2 DEF Chained
  <2> QED
    BY <2>1, <2>2
<1>11. ASSUME NEW x \in DOMAIN g, NEW y \in DOMAIN g, x < y
       PROVE  x + g[x] + 20 <= y
  <2>1. x \in DOMAIN f /\ y \in DOMAIN f /\ x # c /\ y # c
    BY <1>7
  <2>2. x \in Nat /\ y \in Nat
    BY <1>8, <1>2, <2>1
  <2>3. CASE x = b
    <3>1. y # b
      BY <1>11, <2>2, <2>3
    <3>2. c <= y
      <4>1. f[y] \in Nat /\ (c <= y \/ y + f[y] + 20 <= b)
        BY <1>8, <2>1, <3>1
      <4> QED
        BY <1>11, <1>2, <2>2, <2>3, <4>1
    <3>3. c + k + 20 <= y
      <4>1. f[y] \in Nat /\ (c + k + 20 <= y \/ y + f[y] + 20 <= c)
        BY <1>9, <2>1
      <4> QED
        BY <1>2, <2>2, <3>2, <4>1
    <3> QED
      BY <1>1, <1>2, <1>4, <1>6, <2>2, <2>3, <3>3
  <2>4. CASE x # b
    BY <1>6, <1>11, <2>1, <2>4 DEF Chained
  <2> QED
    BY <2>3, <2>4
<1>12. Start \in DOMAIN g /\ g \in [DOMAIN g -> Nat]
  BY <1>4, <1>6, <1>7 DEF Chained
<1> QED
  BY <1>7, <1>10, <1>11, <1>12 DEF Chained

\* Block b of f and its follower c were joined.
Joins(f, b, c, g) == IsJoin(f, b, g) /\ Chained(g) /\ DOMAIN g = DOMAIN f \ {c}

\* Joining, with what it makes of the chain.
LEMMA JoinEffect ==
    ASSUME NEW f, Chained(f), NEW b \in DOMAIN f, NEW c \in DOMAIN f, c = b + f[b] + 20
    PROVE  Joins(f, b, c, Chain!Join(f, b))
<1>1. PICK g : g = Chain!Join(f, b)
  OBVIOUS
<1>2. IsJoin(f, b, g)
  BY <1>1, JoinIs
<1>3. Chained(g) /\ DOMAIN g = DOMAIN f \ {c}
  BY <1>2, JoinChained
<1> QED
  BY <1>1, <1>2, <1>3 DEF Joins

\* Words, headers and footers of the blocks f.
Layout(h, f) ==
    /\ IsHeap(h) /\ Chained(f) /\ Load(h, End) = 0
    /\ \A b \in DOMAIN f : size(h, b) = f[b] /\ Load(h, b + 16 + f[b]) = b

\* Walking the heap by sizes meets the blocks of the chain.
LEMMA WalkIs ==
    ASSUME NEW h, NEW f, Layout(h, f)
    PROVE  BlocksOf(h) = DOMAIN f
<1> DEFINE step(b) == b + size(h, b) + 20
           P(w) == w = [b \in Nat |-> IF b >= End THEN {} ELSE {b} \cup w[step(b)]]
           Walk == CHOOSE w : P(w)
           Closed(C) == \A y \in C : y < End => step(y) \in C
           R(b) == {x \in Nat : x < End /\ \A C \in SUBSET Nat : Closed(C) /\ b \in C => x \in C}
           W == [b \in Nat |-> IF b >= End THEN {} ELSE R(b)]
<1>1. BlocksOf(h) = Walk[Start]
  BY DEF BlocksOf, BLCK_OVERHEAD
<1>2. Start \in Nat /\ End \in Nat
  BY Bounds
<1>3. \A b \in Nat : size(h, b) \in Nat /\ step(b) \in Nat /\ b < step(b)
  BY LoadType DEF Layout, size
<1>4. ASSUME NEW b \in Nat, b < End
      PROVE  W[b] = {b} \cup W[step(b)]
  <2>1. W[b] = R(b)
    BY <1>2, <1>4
  <2>2. ASSUME NEW x \in R(b), x # b PROVE x \in W[step(b)]
    <3>1. step(b) < End
      <4>1. ASSUME step(b) >= End PROVE FALSE
        <5>1. Closed({b, step(b)}) /\ {b, step(b)} \in SUBSET Nat
          BY <1>2, <1>3, <4>1
        <5>2. x = step(b) /\ x < End
          BY <2>2, <5>1
        <5> QED
          BY <1>2, <1>3, <4>1, <5>2
      <4> QED
        BY <1>2, <1>3, <4>1
    <3>2. ASSUME NEW C \in SUBSET Nat, Closed(C), step(b) \in C PROVE x \in C
      <4>1. Closed(C \cup {b}) /\ C \cup {b} \in SUBSET Nat
        BY <3>2
      <4>2. x \in C \cup {b}
        BY <4>1, <2>2
      <4> QED
        BY <2>2, <4>2
    <3>3. x \in R(step(b))
      BY <2>2, <3>2
    <3>4. W[step(b)] = R(step(b))
      <4> HIDE DEF R
      <4> QED
        BY <1>2, <1>3, <3>1
    <3> QED
      BY <3>3, <3>4
  <2>3. b \in R(b)
    BY <1>4
  <2>4. ASSUME NEW x \in W[step(b)] PROVE x \in R(b)
    <3>1. step(b) \in Nat
      BY <1>3
    <3>2. x \in R(step(b))
      BY <1>2, <3>1
    <3>3. ASSUME NEW C \in SUBSET Nat, Closed(C), b \in C PROVE x \in C
      <4>1. step(b) \in C
        BY <1>4, <3>3
      <4> QED
        BY <3>2, <3>3, <4>1
    <3> QED
      BY <3>2, <3>3
  <2> HIDE DEF R, W, step
  <2> QED
    BY <2>1, <2>2, <2>3, <2>4
<1>5. P(W)
  <2>1. \A b \in Nat : b >= End => W[b] = {}
    OBVIOUS
  <2>2. W = [b \in Nat |-> W[b]]
    OBVIOUS
  <2>3. \A b \in Nat : W[b] = IF b >= End THEN {} ELSE {b} \cup W[step(b)]
    <3> HIDE DEF R, W, step
    <3>1. \A b \in Nat : b < End => W[b] = {b} \cup W[step(b)]
      BY ONLY <1>4
    <3>2. \A b \in Nat : b >= End \/ (b < End /\ ~ (b >= End))
      BY <1>2
    <3> QED
      BY ONLY <2>1, <3>1, <3>2
  <2> HIDE DEF W, step
  <2> QED
    BY <2>2, <2>3
<1>6. PICK w : w = Walk
  OBVIOUS
<1>7. P(w)
  <2> HIDE DEF P, W
  <2> QED
    BY <1>5, <1>6
<1>8. \A b \in Nat : w[b] = IF b >= End THEN {} ELSE {b} \cup w[step(b)]
  BY <1>7
<1>9. Chained(f) /\ \A b \in DOMAIN f : size(h, b) = f[b]
  BY DEF Layout
<1>10. \A b \in DOMAIN f : /\ b \in Nat /\ f[b] \in Nat /\ b < End /\ b + f[b] + 20 <= End
                           /\ step(b) = b + f[b] + 20
  <2> SUFFICES ASSUME NEW b \in DOMAIN f
               PROVE  /\ b \in Nat /\ f[b] \in Nat /\ b < End /\ b + f[b] + 20 <= End
                      /\ step(b) = b + f[b] + 20
    OBVIOUS
  <2>1. b \in Nat /\ f[b] \in Nat /\ b + f[b] + 20 <= End
    BY <1>9, ChainedIs
  <2> QED
    BY <1>2, <1>9, <2>1
<1> HIDE DEF P, W, R, Walk
<1> DEFINE Rest(b) == {x \in DOMAIN f : b <= x}
           Bad == {b \in DOMAIN f : w[b] # Rest(b)}
<1>11. ASSUME Bad # {} PROVE FALSE
  <2>1. Bad \in SUBSET Nat
    BY <1>10
  <2>2. \A x \in Bad : x <= End
    BY <1>10, <1>2
  <2>3. PICK b \in Bad : \A x \in Bad : x <= b
    <3> HIDE DEF Bad
    <3> QED
      BY <1>2, <1>11, <2>1, <2>2, Greatest
  <2>4. b \in DOMAIN f /\ b \in Nat /\ f[b] \in Nat /\ b < End
    BY <1>10
  <2>5. PICK c \in Nat : c = b + f[b] + 20
    BY <2>4
  <2>6. w[b] = {b} \cup w[c]
    <3>1. step(b) = c /\ ~ (b >= End)
      BY <1>2, <1>10, <2>4, <2>5
    <3> HIDE DEF step
    <3> QED
      BY <1>8, <2>4, <3>1
  <2>7. w[c] = {x \in DOMAIN f : c <= x}
    <3>1. CASE c = End
      <4>1. w[c] = {}
        <5>1. c >= End
          BY <1>2, <2>5, <3>1
        <5> HIDE DEF step
        <5> QED
          BY <1>8, <2>5, <5>1
      <4>2. \A x \in DOMAIN f : ~ (c <= x)
        BY <1>2, <1>10, <3>1
      <4> QED
        BY <4>1, <4>2
    <3>2. CASE c # End
      <4>1. c \in DOMAIN f
        BY <1>9, <2>4, <2>5, <3>2, Follower
      <4>2. c \notin Bad
        BY <2>3, <2>4, <2>5
      <4> QED
        BY <4>1, <4>2
    <3> QED
      BY <3>1, <3>2
  <2>8. \A x \in DOMAIN f : b <= x <=> (x = b \/ c <= x)
    <3> SUFFICES ASSUME NEW x \in DOMAIN f PROVE b <= x <=> (x = b \/ c <= x)
      OBVIOUS
    <3>1. x \in Nat /\ f[x] \in Nat
      BY <1>10
    <3>2. x # b => c <= x \/ x + f[x] + 20 <= b
      BY <1>9, <2>4, <2>5, BlocksApart
    <3> QED
      BY <2>4, <2>5, <3>1, <3>2
  <2>9. w[b] = Rest(b)
    BY <2>4, <2>6, <2>7, <2>8
  <2> QED
    BY <2>9
<1>12. w[Start] = Rest(Start)
  <2>1. Start \in DOMAIN f
    BY <1>9 DEF Chained
  <2> QED
    BY <1>11, <2>1
<1>13. Rest(Start) = DOMAIN f
  BY <1>9, ChainedIs
<1> QED
  BY <1>1, <1>6, <1>12, <1>13

-----------------------------------------------------------------------------
(* What an operation leaves alone.                                         *)

\* Outside the words from lo to hi, nothing but links of the blocks T differs.
Frame(h, g, lo, hi, T) ==
    \A a \in Nat : (a < lo \/ hi <= a) /\ (\A x \in T : a # x + 8 /\ a # x + 12)
                      => Load(g, a) = Load(h, a)

\* Two changes inside a frame are one.
LEMMA FrameTrans ==
    ASSUME NEW h, NEW g, NEW k, NEW lo, NEW hi, NEW T,
           Frame(h, g, lo, hi, T), Frame(g, k, lo, hi, T)
    PROVE  Frame(h, k, lo, hi, T)
  BY DEF Frame

\* A frame within a larger one.
LEMMA FrameMore ==
    ASSUME NEW h, NEW g, NEW lo \in Nat, NEW hi \in Nat, NEW T, Frame(h, g, lo, hi, T),
           NEW lo2 \in Nat, NEW hi2 \in Nat, lo2 <= lo, hi <= hi2,
           NEW T2, \A x \in T : x \in T2 \/ (x \in Nat /\ lo2 <= x /\ x + 20 <= hi2)
    PROVE  Frame(h, g, lo2, hi2, T2)
<1> SUFFICES ASSUME NEW a \in Nat, a < lo2 \/ hi2 <= a, \A x \in T2 : a # x + 8 /\ a # x + 12
             PROVE  Load(g, a) = Load(h, a)
  BY DEF Frame
<1>1. a < lo \/ hi <= a
  OBVIOUS
<1>2. ASSUME NEW x \in T PROVE a # x + 8 /\ a # x + 12
  <2>1. CASE x \in T2
    BY <2>1
  <2>2. CASE x \in Nat /\ lo2 <= x /\ x + 20 <= hi2
    BY <2>2
  <2> QED
    BY <2>1, <2>2
<1> QED
  BY <1>1, <1>2 DEF Frame

\* A change of links is one inside a frame, if the blocks are in the frame or
\* among those whose links it leaves open.
LEMMA OnlyLinksFrame ==
    ASSUME NEW h, NEW g, NEW T, OnlyLinks(h, g, T),
           NEW lo \in Nat, NEW hi \in Nat,
           NEW T2, \A x \in T : x \in T2 \/ (x \in Nat /\ lo <= x /\ x + 20 <= hi)
    PROVE  Frame(h, g, lo, hi, T2)
<1>1. Frame(h, g, hi, hi, T)
  BY DEF Frame, OnlyLinks
<1> SUFFICES ASSUME NEW a \in Nat, a < lo \/ hi <= a, \A x \in T2 : a # x + 8 /\ a # x + 12
             PROVE  Load(g, a) = Load(h, a)
  BY DEF Frame
<1>2. ASSUME NEW x \in T PROVE a # x + 8 /\ a # x + 12
  <2>1. CASE x \in T2
    BY <2>1
  <2>2. CASE x \in Nat /\ lo <= x /\ x + 20 <= hi
    BY <2>2
  <2> QED
    BY <2>1, <2>2
<1> QED
  BY <1>2 DEF OnlyLinks

\* The words of block x, but for the links if it is in T, are the same.
BlockKept(h, g, T, x, n) ==
    \A a \in Nat : x <= a /\ a < x + n + 20 /\ (x \notin T \/ (a # x + 8 /\ a # x + 12))
                      => Load(g, a) = Load(h, a)

\* A block outside the frame keeps its words.
LEMMA FrameBlock ==
    ASSUME NEW f, Chained(f), NEW T, T \subseteq DOMAIN f, NEW h, NEW g,
           NEW lo \in Nat, NEW hi \in Nat, Frame(h, g, lo, hi, T),
           NEW x \in DOMAIN f, x + f[x] + 20 <= lo \/ hi <= x
    PROVE  BlockKept(h, g, T, x, f[x])
<1> SUFFICES ASSUME NEW a \in Nat, x <= a, a < x + f[x] + 20,
                    x \notin T \/ (a # x + 8 /\ a # x + 12)
             PROVE  Load(g, a) = Load(h, a)
  BY DEF BlockKept
<1>1. x \in Nat /\ f[x] \in Nat
  BY ChainedIs
<1>2. ASSUME NEW y \in T PROVE a # y + 8 /\ a # y + 12
  <2>1. y \in DOMAIN f /\ y \in Nat /\ f[y] \in Nat
    BY ChainedIs
  <2>2. CASE y = x
    BY <2>2
  <2>3. CASE y # x
    <3>1. x + f[x] + 20 <= y \/ y + f[y] + 20 <= x
      BY <2>1, <2>3, BlocksApart
    <3> QED
      BY <1>1, <2>1, <3>1
  <2> QED
    BY <2>2, <2>3
<1>3. a < lo \/ hi <= a
  BY <1>1
<1> QED
  BY <1>2, <1>3 DEF Frame

\* Header and footer of a block outside the frame.
LEMMA FrameHeader ==
    ASSUME NEW f, Chained(f), NEW T, T \subseteq DOMAIN f, NEW h, NEW g,
           NEW lo \in Nat, NEW hi \in Nat, Frame(h, g, lo, hi, T),
           NEW x \in DOMAIN f, x + f[x] + 20 <= lo \/ hi <= x
    PROVE  /\ size(g, x) = size(h, x) /\ hole(g, x) = hole(h, x)
           /\ Load(g, x + 16 + f[x]) = Load(h, x + 16 + f[x])
           /\ x \notin T => next(g, x) = next(h, x) /\ prev(g, x) = prev(h, x)
<1>1. x \in Nat /\ f[x] \in Nat
  BY ChainedIs
<1>2. BlockKept(h, g, T, x, f[x])
  BY FrameBlock
<1>3. PICK n \in Nat : n = f[x]
  BY <1>1
<1>4. /\ Load(g, x) = Load(h, x) /\ Load(g, x + 4) = Load(h, x + 4)
      /\ Load(g, x + 16 + n) = Load(h, x + 16 + n)
  BY <1>1, <1>2, <1>3 DEF BlockKept
<1>5. x \notin T => Load(g, x + 8) = Load(h, x + 8) /\ Load(g, x + 12) = Load(h, x + 12)
  BY <1>1, <1>2, <1>3 DEF BlockKept
<1> QED
  BY <1>3, <1>4, <1>5 DEF size, hole, next, prev

\* The word behind the heap.
LEMMA FrameEnd ==
    ASSUME NEW f, Chained(f), NEW T, T \subseteq DOMAIN f, NEW h, NEW g,
           NEW lo \in Nat, NEW hi \in Nat, Frame(h, g, lo, hi, T), hi <= End
    PROVE  Load(g, End) = Load(h, End)
<1>1. End \in Nat
  BY Bounds
<1>2. ASSUME NEW y \in T PROVE End # y + 8 /\ End # y + 12
  <2>1. y \in Nat /\ f[y] \in Nat /\ y + f[y] + 20 <= End
    BY ChainedIs
  <2> QED
    BY <1>1, <2>1
<1> QED
  BY <1>1, <1>2 DEF Frame

\* Lists stay lists among other blocks as long as heads and links do.
LEMMA LinkedKept ==
    ASSUME NEW h, NEW S, NEW L, Linked(h, S, L), NEW g, IsHeap(g), g.bins = h.bins,
           NEW S2, Apart(S2), FreeOf(L) \subseteq S2,
           \A x \in FreeOf(L) : next(g, x) = next(h, x) /\ prev(g, x) = prev(h, x)
    PROVE  Linked(g, S2, L)
<1>1. /\ L \in [0 .. 8 -> Seq(S)]
      /\ \A i \in 0 .. 8 : IsList(h, i, L[i])
      /\ \A i, j \in 0 .. 8 : i # j => ToSet(L[i]) \cap ToSet(L[j]) = {}
  BY DEF Linked
<1>2. \A x : x \in FreeOf(L) <=> \E i \in 0 .. 8 : x \in ToSet(L[i])
  BY <1>1, FreeOfIs
<1>3. ASSUME NEW i \in 0 .. 8 PROVE L[i] \in Seq(S2) /\ IsList(g, i, L[i])
  <2>1. PICK s \in Seq(S) : s = L[i]
    BY <1>1
  <2>2. ToSet(s) \subseteq FreeOf(L)
    BY <1>2, <2>1
  <2>3. s \in Seq(S2)
    <3>1. ToSet(s) \subseteq S2
      BY <2>2
    <3> QED
      BY <3>1, OverMembers
  <2>4. ASSUME NEW k \in 1 .. Len(s)
        PROVE  next(g, s[k]) = next(h, s[k]) /\ prev(g, s[k]) = prev(h, s[k])
    <3>1. s[k] \in ToSet(s)
      BY ToSetIs
    <3> QED
      BY <2>2, <3>1
  <2>5. IsList(g, i, s)
    <3>1. Len(s) \in Nat /\ IsList(h, i, s) /\ g.bins[i] = h.bins[i]
      BY <1>1, <2>1
    <3> QED
      BY <2>4, <3>1, ListKept
  <2> QED
    BY <2>1, <2>3, <2>5
<1>4. L \in [0 .. 8 -> Seq(S2)]
  BY <1>1, <1>3
<1> QED
  BY <1>1, <1>3, <1>4 DEF Linked

\* Only the sizes of the blocks in the lists count.
LEMMA SortedKept ==
    ASSUME NEW h, NEW S, NEW L, Linked(h, S, L), NEW f, Sorted(f, L),
           NEW f2, \A x \in FreeOf(L) : f2[x] = f[x]
    PROVE  Sorted(f2, L)
<1>1. L \in [0 .. 8 -> Seq(S)]
  BY DEF Linked
<1>2. \A x : x \in FreeOf(L) <=> \E i \in 0 .. 8 : x \in ToSet(L[i])
  BY <1>1, FreeOfIs
<1>3. ASSUME NEW i \in 0 .. 8 PROVE SortedList(f2, L[i], i)
  <2>1. PICK s \in Seq(S) : s = L[i]
    BY <1>1
  <2>2. \A k \in 1 .. Len(s) : f2[s[k]] = f[s[k]]
    <3> SUFFICES ASSUME NEW k \in 1 .. Len(s) PROVE f2[s[k]] = f[s[k]]
      OBVIOUS
    <3>1. s[k] \in ToSet(s)
      BY ToSetIs
    <3> QED
      BY <1>2, <2>1, <3>1
  <2>3. SortedList(f, s, i)
    BY <2>1 DEF Sorted
  <2>4. SortedList(f2, s, i)
    BY <2>2, <2>3 DEF SortedList
  <2> QED
    BY <2>1, <2>4
<1> QED
  BY <1>3 DEF Sorted

\* A block is in the bin of its size.
LEMMA InItsBin ==
    ASSUME NEW h, NEW S, NEW L, Linked(h, S, L), NEW f, Sorted(f, L), NEW b \in FreeOf(L),
           f[b] \in Nat
    PROVE  /\ get_bin_index(f[b]) \in 0 .. 8
           /\ b \in ToSet(L[get_bin_index(f[b])])
           /\ \A i \in 0 .. 8 : b \in ToSet(L[i]) => i = get_bin_index(f[b])
<1>1. L \in [0 .. 8 -> Seq(S)]
  BY DEF Linked
<1>2. PICK j \in 0 .. 8 : b \in ToSet(L[j])
  BY <1>1, FreeOfIs
<1>3. ASSUME NEW i \in 0 .. 8, b \in ToSet(L[i]) PROVE i = get_bin_index(f[b])
  <2>1. PICK s \in Seq(S) : s = L[i]
    BY <1>1
  <2>2. PICK k \in 1 .. Len(s) : b = s[k]
    BY <1>3, <2>1, ToSetIs
  <2> QED
    BY <2>1, <2>2 DEF Sorted, SortedList
<1>4. get_bin_index(f[b]) \in 0 .. 8
  BY BinIndexIs
<1> QED
  BY <1>2, <1>3, <1>4

\* A header of n bytes with the hole flag v, and its footer, were written at c.
Headed(h, g, c, n, v) ==
    /\ IsHeap(g) /\ g.bins = h.bins
    /\ \A a : Load(g, a) = IF a = c THEN v ELSE IF a = c + 4 THEN n
                           ELSE IF a = c + 16 + n THEN c ELSE Load(h, a)

\* Room for a block of n bytes at c.
Fitted(c, n) ==
    /\ c \in Nat /\ n \in Nat /\ c % 4 = 0 /\ n % 4 = 0
    /\ Start <= c /\ c + n + 20 <= End

\* The words of a header and of its footer are words of the heap, and their
\* addresses do not wrap around.
LEMMA FittedWords ==
    ASSUME NEW c, NEW n, Fitted(c, n)
    PROVE  /\ Word(c) /\ Word(c + 4) /\ Word(c + 16 + n)
           /\ c \in 0 .. AddrSpace - 1 /\ n \in 0 .. AddrSpace - 1
           /\ u32(c + 16 + n) = c + 16 + n
<1>1. /\ Start \in Nat /\ End \in Nat /\ AddrSpace \in Nat /\ End < AddrSpace
      /\ c \in Nat /\ n \in Nat /\ c % 4 = 0 /\ n % 4 = 0 /\ Start <= c /\ c + n + 20 <= End
  BY Bounds DEF Fitted
<1>2. (c + 4) % 4 = 0 /\ (c + 16 + n) % 4 = 0
  <2>1. 4 % 4 = 0 /\ 16 % 4 = 0 /\ c + 16 \in Int
    BY <1>1
  <2>2. (c + 4) % 4 = 0 /\ (c + 16) % 4 = 0
    BY <1>1, <2>1, WordSums
  <2>3. ((c + 16) + n) % 4 = 0
    BY <1>1, <2>1, <2>2, WordSums
  <2> QED
    BY <2>2, <2>3
<1>3. Word(c) /\ Word(c + 4) /\ Word(c + 16 + n)
  BY <1>1, <1>2 DEF Word
<1>4. PICK x \in Nat : x = c + 16 + n /\ x < AddrSpace
  BY <1>1
<1>5. x % AddrSpace = x
  BY <1>1, <1>4
<1>6. c \in 0 .. AddrSpace - 1 /\ n \in 0 .. AddrSpace - 1
  BY <1>1
<1> QED
  BY <1>3, <1>4, <1>5, <1>6 DEF u32

\* The footer of a block is written behind the size in its header.
LEMMA FootStored ==
    ASSUME NEW h, IsHeap(h), NEW c, NEW n, Fitted(c, n), size(h, c) = n,
           NEW g, g = create_foot(h, c)
    PROVE  /\ IsHeap(g) /\ g.bins = h.bins
           /\ \A a : Load(g, a) = IF a = c + 16 + n THEN c ELSE Load(h, a)
<1>1. get_foot(h, c) = c + 16 + n
  BY FittedWords DEF get_foot
<1>2. \A a \in {c + 16 + n} : Word(a)
  BY FittedWords
<1>3. c \in 0 .. AddrSpace - 1
  BY FittedWords
<1>4. PICK A : A = {c + 16 + n}
  OBVIOUS
<1>5. g = Store(h, A, c)
  BY <1>1, <1>4 DEF create_foot
<1>6. \A a \in A : Word(a)
  BY <1>2, <1>4
<1>7. /\ IsHeap(g) /\ g.bins = h.bins
      /\ \A a : Load(g, a) = IF a \in A THEN c ELSE Load(h, a)
  BY <1>3, <1>5, <1>6, StoreLoad
<1> QED
  BY <1>4, <1>7

\* A store to a size field changes that word.
LEMMA SizeStored ==
    ASSUME NEW h, IsHeap(h), NEW c, NEW n, Fitted(c, n), NEW g, g = SetSize(h, c, n)
    PROVE  /\ IsHeap(g) /\ g.bins = h.bins
           /\ \A a : Load(g, a) = IF a = c + 4 THEN n ELSE Load(h, a)
<1>1. PICK A : A = {c + 4}
  OBVIOUS
<1>2. g = Store(h, A, n) /\ n \in 0 .. AddrSpace - 1 /\ \A a \in A : Word(a)
  BY <1>1, FittedWords DEF SetSize
<1>3. /\ IsHeap(g) /\ g.bins = h.bins
      /\ \A a : Load(g, a) = IF a \in A THEN n ELSE Load(h, a)
  BY <1>2, StoreLoad
<1> QED
  BY <1>1, <1>3

\* A store to a hole field changes that word.
LEMMA HoleStored ==
    ASSUME NEW h, IsHeap(h), NEW c, Word(c), NEW v \in {0, 1}, NEW g, g = SetHole(h, c, v)
    PROVE  /\ IsHeap(g) /\ g.bins = h.bins
           /\ \A a : Load(g, a) = IF a = c THEN v ELSE Load(h, a)
<1>1. PICK A : A = {c}
  OBVIOUS
<1>2. v \in 0 .. AddrSpace - 1
  BY Bounds
<1>3. g = Store(h, A, v) /\ \A a \in A : Word(a)
  BY <1>1 DEF SetHole
<1>4. /\ IsHeap(g) /\ g.bins = h.bins
      /\ \A a : Load(g, a) = IF a \in A THEN v ELSE Load(h, a)
  BY <1>2, <1>3, StoreLoad
<1> QED
  BY <1>1, <1>4

\* Size, flag and footer; kheap.c writes the flag before or after the footer.
LEMMA HeadedFoot ==
    ASSUME NEW h, IsHeap(h), NEW c, NEW n, Fitted(c, n), NEW v \in {0, 1}
    PROVE  Headed(h, create_foot(SetHole(SetSize(h, c, n), c, v), c), c, n, v)
<1>1. PICK h1 : h1 = SetSize(h, c, n)
  OBVIOUS
<1>2. PICK h2 : h2 = SetHole(h1, c, v)
  OBVIOUS
<1>3. PICK g : g = create_foot(h2, c)
  OBVIOUS
<1>4. /\ IsHeap(h1) /\ h1.bins = h.bins
      /\ \A a : Load(h1, a) = IF a = c + 4 THEN n ELSE Load(h, a)
  BY <1>1, SizeStored
<1>5. /\ IsHeap(h2) /\ h2.bins = h1.bins
      /\ \A a : Load(h2, a) = IF a = c THEN v ELSE Load(h1, a)
  <2>1. Word(c)
    BY FittedWords
  <2> QED
    BY <1>2, <1>4, <2>1, HoleStored
<1>6. c \in Nat /\ n \in Nat
  BY DEF Fitted
<1>7. size(h2, c) = n
  BY <1>4, <1>5, <1>6 DEF size
<1>8. /\ IsHeap(g) /\ g.bins = h2.bins
      /\ \A a : Load(g, a) = IF a = c + 16 + n THEN c ELSE Load(h2, a)
  BY <1>3, <1>5, <1>7, FootStored
<1>9. ASSUME NEW a
      PROVE  Load(g, a) = IF a = c THEN v ELSE IF a = c + 4 THEN n
                          ELSE IF a = c + 16 + n THEN c ELSE Load(h, a)
  <2>1. PICK d, e : d = c + 4 /\ e = c + 16 + n
    OBVIOUS
  <2>2. c # d /\ c # e /\ d # e
    BY <1>6, <2>1
  <2>3. \A x : Load(h1, x) = IF x = d THEN n ELSE Load(h, x)
    BY <1>4, <2>1
  <2>4. \A x : Load(g, x) = IF x = e THEN c ELSE Load(h2, x)
    BY <1>8, <2>1
  <2>5. \A x : Load(h2, x) = IF x = c THEN v ELSE Load(h1, x)
    BY <1>5
  <2>6. Load(g, a) = IF a = c THEN v ELSE IF a = d THEN n ELSE IF a = e THEN c ELSE Load(h, a)
    BY <2>2, <2>3, <2>4, <2>5
  <2> QED
    BY <2>1, <2>6
<1>10. Headed(h, g, c, n, v)
  BY <1>4, <1>5, <1>8, <1>9 DEF Headed
<1> QED
  BY <1>1, <1>2, <1>3, <1>10

\* Size, footer and hole flag, stored one after the other.
LEMMA HeadedFlag ==
    ASSUME NEW h, IsHeap(h), NEW c, NEW n, Fitted(c, n), NEW v \in {0, 1}
    PROVE  Headed(h, SetHole(create_foot(SetSize(h, c, n), c), c, v), c, n, v)
<1>1. PICK h1 : h1 = SetSize(h, c, n)
  OBVIOUS
<1>2. PICK h2 : h2 = create_foot(h1, c)
  OBVIOUS
<1>3. PICK g : g = SetHole(h2, c, v)
  OBVIOUS
<1>4. /\ IsHeap(h1) /\ h1.bins = h.bins
      /\ \A a : Load(h1, a) = IF a = c + 4 THEN n ELSE Load(h, a)
  BY <1>1, SizeStored
<1>5. size(h1, c) = n
  BY <1>4 DEF size
<1>6. /\ IsHeap(h2) /\ h2.bins = h1.bins
      /\ \A a : Load(h2, a) = IF a = c + 16 + n THEN c ELSE Load(h1, a)
  BY <1>2, <1>4, <1>5, FootStored
<1>7. /\ IsHeap(g) /\ g.bins = h2.bins
      /\ \A a : Load(g, a) = IF a = c THEN v ELSE Load(h2, a)
  <2>1. Word(c)
    BY FittedWords
  <2> QED
    BY <1>3, <1>6, <2>1, HoleStored
<1>8. c \in Nat /\ n \in Nat
  BY DEF Fitted
<1>9. ASSUME NEW a
      PROVE  Load(g, a) = IF a = c THEN v ELSE IF a = c + 4 THEN n
                          ELSE IF a = c + 16 + n THEN c ELSE Load(h, a)
  <2>1. PICK d, e : d = c + 4 /\ e = c + 16 + n
    OBVIOUS
  <2>2. c # d /\ c # e /\ d # e
    BY <1>8, <2>1
  <2>3. \A x : Load(h1, x) = IF x = d THEN n ELSE Load(h, x)
    BY <1>4, <2>1
  <2>4. \A x : Load(h2, x) = IF x = e THEN c ELSE Load(h1, x)
    BY <1>6, <2>1
  <2>5. \A x : Load(g, x) = IF x = c THEN v ELSE Load(h2, x)
    BY <1>7
  <2>6. Load(g, a) = IF a = c THEN v ELSE IF a = d THEN n ELSE IF a = e THEN c ELSE Load(h, a)
    BY <2>2, <2>3, <2>4, <2>5
  <2> QED
    BY <2>1, <2>6
<1>10. Headed(h, g, c, n, v)
  BY <1>4, <1>6, <1>7, <1>9 DEF Headed
<1> QED
  BY <1>1, <1>2, <1>3, <1>10

\* A new header stays within its block.
LEMMA HeadedFrame ==
    ASSUME NEW h, NEW g, NEW c, NEW n, NEW v, Headed(h, g, c, n, v), c \in Nat, n \in Nat,
           NEW lo \in Nat, NEW hi \in Nat, lo <= c, c + n + 20 <= hi, NEW T
    PROVE  Frame(h, g, lo, hi, T)
<1> SUFFICES ASSUME NEW a \in Nat, a < lo \/ hi <= a
             PROVE  Load(g, a) = Load(h, a)
  BY DEF Frame
<1>1. a # c /\ a # c + 4 /\ a # c + 16 + n
  OBVIOUS
<1> QED
  BY <1>1 DEF Headed

\* It does not touch the links of other blocks, nor its own.
LEMMA HeadedLinks ==
    ASSUME NEW h, NEW g, NEW c, NEW n, NEW v, Headed(h, g, c, n, v), c \in Nat, n \in Nat,
           NEW x \in Nat, x = c \/ x + 20 <= c \/ c + n + 20 <= x
    PROVE  /\ next(g, x) = next(h, x) /\ prev(g, x) = prev(h, x)
           /\ x # c => hole(g, x) = hole(h, x) /\ size(g, x) = size(h, x)
<1>1. /\ \A d \in {8, 12} : x + d # c /\ x + d # c + 4 /\ x + d # c + 16 + n
      /\ x # c => \A d \in {0, 4} : x + d # c /\ x + d # c + 4 /\ x + d # c + 16 + n
  OBVIOUS
<1> QED
  BY <1>1 DEF Headed, next, prev, hole, size

\* Header and footer of a block of n bytes at x, with the hole flag v.
Header(h, x, n, v) ==
    hole(h, x) = v /\ size(h, x) = n /\ Load(h, x + 16 + n) = x

\* What was stored is a header with its footer.
LEMMA HeadedHeader ==
    ASSUME NEW h, NEW g, NEW c, NEW n, NEW v, Headed(h, g, c, n, v), c \in Nat, n \in Nat
    PROVE  Header(g, c, n, v)
<1>1. c # c + 4 /\ c # c + 16 + n /\ c + 4 # c + 16 + n
  OBVIOUS
<1> QED
  BY <1>1 DEF Headed, Header, hole, size

\* A header outside a frame is kept.
LEMMA HeaderFrame ==
    ASSUME NEW f, Chained(f), NEW T, T \subseteq DOMAIN f, NEW h, NEW g,
           NEW lo \in Nat, NEW hi \in Nat, Frame(h, g, lo, hi, T),
           NEW x \in DOMAIN f, x + f[x] + 20 <= lo \/ hi <= x,
           NEW v, Header(h, x, f[x], v)
    PROVE  Header(g, x, f[x], v)
<1>1. /\ size(g, x) = size(h, x) /\ hole(g, x) = hole(h, x)
      /\ Load(g, x + 16 + f[x]) = Load(h, x + 16 + f[x])
  BY FrameHeader
<1> QED
  BY <1>1 DEF Header

\* A header is kept when links change.
LEMMA HeaderLinks ==
    ASSUME NEW f, Chained(f), NEW T, T \subseteq DOMAIN f, NEW h, NEW g, OnlyLinks(h, g, T),
           NEW x \in DOMAIN f, NEW v, Header(h, x, f[x], v)
    PROVE  Header(g, x, f[x], v)
<1>1. Frame(h, g, 0, 0, T)
  BY DEF OnlyLinks, Frame
<1>2. 0 <= x /\ 0 \in Nat
  BY ChainedIs
<1> QED
  BY <1>1, <1>2, HeaderFrame

\* What Give makes of a heap whose block b has n bytes.
Given(h, g, b, n) == Cleared(h, g, b + 8, b + 16 + n)

\* Give clears the words between the header and the footer of the block.
LEMMA GiveIs ==
    ASSUME NEW h, IsHeap(h), NEW b \in Nat, NEW n \in Nat, size(h, b) = n
    PROVE  Given(h, Give(h, b), b, n)
<1>1. Give(h, b) = Zero(h, b + 8, n + 8)
  BY DEF Give, OFFSET
<1>2. b + 8 \in Nat /\ n + 8 \in Nat /\ (b + 8) + (n + 8) = b + 16 + n
  OBVIOUS
<1>3. Cleared(h, Zero(h, b + 8, n + 8), b + 8, (b + 8) + (n + 8))
  BY <1>2, ZeroLoad
<1> QED
  BY <1>1, <1>2, <1>3 DEF Given

\* Give keeps the header and the footer.
LEMMA GivenHeader ==
    ASSUME NEW h, NEW g, NEW b \in Nat, NEW n \in Nat, Given(h, g, b, n),
           NEW v, Header(h, b, n, v)
    PROVE  Header(g, b, n, v)
<1>1. \A a \in {b, b + 4, b + 16 + n} : ~ (b + 8 <= a /\ a < b + 16 + n)
  OBVIOUS
<1> QED
  BY <1>1 DEF Given, Cleared, Header, hole, size

\* Give touches nothing outside the block.
LEMMA GivenFrame ==
    ASSUME NEW h, NEW g, NEW b \in Nat, NEW n \in Nat, Given(h, g, b, n),
           NEW lo \in Nat, NEW hi \in Nat, lo <= b, b + n + 20 <= hi, NEW T
    PROVE  Frame(h, g, lo, hi, T)
<1> SUFFICES ASSUME NEW a \in Nat, a < lo \/ hi <= a
             PROVE  Load(g, a) = Load(h, a)
  BY DEF Frame
<1>1. ~ (b + 8 <= a /\ a < b + 16 + n)
  OBVIOUS
<1> QED
  BY <1>1 DEF Given, Cleared

\* Give keeps the links of the other blocks.
LEMMA GivenLinks ==
    ASSUME NEW h, NEW g, NEW b \in Nat, NEW n \in Nat, Given(h, g, b, n),
           NEW x \in Nat, x + 20 <= b \/ b + n + 20 <= x
    PROVE  next(g, x) = next(h, x) /\ prev(g, x) = prev(h, x)
<1>1. \A a \in {x + 8, x + 12} : ~ (b + 8 <= a /\ a < b + 16 + n)
  OBVIOUS
<1> QED
  BY <1>1 DEF Given, Cleared, next, prev

-----------------------------------------------------------------------------
(* The whole heap.                                                         *)

\* Header and footer of block x are right.
Intact(h, f, x) == size(h, x) = f[x] /\ Load(h, x + 16 + f[x]) = x

\* The hole flag of block x says whether it is in a bin.
FlagIs(h, L, x) == (hole(h, x) # 0) <=> (x \in FreeOf(L))

\* The heap is the chain f with the bins L; nothing is said of the flags of
\* the blocks Y.
Shape(h, f, L, Y) ==
    /\ IsHeap(h) /\ Chained(f) /\ Load(h, End) = 0
    /\ \A x \in DOMAIN f : Intact(h, f, x)
    /\ Linked(h, DOMAIN f, L) /\ Sorted(f, L)
    /\ \A x \in DOMAIN f \ Y : FlagIs(h, L, x)

\* Block x lies outside the words from lo to hi, and is the same in both
\* chains and bins.
Same(f, L, Y, f2, L2, lo, hi, x) ==
    /\ x \in DOMAIN f \ Y /\ f2[x] = f[x]
    /\ x + f[x] + 20 <= lo \/ hi <= x
    /\ (x \in FreeOf(L2)) <=> (x \in FreeOf(L))

\* A heap has its shape again after an operation, if the bins do, and every block
\* is unchanged or has a right header, footer and flag.
LEMMA ShapeFrom ==
    ASSUME NEW h, NEW f, NEW L, NEW Y, Shape(h, f, L, Y),
           NEW g, NEW lo \in Nat, NEW hi \in Nat, hi <= End,
           NEW T, T \subseteq DOMAIN f, Frame(h, g, lo, hi, T),
           NEW f2, Chained(f2), NEW L2, Linked(g, DOMAIN f2, L2), Sorted(f2, L2), NEW Y2,
           \A x \in DOMAIN f2 : \/ Same(f, L, Y, f2, L2, lo, hi, x)
                                \/ Intact(g, f2, x) /\ (x \in Y2 \/ FlagIs(g, L2, x))
    PROVE  Shape(g, f2, L2, Y2)
<1>1. /\ Chained(f) /\ Load(h, End) = 0 /\ \A x \in DOMAIN f : Intact(h, f, x)
      /\ \A x \in DOMAIN f \ Y : FlagIs(h, L, x)
  BY DEF Shape
<1>2. Load(g, End) = 0
  BY <1>1, FrameEnd
<1>3. ASSUME NEW x \in DOMAIN f2 PROVE Intact(g, f2, x) /\ (x \in Y2 \/ FlagIs(g, L2, x))
  <2>1. CASE Same(f, L, Y, f2, L2, lo, hi, x)
    <3>1. /\ x \in DOMAIN f /\ x \notin Y /\ f2[x] = f[x]
          /\ x + f[x] + 20 <= lo \/ hi <= x
          /\ (x \in FreeOf(L2)) <=> (x \in FreeOf(L))
      BY <2>1 DEF Same
    <3>2. /\ size(g, x) = size(h, x) /\ hole(g, x) = hole(h, x)
          /\ Load(g, x + 16 + f[x]) = Load(h, x + 16 + f[x])
      BY <1>1, <3>1, FrameHeader
    <3> QED
      BY <1>1, <3>1, <3>2 DEF Intact, FlagIs
  <2> QED
    BY <2>1
<1>4. IsHeap(g)
  BY DEF Linked
<1> QED
  BY <1>2, <1>3, <1>4 DEF Shape

\* What the shape of a heap says, piece by piece.
LEMMA ShapeIs ==
    ASSUME NEW h, NEW f, NEW L, NEW Y, Shape(h, f, L, Y)
    PROVE  /\ Layout(h, f) /\ IsHeap(h) /\ Chained(f) /\ Apart(DOMAIN f)
           /\ Linked(h, DOMAIN f, L) /\ Sorted(f, L)
           /\ L \in [0 .. 8 -> Seq(DOMAIN f)]
           /\ FreeOf(L) \subseteq DOMAIN f
           /\ \A x \in DOMAIN f : f[x] \in Nat /\ size(h, x) = f[x]
<1>1. Linked(h, DOMAIN f, L) /\ Chained(f) /\ Sorted(f, L)
  BY DEF Shape
<1>2. L \in [0 .. 8 -> Seq(DOMAIN f)]
  BY <1>1 DEF Linked
<1>3. FreeOf(L) \subseteq DOMAIN f
  BY <1>2, FreeOfIs
<1>4. IsHeap(h) /\ \A x \in DOMAIN f : size(h, x) = f[x] /\ Load(h, x + 16 + f[x]) = x
  BY DEF Shape, Intact
<1>5. \A x \in DOMAIN f : f[x] \in Nat
  BY <1>1, ChainedIs
<1>6. Layout(h, f)
  BY <1>1, <1>4 DEF Layout, Shape
<1> QED
  BY <1>1, <1>2, <1>3, <1>4, <1>5, <1>6, ChainedApart

\* What the caller who asked for n bytes at block x finds there.
Payload(h, x, n, r) ==
    /\ r \in [sz : Sizes \cup PageSizes, data : {0, Pattern}]
    /\ r.sz <= n
    /\ \A a \in Nat : x + 8 <= a /\ a < x + 16 + r.sz =>
          Load(h, a) = IF r.data = Pattern /\ a \in UsedWords(x + 8, r.sz) THEN Pattern ELSE 0

\* Callers own the blocks that are in no bin.
LiveIs(h, f, L, lv) ==
    /\ DOMAIN lv = {x + 8 : x \in DOMAIN f \ FreeOf(L)}
    /\ \A x \in DOMAIN f \ FreeOf(L) : Payload(h, x, f[x], lv[x + 8])

\* A block in use outside a frame keeps what its caller finds there.
LEMMA PayloadKept ==
    ASSUME NEW f, Chained(f), NEW T, T \subseteq DOMAIN f, NEW h, NEW g,
           NEW lo \in Nat, NEW hi \in Nat, Frame(h, g, lo, hi, T),
           NEW x \in DOMAIN f, x \notin T, x + f[x] + 20 <= lo \/ hi <= x,
           NEW r, Payload(h, x, f[x], r)
    PROVE  Payload(g, x, f[x], r)
<1>1. BlockKept(h, g, T, x, f[x])
  BY FrameBlock
<1>2. x \in Nat /\ f[x] \in Nat
  BY ChainedIs
<1>3. PICK n \in Nat : n = r.sz /\ n <= f[x]
  BY KHeapAssumption DEF Payload
<1>4. \A a \in Nat : x + 8 <= a /\ a < x + 16 + n => Load(g, a) = Load(h, a)
  BY <1>1, <1>2, <1>3 DEF BlockKept
<1> QED
  BY <1>3, <1>4 DEF Payload

\* Callers still own the blocks in no bin, if each of them is unchanged outside the
\* frame or as the caller expects it.
LEMMA LiveFrom ==
    ASSUME NEW h, NEW f, Chained(f), NEW L, FreeOf(L) \subseteq DOMAIN f,
           NEW lv, LiveIs(h, f, L, lv),
           NEW g, NEW lo \in Nat, NEW hi \in Nat, Frame(h, g, lo, hi, FreeOf(L)),
           NEW f2, NEW L2, NEW lv2, DOMAIN lv2 = {x + 8 : x \in DOMAIN f2 \ FreeOf(L2)},
           \A x \in DOMAIN f2 \ FreeOf(L2) :
              \/ /\ x \in DOMAIN f \ FreeOf(L) /\ f2[x] = f[x]
                 /\ x + f[x] + 20 <= lo \/ hi <= x
                 /\ lv2[x + 8] = lv[x + 8]
              \/ Payload(g, x, f2[x], lv2[x + 8])
    PROVE  LiveIs(g, f2, L2, lv2)
<1>1. ASSUME NEW x \in DOMAIN f2 \ FreeOf(L2) PROVE Payload(g, x, f2[x], lv2[x + 8])
  <2>1. CASE /\ x \in DOMAIN f \ FreeOf(L) /\ f2[x] = f[x]
             /\ x + f[x] + 20 <= lo \/ hi <= x
             /\ lv2[x + 8] = lv[x + 8]
    <3>1. Payload(h, x, f[x], lv[x + 8])
      BY <2>1 DEF LiveIs
    <3>2. Payload(g, x, f[x], lv[x + 8])
      BY <2>1, <3>1, PayloadKept
    <3> QED
      BY <2>1, <3>2
  <2> QED
    BY <2>1
<1> QED
  BY <1>1 DEF LiveIs

-----------------------------------------------------------------------------
(* kheap_alloc.                                                            *)

\* A header is written at c, and the block goes to its bin.
LEMMA NewHole ==
    ASSUME NEW h, NEW S, NEW L, Linked(h, S, L), NEW f, Sorted(f, L),
           NEW S2, Apart(S2), FreeOf(L) \subseteq S2,
           NEW f2, \A x \in FreeOf(L) : f2[x] = f[x], \A x \in S2 : f2[x] \in Nat,
           NEW c \in S2, c \notin FreeOf(L),
           \A x \in S2 : x # c => size(h, x) = f2[x] /\ (x + 20 <= c \/ c + f2[c] + 20 <= x),
           NEW k, Headed(h, k, c, f2[c], 1)
    PROVE  AddedTo(k, add_block_sorted(k, get_bin_index(f2[c]), c), S2, f2, L, c)
<1>1. c \in Nat /\ f2[c] \in Nat
  BY HeaderWords
<1>2. ASSUME NEW x \in S2
      PROVE  /\ next(k, x) = next(h, x) /\ prev(k, x) = prev(h, x)
             /\ size(k, x) = f2[x]
  <2>1. x \in Nat /\ (x = c \/ x + 20 <= c \/ c + f2[c] + 20 <= x)
    BY HeaderWords
  <2>2. /\ next(k, x) = next(h, x) /\ prev(k, x) = prev(h, x)
        /\ x # c => size(k, x) = size(h, x)
    BY <1>1, <2>1, HeadedLinks
  <2>3. size(k, c) = f2[c]
    BY <1>1, HeadedHeader DEF Header
  <2> QED
    BY <2>2, <2>3
<1>3. IsHeap(k) /\ k.bins = h.bins
  BY DEF Headed
<1>4. Linked(k, S2, L)
  <2>1. \A x \in FreeOf(L) : next(k, x) = next(h, x) /\ prev(k, x) = prev(h, x)
    BY <1>2
  <2> QED
    BY <1>3, <2>1, LinkedKept
<1>5. Sorted(f2, L)
  BY SortedKept
<1>6. get_bin_index(f2[c]) \in 0 .. 8
  BY <1>1, BinIndexIs
<1>7. \A x \in S2 : f2[x] \in Nat /\ size(k, x) = f2[x]
  BY <1>2
<1>8. PICK i \in 0 .. 8 : i = get_bin_index(f2[c])
  BY <1>6
<1>9. AddedTo(k, add_block_sorted(k, i, c), S2, f2, L, c)
  BY <1>4, <1>5, <1>7, <1>8, AddLinked
<1> QED
  BY <1>8, <1>9

\* Words of the caller that read 0.
Zeroed(g, b, sz) == \A a \in Nat : b + 8 <= a /\ a < b + 16 + sz => Load(g, a) = 0

\* Block b was given out to a caller who asked for sz bytes; nothing but free
\* blocks, between lo and hi, and links of free blocks changed.
Grant(h, f, L, g, f2, M, lo, hi, b, sz) ==
    /\ Shape(g, f2, M, {}) /\ Frame(h, g, lo, hi, FreeOf(L)) /\ Zeroed(g, b, sz)
    /\ DOMAIN f2 \ FreeOf(M) = (DOMAIN f \ FreeOf(L)) \cup {b}
    /\ b \notin DOMAIN f \ FreeOf(L) /\ b \in Nat /\ sz <= f2[b]
    /\ \A x \in DOMAIN f \ FreeOf(L) : f2[x] = f[x] /\ (x + f[x] + 20 <= lo \/ hi <= x)

\* The block that was split is given out, the rest of it is in a bin.
LEMMA SplitShape ==
    ASSUME NEW h, NEW f, NEW L, NEW Y, Shape(h, f, L, Y),
           NEW b \in FreeOf(L), Y \subseteq {b},
           NEW sz \in Nat, sz % 4 = 0, f[b] - sz > 24,
           NEW g, g = Give(remove_block(SetHole(Carve(h, b, sz), b, 0),
                                        get_bin_index(f[b]), b), b),
           NEW f2, f2 = Chain!Cut(f, b, sz)
    PROVE  \E M : /\ Grant(h, f, L, g, f2, M, b, b + f[b] + 20, b, sz)
                  /\ FreeOf(M) = (FreeOf(L) \ {b}) \cup {b + sz + 20}
<1>1. /\ IsHeap(h) /\ Chained(f) /\ Apart(DOMAIN f)
      /\ Linked(h, DOMAIN f, L) /\ Sorted(f, L)
      /\ FreeOf(L) \subseteq DOMAIN f
      /\ \A x \in DOMAIN f : f[x] \in Nat /\ size(h, x) = f[x]
  BY ShapeIs
<1>2. b \in DOMAIN f
  BY <1>1
<1>3. PICK m \in Nat : m = f[b]
  BY <1>1, <1>2
<1>4. /\ b \in Nat /\ b % 4 = 0 /\ m % 4 = 0 /\ Start <= b /\ b + m + 20 <= End
  BY <1>1, <1>2, <1>3, ChainedIs
<1>5. PICK c \in Nat, r \in Nat : c = b + sz + 20 /\ r = m - sz - 20
  <2>1. m - sz > 24
    BY <1>3
  <2>2. m - sz - 20 \in Nat
    BY ONLY <2>1, m \in Nat, sz \in Nat
  <2>3. b + sz + 20 \in Nat
    BY <1>4
  <2> QED
    BY <2>2, <2>3
<1>6. Cuts(f, b, sz, f2)
  <2>1. sz + 20 <= f[b]
    BY <1>3
  <2> QED
    BY <1>1, <1>2, <2>1, CutEffect
<1>7. Chained(f2) /\ DOMAIN f2 = DOMAIN f \cup {c} /\ c \notin DOMAIN f
  BY <1>5, <1>6 DEF Cuts
<1>8. f2[b] = sz /\ f2[c] = r /\ \A x \in DOMAIN f : x # b => f2[x] = f[x]
  BY <1>3, <1>5, <1>6 DEF Cuts, IsCut
<1>9. /\ Fitted(b, sz) /\ Fitted(c, r) /\ b + 20 <= c /\ c + r + 20 = b + m + 20
  <2>1. c % 4 = 0 /\ r % 4 = 0
    BY <1>5, <1>7, <1>8, ChainedIs
  <2> QED
    BY <1>3, <1>4, <1>5, <2>1, Bounds DEF Fitted
<1>10. ASSUME NEW x \in DOMAIN f2, x # b, x # c
       PROVE  /\ x \in DOMAIN f /\ x \in Nat /\ f[x] \in Nat /\ f2[x] = f[x]
              /\ x + f[x] + 20 <= b \/ b + m + 20 <= x
  <2>1. x \in DOMAIN f
    BY <1>7, <1>10
  <2> QED
    BY <1>1, <1>2, <1>3, <1>8, <1>10, <2>1, ChainedIs, BlocksApart
\* The header of the rest.
<1>11. PICK h1 : h1 = create_foot(SetHole(SetSize(h, c, r), c, 1), c)
  OBVIOUS
<1>12. PICK h2 : h2 = add_block_sorted(h1, get_bin_index(r), c)
  OBVIOUS
<1>13. PICK h4 : h4 = SetHole(create_foot(SetSize(h2, b, sz), b), b, 0)
  OBVIOUS
<1>14. PICK h5 : h5 = remove_block(h4, get_bin_index(m), b)
  OBVIOUS
<1>15. g = Give(h5, b)
  <2>1. size(h, b) = m
    BY <1>1, <1>2, <1>3
  <2>2. b + BLCK_OVERHEAD + sz = c /\ m - sz - BLCK_OVERHEAD = r
    BY <1>4, <1>5 DEF BLCK_OVERHEAD
  <2>3. Carve(h, b, sz) = create_foot(SetSize(h2, b, sz), b)
    BY <1>11, <1>12, <2>1, <2>2 DEF Carve
  <2> QED
    BY <1>3, <1>13, <1>14, <2>3
<1>16. Headed(h, h1, c, r, 1)
  BY <1>1, <1>9, <1>11, HeadedFoot
<1>17. PICK f1 : f1 = [x \in DOMAIN f2 |-> IF x = c THEN r ELSE f[x]]
  OBVIOUS
<1>18. f1[c] = r /\ \A x \in DOMAIN f : f1[x] = f[x]
  BY <1>6, <1>7, <1>17
<1>19. PICK L1 : /\ Linked(h2, DOMAIN f2, L1) /\ Sorted(f1, L1)
                 /\ FreeOf(L1) = FreeOf(L) \cup {c}
                 /\ OnlyLinks(h1, h2, FreeOf(L) \cup {c})
  <2>1. Apart(DOMAIN f2) /\ FreeOf(L) \subseteq DOMAIN f2 /\ c \in DOMAIN f2 /\ c \notin FreeOf(L)
    BY <1>1, <1>6, <1>7, ChainedApart
  <2>2. (\A x \in FreeOf(L) : f1[x] = f[x]) /\ \A x \in DOMAIN f2 : f1[x] \in Nat
    BY <1>1, <1>7, <1>18
  <2>3. ASSUME NEW x \in DOMAIN f2, x # c
        PROVE  size(h, x) = f1[x] /\ (x + 20 <= c \/ c + f1[c] + 20 <= x)
    <3>1. x \in DOMAIN f
      BY <1>7, <2>3
    <3>2. size(h, x) = f1[x]
      BY <1>1, <1>18, <3>1
    <3>3. x + 20 <= c \/ c + r + 20 <= x
      BY <1>3, <1>4, <1>5, <1>9, <1>10, <2>3
    <3> QED
      BY <1>18, <3>2, <3>3
  <2>4. Headed(h, h1, c, f1[c], 1)
    BY <1>16, <1>18
  <2>5. AddedTo(h1, add_block_sorted(h1, get_bin_index(f1[c]), c), DOMAIN f2, f1, L, c)
    BY <1>1, <2>1, <2>2, <2>3, <2>4, NewHole
  <2>6. AddedTo(h1, h2, DOMAIN f2, f1, L, c)
    BY <1>12, <1>18, <2>5
  <2> QED
    BY <2>6 DEF AddedTo
<1>20. Apart(DOMAIN f2) /\ FreeOf(L1) \subseteq DOMAIN f2 /\ IsHeap(h2)
  BY <1>1, <1>7, <1>19, ChainedApart DEF Linked
\* The header of the block.
<1>21. Headed(h2, h4, b, sz, 0)
  BY <1>9, <1>13, <1>20, HeadedFlag
<1>22. Linked(h4, DOMAIN f2, L1)
  <2>1. ASSUME NEW x \in FreeOf(L1)
        PROVE  next(h4, x) = next(h2, x) /\ prev(h4, x) = prev(h2, x)
    <3>1. x \in Nat /\ (x = b \/ x + 20 <= b \/ b + sz + 20 <= x)
      BY <1>3, <1>4, <1>5, <1>9, <1>10, <1>20
    <3> QED
      BY <1>4, <1>21, <3>1, HeadedLinks
  <2>2. IsHeap(h4) /\ h4.bins = h2.bins
    BY <1>21 DEF Headed
  <2> QED
    BY <1>19, <1>20, <2>1, <2>2, LinkedKept
\* It leaves its bin.
<1>23. PICK L2 : /\ Linked(h5, DOMAIN f2, L2) /\ Sorted(f2, L2)
                 /\ FreeOf(L2) = FreeOf(L1) \ {b}
                 /\ OnlyLinks(h4, h5, FreeOf(L1))
  <2>1. b \in FreeOf(L1) /\ f1[b] = m
    BY <1>2, <1>3, <1>18, <1>19
  <2>2. get_bin_index(m) \in 0 .. 8 /\ b \in ToSet(L1[get_bin_index(m)])
    BY <1>19, <2>1, InItsBin
  <2>3. PICK i \in 0 .. 8 : i = get_bin_index(m)
    BY <2>2
  <2>4. b \in ToSet(L1[i])
    BY <2>2, <2>3
  <2>5. \A x \in FreeOf(L1) \ {b} : f2[x] = f1[x]
    BY <1>1, <1>8, <1>18, <1>19
  <2>6. RemovedFrom(h4, remove_block(h4, i, b), DOMAIN f2, f2, L1, b)
    BY <1>19, <1>22, <2>4, <2>5, RemoveLinked
  <2>7. RemovedFrom(h4, h5, DOMAIN f2, f2, L1, b)
    BY <1>14, <2>3, <2>6
  <2> QED
    BY <2>7 DEF RemovedFrom
<1>24. FreeOf(L2) = (FreeOf(L) \ {b}) \cup {c}
  BY <1>1, <1>2, <1>7, <1>19, <1>23
\* Headers of both.
<1>25. Header(h5, b, sz, 0)
  <2>1. Header(h4, b, f2[b], 0)
    BY <1>4, <1>8, <1>21, HeadedHeader
  <2>2. b \in DOMAIN f2
    BY <1>2, <1>7
  <2> QED
    BY <1>7, <1>8, <1>20, <1>23, <2>1, <2>2, HeaderLinks
<1>26. Given(h5, g, b, sz)
  <2>1. size(h5, b) = sz /\ IsHeap(h5)
    BY <1>23, <1>25 DEF Header, Linked
  <2> QED
    BY <1>4, <1>15, <2>1, GiveIs
<1>27. Header(g, b, f2[b], 0)
  BY <1>4, <1>8, <1>25, <1>26, GivenHeader
<1>28. Header(g, c, f2[c], 1)
  <2>1. c \in DOMAIN f2 /\ {} \subseteq DOMAIN f2 /\ b + sz + 20 \in Nat /\ b + sz + 20 <= c
    BY <1>4, <1>5, <1>7
  <2>2. Header(h1, c, f2[c], 1)
    BY <1>8, <1>16, HeadedHeader
  <2>3. Header(h2, c, f2[c], 1)
    BY <1>7, <1>19, <1>20, <2>1, <2>2, HeaderLinks
  <2>4. Frame(h2, h4, b, b + sz + 20, {})
    BY <1>4, <1>21, <2>1, HeadedFrame
  <2>5. Header(h4, c, f2[c], 1)
    BY <1>4, <1>7, <2>1, <2>3, <2>4, HeaderFrame
  <2>6. Header(h5, c, f2[c], 1)
    BY <1>7, <1>20, <1>23, <2>1, <2>5, HeaderLinks
  <2>7. Frame(h5, g, b, b + sz + 20, {})
    BY <1>4, <1>26, <2>1, GivenFrame
  <2> QED
    BY <1>4, <1>7, <2>1, <2>6, <2>7, HeaderFrame
<1>29. PICK hi \in Nat : hi = b + m + 20
  BY <1>4
<1>30. Frame(h, g, b, hi, FreeOf(L))
  <2>1. Frame(h, h1, b, hi, FreeOf(L))
    BY <1>4, <1>9, <1>16, <1>29, HeadedFrame
  <2>2. \A x \in FreeOf(L1) : x \in FreeOf(L) \/ (x \in Nat /\ b <= x /\ x + 20 <= hi)
    BY <1>4, <1>9, <1>19, <1>29
  <2>3. Frame(h1, h2, b, hi, FreeOf(L))
    BY <1>4, <1>19, <2>2, OnlyLinksFrame
  <2>4. b + sz + 20 <= hi
    BY <1>3, <1>4, <1>29
  <2>5. Frame(h2, h4, b, hi, FreeOf(L))
    BY <1>4, <1>21, <2>4, HeadedFrame
  <2>6. Frame(h4, h5, b, hi, FreeOf(L))
    BY <1>4, <1>23, <2>2, OnlyLinksFrame
  <2>7. Frame(h5, g, b, hi, FreeOf(L))
    BY <1>4, <1>26, <2>4, GivenFrame
  <2> QED
    BY <2>1, <2>3, <2>5, <2>6, <2>7, FrameTrans
<1>31. Linked(g, DOMAIN f2, L2)
  <2>1. ASSUME NEW x \in FreeOf(L2)
        PROVE  next(g, x) = next(h5, x) /\ prev(g, x) = prev(h5, x)
    <3>1. x \in DOMAIN f2 /\ x # b
      BY <1>20, <1>23
    <3>2. x \in Nat /\ (x + 20 <= b \/ b + sz + 20 <= x)
      BY <1>3, <1>4, <1>5, <1>10, <3>1
    <3> QED
      BY <1>4, <1>26, <3>2, GivenLinks
  <2>2. IsHeap(g) /\ g.bins = h5.bins
    BY <1>26 DEF Given, Cleared
  <2>3. FreeOf(L2) \subseteq DOMAIN f2
    BY <1>20, <1>23
  <2> QED
    BY <1>20, <1>23, <2>1, <2>2, <2>3, LinkedKept
<1>32. Shape(g, f2, L2, {})
  <2>1. ASSUME NEW x \in DOMAIN f2
        PROVE  \/ Same(f, L, Y, f2, L2, b, hi, x)
               \/ Intact(g, f2, x) /\ (x \in {} \/ FlagIs(g, L2, x))
    <3>1. CASE x = b
      <4>1. b \notin FreeOf(L2)
        BY <1>23
      <4> QED
        BY <1>27, <3>1, <4>1 DEF Header, Intact, FlagIs
    <3>2. CASE x = c
      <4>1. c \in FreeOf(L2)
        BY <1>24
      <4> QED
        BY <1>28, <3>2, <4>1 DEF Header, Intact, FlagIs
    <3>3. CASE x # b /\ x # c
      <4>1. /\ x \in DOMAIN f /\ f2[x] = f[x]
            /\ x + f[x] + 20 <= b \/ b + m + 20 <= x
        BY <1>10, <3>3
      <4>2. (x \in FreeOf(L2)) <=> (x \in FreeOf(L))
        BY <1>24, <3>3
      <4> QED
        BY <1>29, <3>3, <4>1, <4>2 DEF Same
    <3> QED
      BY <3>1, <3>2, <3>3
  <2>2. hi <= End
    BY <1>4, <1>29
  <2> QED
    BY <1>1, <1>4, <1>7, <1>23, <1>30, <1>31, <2>1, <2>2, ShapeFrom
<1>33. Zeroed(g, b, sz)
  BY <1>26 DEF Given, Cleared, Zeroed
<1>34. DOMAIN f2 \ FreeOf(L2) = (DOMAIN f \ FreeOf(L)) \cup {b}
  BY <1>1, <1>2, <1>6, <1>7, <1>24
<1>35. ASSUME NEW x \in DOMAIN f \ FreeOf(L)
       PROVE  f2[x] = f[x] /\ (x + f[x] + 20 <= b \/ hi <= x)
  <2>1. x \in DOMAIN f2 /\ x # b /\ x # c
    BY <1>6, <1>7
  <2> QED
    BY <1>10, <1>29, <2>1
<1>36. sz <= f2[b]
  BY <1>8
<1>37. Grant(h, f, L, g, f2, L2, b, hi, b, sz)
  BY <1>4, <1>30, <1>32, <1>33, <1>34, <1>35, <1>36 DEF Grant
<1>38. hi = b + f[b] + 20
  BY <1>3, <1>29
<1> QED
  BY <1>5, <1>24, <1>37, <1>38

\* The whole block is given out.
LEMMA WholeShape ==
    ASSUME NEW h, NEW f, NEW L, NEW Y, Shape(h, f, L, Y),
           NEW b \in FreeOf(L), Y \subseteq {b},
           NEW sz \in Nat, sz <= f[b],
           NEW g, g = Give(remove_block(SetHole(h, b, 0), get_bin_index(f[b]), b), b)
    PROVE  \E M : /\ Grant(h, f, L, g, f, M, b, b + f[b] + 20, b, sz)
                  /\ FreeOf(M) = FreeOf(L) \ {b}
<1>1. /\ IsHeap(h) /\ Chained(f) /\ Apart(DOMAIN f)
      /\ Linked(h, DOMAIN f, L) /\ Sorted(f, L)
      /\ FreeOf(L) \subseteq DOMAIN f
      /\ \A x \in DOMAIN f : f[x] \in Nat /\ size(h, x) = f[x]
  BY ShapeIs
<1>2. b \in DOMAIN f
  BY <1>1
<1>3. PICK m \in Nat : m = f[b]
  BY <1>1, <1>2
<1>4. /\ b \in Nat /\ Start <= b /\ b + m + 20 <= End /\ Word(b)
  BY <1>1, <1>2, <1>3, ChainedIs, HeaderWords
<1>5. PICK h1 : h1 = SetHole(h, b, 0)
  OBVIOUS
<1>6. PICK h2 : h2 = remove_block(h1, get_bin_index(m), b)
  OBVIOUS
<1>7. g = Give(h2, b)
  BY <1>3, <1>5, <1>6
<1>8. /\ IsHeap(h1) /\ h1.bins = h.bins
      /\ \A a : Load(h1, a) = IF a = b THEN 0 ELSE Load(h, a)
  BY <1>1, <1>4, <1>5, HoleStored
<1>9. \A x \in DOMAIN f : x # b => x \in Nat /\ f[x] \in Nat /\ (x + f[x] + 20 <= b \/ b + m + 20 <= x)
  BY <1>1, <1>2, <1>3, ChainedIs, BlocksApart
<1>10. Linked(h1, DOMAIN f, L)
  <2>1. ASSUME NEW x \in FreeOf(L)
        PROVE  next(h1, x) = next(h, x) /\ prev(h1, x) = prev(h, x)
    <3>1. x \in DOMAIN f
      BY <1>1
    <3>2. x + 8 # b /\ x + 12 # b
      BY <1>4, <1>9, <3>1
    <3> QED
      BY <1>8, <3>2 DEF next, prev
  <2> QED
    BY <1>1, <1>8, <2>1, LinkedKept
<1>11. PICK L2 : /\ Linked(h2, DOMAIN f, L2) /\ Sorted(f, L2)
                 /\ FreeOf(L2) = FreeOf(L) \ {b}
                 /\ OnlyLinks(h1, h2, FreeOf(L))
  <2>1. get_bin_index(m) \in 0 .. 8 /\ b \in ToSet(L[get_bin_index(m)])
    BY <1>1, <1>3, InItsBin
  <2>2. PICK i \in 0 .. 8 : i = get_bin_index(m)
    BY <2>1
  <2>3. b \in ToSet(L[i])
    BY <2>1, <2>2
  <2>4. RemovedFrom(h1, remove_block(h1, i, b), DOMAIN f, f, L, b)
    BY <1>1, <1>10, <2>3, RemoveLinked
  <2>5. RemovedFrom(h1, h2, DOMAIN f, f, L, b)
    BY <1>6, <2>2, <2>4
  <2> QED
    BY <2>5 DEF RemovedFrom
<1>12. Header(h2, b, m, 0)
  <2>1. b + 4 # b /\ b + 16 + m # b
    BY <1>4
  <2>2. Load(h, b + 16 + m) = b /\ size(h, b) = m
    BY <1>2, <1>3 DEF Shape, Intact
  <2>3. Header(h1, b, f[b], 0)
    BY <1>3, <1>8, <2>1, <2>2 DEF Header, hole, size
  <2> QED
    BY <1>1, <1>2, <1>3, <1>11, <2>3, HeaderLinks
<1>13. Given(h2, g, b, m)
  <2>1. size(h2, b) = m /\ IsHeap(h2)
    BY <1>11, <1>12 DEF Header, Linked
  <2> QED
    BY <1>4, <1>7, <2>1, GiveIs
<1>14. Header(g, b, m, 0)
  BY <1>4, <1>12, <1>13, GivenHeader
<1>15. PICK hi \in Nat : hi = b + m + 20
  BY <1>4
<1>16. Frame(h, g, b, hi, FreeOf(L))
  <2>1. Frame(h, h1, b, hi, FreeOf(L))
    <3>1. b < hi
      BY <1>4, <1>15
    <3>2. \A a \in Nat : a < b \/ hi <= a => a # b
      BY <1>4, <3>1
    <3> QED
      BY <1>8, <3>2 DEF Frame
  <2>2. \A x \in FreeOf(L) : x \in FreeOf(L) \/ (x \in Nat /\ b <= x /\ x + 20 <= hi)
    OBVIOUS
  <2>3. Frame(h1, h2, b, hi, FreeOf(L))
    BY <1>4, <1>11, <2>2, OnlyLinksFrame
  <2>4. Frame(h2, g, b, hi, FreeOf(L))
    BY <1>4, <1>13, <1>15, GivenFrame
  <2> QED
    BY <2>1, <2>3, <2>4, FrameTrans
<1>17. Linked(g, DOMAIN f, L2)
  <2>1. ASSUME NEW x \in FreeOf(L2)
        PROVE  next(g, x) = next(h2, x) /\ prev(g, x) = prev(h2, x)
    <3>1. x \in DOMAIN f /\ x # b
      BY <1>1, <1>11
    <3>2. x \in Nat /\ (x + 20 <= b \/ b + m + 20 <= x)
      BY <1>4, <1>9, <3>1
    <3> QED
      BY <1>4, <1>13, <3>2, GivenLinks
  <2>2. IsHeap(g) /\ g.bins = h2.bins
    BY <1>13 DEF Given, Cleared
  <2>3. FreeOf(L2) \subseteq DOMAIN f
    BY <1>1, <1>11
  <2> QED
    BY <1>1, <1>11, <2>1, <2>2, <2>3, LinkedKept
<1>18. Shape(g, f, L2, {})
  <2>1. ASSUME NEW x \in DOMAIN f
        PROVE  \/ Same(f, L, Y, f, L2, b, hi, x)
               \/ Intact(g, f, x) /\ (x \in {} \/ FlagIs(g, L2, x))
    <3>1. CASE x = b
      <4>1. b \notin FreeOf(L2)
        BY <1>11
      <4> QED
        BY <1>3, <1>14, <3>1, <4>1 DEF Header, Intact, FlagIs
    <3>2. CASE x # b
      BY <1>9, <1>11, <1>15, <3>2 DEF Same
    <3> QED
      BY <3>1, <3>2
  <2>2. hi <= End
    BY <1>4, <1>15
  <2> QED
    BY <1>1, <1>4, <1>11, <1>16, <1>17, <2>1, <2>2, ShapeFrom
<1>19. Zeroed(g, b, sz)
  BY <1>3, <1>4, <1>13 DEF Given, Cleared, Zeroed
<1>20. DOMAIN f \ FreeOf(L2) = (DOMAIN f \ FreeOf(L)) \cup {b}
  BY <1>2, <1>11
<1>21. ASSUME NEW x \in DOMAIN f \ FreeOf(L)
       PROVE  f[x] = f[x] /\ (x + f[x] + 20 <= b \/ hi <= x)
  BY <1>9, <1>15
<1>22. Grant(h, f, L, g, f, L2, b, hi, b, sz)
  BY <1>4, <1>16, <1>18, <1>19, <1>20, <1>21 DEF Grant
<1>23. hi = b + f[b] + 20
  BY <1>3, <1>15
<1> QED
  BY <1>11, <1>22, <1>23

-----------------------------------------------------------------------------
(* kheap_alloc_a.                                                          *)

\* The lead block in front of the page, when it has a size.
LEMMA LeadIs ==
    ASSUME NEW w \in Nat, w % 4 = 0, Chain!Lead(w) >= 0
    PROVE  Chain!Lead(w) \in Nat /\ Chain!Lead(w) % 4 = 0 /\ Lead(w) = Chain!Lead(w)
<1>1. Chain!Lead(w) = 4096 - (w % 4096) - 28
  BY DEF Chain!Lead, Chain!Extra, Chain!PG_SZ, Chain!BLCK_OVERHEAD
<1>2. w % 4096 \in 0 .. 4095
  OBVIOUS
<1>3. PICK n \in Nat : n = 4096 - (w % 4096) - 28 /\ n < 4096 /\ Chain!Lead(w) = n
  <2>1. 4096 - (w % 4096) - 28 \in Int /\ 4096 - (w % 4096) - 28 < 4096
    BY <1>2
  <2> QED
    BY <1>1, <2>1
<1>4. n % 4 = 0
  BY ONLY <1>3, w \in Nat, w % 4 = 0, n \in Nat
<1>5. Lead(w) = n
  <2>1. PG_SZ - (w % PG_SZ) - BLCK_OVERHEAD - 8 = n
    BY <1>2, <1>3 DEF PG_SZ, BLCK_OVERHEAD
  <2>2. Lead(w) = n % AddrSpace
    BY <2>1 DEF Lead, Extra, u32
  <2>3. AddrSpace \in Nat /\ n < AddrSpace
    BY <1>3, Bounds
  <2>4. n % AddrSpace = n
    BY ONLY <2>3, n \in Nat
  <2> QED
    BY <2>2, <2>4
<1> QED
  BY <1>3, <1>4, <1>5

\* A page cut from the last block.
LEMMA PageShape ==
    ASSUME NEW h, NEW f, NEW L, NEW Y, Shape(h, f, L, Y),
           NEW w \in FreeOf(L), Y \subseteq {w}, w + f[w] + 20 = End,
           NEW lead \in Nat, lead % 4 = 0, Lead(w) = lead,
           NEW sz \in Nat, sz % 4 = 0, lead + sz + 40 <= f[w],
           NEW ret, ret = w + lead + 20,
           NEW g, g = kheap_alloc_a(h, sz),
           NEW f2, f2 = Chain!Cut(Chain!Cut(f, w, lead), ret, sz)
    PROVE  /\ get_wilderness(h) = w /\ PageBlock(h) = ret
           /\ \E M : /\ Grant(h, f, L, g, f2, M, w, End, ret, sz)
                     /\ FreeOf(M) = FreeOf(L) \cup {ret + sz + 20}
<1>1. /\ IsHeap(h) /\ Chained(f) /\ Apart(DOMAIN f)
      /\ Linked(h, DOMAIN f, L) /\ Sorted(f, L)
      /\ FreeOf(L) \subseteq DOMAIN f
      /\ \A x \in DOMAIN f : f[x] \in Nat /\ size(h, x) = f[x]
  BY ShapeIs
<1>2. w \in DOMAIN f
  BY <1>1
<1>3. PICK m \in Nat : m = f[w]
  BY <1>1, <1>2
<1>4. /\ w \in Nat /\ w % 4 = 0 /\ m % 4 = 0 /\ Start <= w /\ w + m + 20 = End
      /\ lead + sz + 40 <= m /\ Start \in Nat /\ End \in Nat
  BY <1>1, <1>2, <1>3, ChainedIs, Bounds
<1>5. PICK new \in Nat, left \in Nat : new = ret + sz + 20 /\ left = m - lead - sz - 40
  <2>1. ret + sz + 20 \in Nat /\ m - lead - sz - 40 \in Nat
    BY <1>4
  <2> QED
    BY <2>1
<1>6. /\ ret \in Nat /\ w + 20 <= ret /\ ret + 20 <= new /\ new + left + 20 = End
      /\ ret + sz + 20 = new /\ w + lead + 20 = ret
  BY <1>4, <1>5
\* The chain after the first cut and after the second.
<1>7. PICK fa : fa = Chain!Cut(f, w, lead)
  OBVIOUS
<1>8. /\ Chained(fa) /\ DOMAIN fa = DOMAIN f \cup {ret} /\ ret \notin DOMAIN f
      /\ fa[w] = lead /\ fa[ret] = m - lead - 20
      /\ \A x \in DOMAIN f : x # w => fa[x] = f[x]
  <2>1. lead + 20 <= f[w] /\ Chained(f)
    BY <1>1, <1>3, <1>4
  <2>2. Cuts(f, w, lead, fa)
    BY <1>2, <1>7, <2>1, CutEffect
  <2> QED
    BY <1>3, <1>6, <2>2 DEF Cuts, IsCut
<1>9. /\ Chained(f2) /\ DOMAIN f2 = DOMAIN fa \cup {new} /\ new \notin DOMAIN fa
      /\ f2[ret] = sz /\ f2[new] = left
      /\ \A x \in DOMAIN fa : x # ret => f2[x] = fa[x]
  <2>1. sz + 20 <= fa[ret] /\ ret \in DOMAIN fa /\ Chained(fa)
    BY <1>4, <1>8
  <2>2. Cuts(fa, ret, sz, f2)
    BY <1>7, <2>1, CutEffect
  <2>3. fa[ret] - sz - 20 = left
    BY <1>4, <1>5, <1>8
  <2> QED
    BY <1>5, <2>2, <2>3 DEF Cuts, IsCut
<1>10. /\ DOMAIN f2 = DOMAIN f \cup {ret, new} /\ ret \notin DOMAIN f /\ new \notin DOMAIN f
       /\ f2[w] = lead /\ f2[ret] = sz /\ f2[new] = left
       /\ \A x \in DOMAIN f : x # w => f2[x] = f[x]
  BY <1>2, <1>8, <1>9
<1>11. ASSUME NEW x \in DOMAIN f, x # w
       PROVE  x \in Nat /\ f[x] \in Nat /\ x + f[x] + 20 <= w
  <2>1. x \in Nat /\ f[x] \in Nat /\ x + f[x] + 20 <= End
    BY <1>1, ChainedIs
  <2>2. x + f[x] + 20 <= w \/ w + m + 20 <= x
    BY <1>1, <1>2, <1>3, <1>11, BlocksApart
  <2> QED
    BY <1>4, <2>1, <2>2
<1>12. Fitted(w, lead) /\ Fitted(ret, sz) /\ Fitted(new, left)
  <2>1. ret % 4 = 0 /\ new % 4 = 0 /\ left % 4 = 0
    BY <1>9, <1>10, ChainedIs
  <2> QED
    BY <1>4, <1>5, <1>6, <2>1 DEF Fitted
\* The heaps in between.
<1>13. get_wilderness(h) = w
  <2>1. Load(h, w + 16 + m) = w
    BY <1>2, <1>3 DEF Shape, Intact
  <2>2. w + 16 + m = End - 4
    BY <1>4
  <2> QED
    BY <2>1, <2>2 DEF get_wilderness
<1>14. PICK h0 : h0 = SetHole(h, w, 1)
  OBVIOUS
<1>15. PICK h1 : h1 = remove_block(h0, get_bin_index(m), w)
  OBVIOUS
<1>16. PICK h2 : h2 = SetHole(create_foot(SetSize(h1, w, lead), w), w, 1)
  OBVIOUS
<1>17. PICK h3 : h3 = add_block_sorted(h2, get_bin_index(lead), w)
  OBVIOUS
<1>18. PICK h4 : h4 = SetHole(create_foot(SetSize(h3, ret, sz), ret), ret, 0)
  OBVIOUS
<1>19. PICK h5 : h5 = create_foot(SetHole(SetSize(h4, new, left), new, 1), new)
  OBVIOUS
<1>20. PICK h6 : h6 = add_block_sorted(h5, get_bin_index(left), new)
  OBVIOUS
\* The last block leaves its bin.
<1>21. /\ IsHeap(h0) /\ h0.bins = h.bins
       /\ \A a : Load(h0, a) = IF a = w THEN 1 ELSE Load(h, a)
  <2>1. Word(w)
    BY <1>1, <1>2, HeaderWords
  <2> QED
    BY <1>1, <1>14, <2>1, HoleStored
<1>22. /\ Linked(h0, DOMAIN f, L)
       /\ \A x \in DOMAIN f : size(h0, x) = f[x]
  <2>1. \A x \in DOMAIN f : x + 4 # w /\ x + 8 # w /\ x + 12 # w
    BY <1>4, <1>11
  <2>2. ASSUME NEW x \in DOMAIN f
        PROVE  /\ next(h0, x) = next(h, x) /\ prev(h0, x) = prev(h, x)
               /\ size(h0, x) = size(h, x)
    BY <1>21, <2>1 DEF next, prev, size
  <2>3. \A x \in FreeOf(L) : next(h0, x) = next(h, x) /\ prev(h0, x) = prev(h, x)
    BY <1>1, <2>2
  <2>4. Linked(h0, DOMAIN f, L)
    BY <1>1, <1>21, <2>3, LinkedKept
  <2> QED
    BY <1>1, <2>2, <2>4
<1>23. PICK f1 : f1 = [x \in DOMAIN f |-> IF x = w THEN lead ELSE f[x]]
  OBVIOUS
<1>24. f1[w] = lead /\ \A x \in DOMAIN f : f1[x] \in Nat /\ f1[x] = f2[x] /\ (x # w => f1[x] = f[x])
  BY <1>1, <1>2, <1>10, <1>23
<1>25. PICK L1 : /\ Linked(h1, DOMAIN f, L1) /\ Sorted(f1, L1)
                 /\ FreeOf(L1) = FreeOf(L) \ {w}
                 /\ OnlyLinks(h0, h1, FreeOf(L))
  <2>1. get_bin_index(m) \in 0 .. 8 /\ w \in ToSet(L[get_bin_index(m)])
    BY <1>1, <1>3, InItsBin
  <2>2. PICK i \in 0 .. 8 : i = get_bin_index(m)
    BY <2>1
  <2>3. w \in ToSet(L[i]) /\ \A x \in FreeOf(L) \ {w} : f1[x] = f[x]
    BY <1>1, <1>24, <2>1, <2>2
  <2>4. RemovedFrom(h0, remove_block(h0, i, w), DOMAIN f, f1, L, w)
    BY <1>1, <1>22, <2>3, RemoveLinked
  <2>5. RemovedFrom(h0, h1, DOMAIN f, f1, L, w)
    BY <1>15, <2>2, <2>4
  <2> QED
    BY <2>5 DEF RemovedFrom
<1>26. \A x \in DOMAIN f : size(h1, x) = f[x]
  <2>1. OnlyLinks(h0, h1, DOMAIN f)
    BY <1>1, <1>25, OnlyLinksMore
  <2> QED
    BY <1>1, <1>22, <2>1, OnlyLinksKeep
\* The lead block.
<1>27. Headed(h1, h2, w, lead, 1)
  <2>1. IsHeap(h1)
    BY <1>25 DEF Linked
  <2> QED
    BY <1>12, <1>16, <2>1, HeadedFlag
<1>28. PICK L2 : /\ Linked(h3, DOMAIN f, L2) /\ Sorted(f1, L2)
                 /\ FreeOf(L2) = FreeOf(L)
                 /\ OnlyLinks(h2, h3, FreeOf(L))
  <2>1. FreeOf(L1) \subseteq DOMAIN f /\ w \notin FreeOf(L1)
    BY <1>1, <1>25
  <2>2. (\A x \in FreeOf(L1) : f1[x] = f1[x]) /\ \A x \in DOMAIN f : f1[x] \in Nat
    BY <1>24
  <2>3. ASSUME NEW x \in DOMAIN f, x # w
        PROVE  size(h1, x) = f1[x] /\ (x + 20 <= w \/ w + f1[w] + 20 <= x)
    <3>1. x + 20 <= w
      BY <1>4, <1>11, <2>3
    <3> QED
      BY <1>24, <1>26, <2>3, <3>1
  <2>4. Headed(h1, h2, w, f1[w], 1)
    BY <1>24, <1>27
  <2>5. AddedTo(h2, add_block_sorted(h2, get_bin_index(f1[w]), w), DOMAIN f, f1, L1, w)
    BY <1>1, <1>2, <1>25, <2>1, <2>2, <2>3, <2>4, NewHole
  <2>6. AddedTo(h2, h3, DOMAIN f, f1, L1, w)
    BY <1>17, <1>24, <2>5
  <2>7. FreeOf(L1) \cup {w} = FreeOf(L)
    BY <1>25
  <2> QED
    BY <2>6, <2>7 DEF AddedTo
<1>29. ASSUME NEW x \in DOMAIN f PROVE size(h3, x) = f1[x]
  <2>1. OnlyLinks(h2, h3, DOMAIN f)
    BY <1>1, <1>28, OnlyLinksMore
  <2>2. size(h3, x) = size(h2, x)
    BY <1>1, <2>1, OnlyLinksKeep
  <2>3. CASE x = w
    <3>1. Header(h2, w, lead, 1)
      BY <1>4, <1>27, HeadedHeader
    <3> QED
      BY <1>24, <2>2, <2>3, <3>1 DEF Header
  <2>4. CASE x # w
    <3>1. x \in Nat /\ x + 20 <= w
      BY <1>4, <1>11, <2>4
    <3>2. size(h2, x) = size(h1, x)
      BY <1>4, <1>27, <2>4, <3>1, HeadedLinks
    <3> QED
      BY <1>24, <1>26, <2>2, <2>4, <3>2
  <2> QED
    BY <2>3, <2>4
<1>30. IsHeap(h3)
  BY <1>28 DEF Linked
\* The page.
<1>31. Headed(h3, h4, ret, sz, 0)
  BY <1>12, <1>18, <1>30, HeadedFlag
<1>32. Apart(DOMAIN f2) /\ FreeOf(L) \subseteq DOMAIN f2
  BY <1>1, <1>9, <1>10, ChainedApart
<1>33. ASSUME NEW x \in DOMAIN f
       PROVE  x \in Nat /\ x + f2[x] + 20 <= ret
  <2>1. CASE x = w
    BY <1>4, <1>6, <1>10, <2>1
  <2>2. CASE x # w
    <3>1. x \in Nat /\ f[x] \in Nat /\ x + f[x] + 20 <= w
      BY <1>11, <2>2
    <3> QED
      BY <1>4, <1>6, <1>10, <2>2, <3>1
  <2> QED
    BY <2>1, <2>2
<1>34. ASSUME NEW x \in DOMAIN f
       PROVE  /\ next(h4, x) = next(h3, x) /\ prev(h4, x) = prev(h3, x)
              /\ size(h4, x) = f2[x]
  <2>1. x \in Nat /\ f2[x] \in Nat /\ x + f2[x] + 20 <= ret /\ f2[x] = f1[x]
    BY <1>24, <1>33
  <2>2. x + 20 <= ret /\ x # ret
    BY <1>6, <2>1
  <2>3. /\ next(h4, x) = next(h3, x) /\ prev(h4, x) = prev(h3, x)
        /\ size(h4, x) = size(h3, x)
    BY <1>6, <1>31, <2>1, <2>2, HeadedLinks
  <2> QED
    BY <1>29, <2>1, <2>3
<1>35. Linked(h4, DOMAIN f2, L2)
  <2>1. \A x \in FreeOf(L2) : next(h4, x) = next(h3, x) /\ prev(h4, x) = prev(h3, x)
    BY <1>1, <1>28, <1>34
  <2>2. IsHeap(h4) /\ h4.bins = h3.bins
    BY <1>31 DEF Headed
  <2> QED
    BY <1>28, <1>32, <2>1, <2>2, LinkedKept
\* The new last block.
<1>36. Headed(h4, h5, new, left, 1)
  <2>1. IsHeap(h4)
    BY <1>31 DEF Headed
  <2> QED
    BY <1>12, <1>19, <2>1, HeadedFoot
<1>37. size(h4, ret) = sz
  <2>1. Header(h4, ret, sz, 0)
    BY <1>6, <1>31, HeadedHeader
  <2> QED
    BY <2>1 DEF Header
<1>38. PICK L3 : /\ Linked(h6, DOMAIN f2, L3) /\ Sorted(f2, L3)
                 /\ FreeOf(L3) = FreeOf(L) \cup {new}
                 /\ OnlyLinks(h5, h6, FreeOf(L) \cup {new})
  <2>1. FreeOf(L2) \subseteq DOMAIN f2 /\ new \notin FreeOf(L2) /\ new \in DOMAIN f2
    BY <1>1, <1>10, <1>28, <1>32
  <2>2. (\A x \in FreeOf(L2) : f2[x] = f1[x]) /\ \A x \in DOMAIN f2 : f2[x] \in Nat
    <3>1. \A x \in DOMAIN f2 : f2[x] \in Nat
      BY <1>9, ChainedIs
    <3> QED
      BY <1>1, <1>24, <1>28, <3>1
  <2>3. ASSUME NEW x \in DOMAIN f2, x # new
        PROVE  size(h4, x) = f2[x] /\ (x + 20 <= new \/ new + f2[new] + 20 <= x)
    <3>1. CASE x = ret
      BY <1>6, <1>10, <1>37, <3>1
    <3>2. CASE x # ret
      <4>1. x \in DOMAIN f
        BY <1>10, <2>3, <3>2
      <4>2. x \in Nat /\ f2[x] \in Nat /\ x + f2[x] + 20 <= ret
        BY <1>24, <1>33, <4>1
      <4>3. x + 20 <= new
        BY <1>5, <1>6, <4>2
      <4> QED
        BY <1>34, <4>1, <4>3
    <3> QED
      BY <3>1, <3>2
  <2>4. Headed(h4, h5, new, f2[new], 1)
    BY <1>10, <1>36
  <2>5. AddedTo(h5, add_block_sorted(h5, get_bin_index(f2[new]), new), DOMAIN f2, f2, L2, new)
    BY <1>28, <1>32, <1>35, <2>1, <2>2, <2>3, <2>4, NewHole
  <2>6. AddedTo(h5, h6, DOMAIN f2, f2, L2, new)
    BY <1>10, <1>20, <2>5
  <2> QED
    BY <1>28, <2>6 DEF AddedTo
\* Put together.
<1>39. ret < AddrSpace /\ left < AddrSpace /\ u32(ret) = ret /\ u32(left) = left
  <2>1. AddrSpace \in Nat /\ End < AddrSpace
    BY Bounds
  <2>2. ret < AddrSpace /\ left < AddrSpace
    BY <1>4, <1>5, <1>6, <2>1
  <2>3. \A x \in Nat : x < AddrSpace => x % AddrSpace = x
    BY ONLY <2>1
  <2> QED
    BY <1>5, <1>6, <2>2, <2>3 DEF u32
<1>40. PageBlock(h) = ret
  <2>1. w + lead + BLCK_OVERHEAD = ret
    BY <1>6 DEF BLCK_OVERHEAD
  <2> QED
    BY <1>13, <1>39, <2>1 DEF PageBlock
<1>41. g = Give(h6, ret)
  <2>1. size(h, w) = m /\ size(h2, w) = lead /\ size(h3, w) = lead /\ size(h4, w) = lead
    BY <1>1, <1>2, <1>3, <1>4, <1>10, <1>24, <1>27, <1>29, <1>34, HeadedHeader DEF Header
  <2>2. u32(w + lead + BLCK_OVERHEAD) = ret /\ NewWild(ret, sz) = new
    BY <1>6, <1>39 DEF BLCK_OVERHEAD, NewWild
  <2>3. u32(m - lead - sz - 2 * BLCK_OVERHEAD) = left
    <3>1. m - lead - sz - 2 * BLCK_OVERHEAD = left
      BY <1>5 DEF BLCK_OVERHEAD
    <3> QED
      BY <1>39, <3>1
  <2>4. size(h5, new) = left
    <3>1. Header(h5, new, left, 1)
      BY <1>5, <1>36, HeadedHeader
    <3> QED
      BY <3>1 DEF Header
  <2>5. CutLead(h, w) = h3
    BY <1>14, <1>15, <1>16, <1>17, <2>1 DEF CutLead
  <2>6. CutPage(h3, w, m, ret, sz) = h6
    BY <1>18, <1>19, <1>20, <1>37, <2>1, <2>2, <2>3, <2>4 DEF CutPage
  <2>7. u32(w + size(h3, w) + BLCK_OVERHEAD) = ret
    BY <2>1, <2>2
  <2> QED
    BY <1>13, <2>1, <2>5, <2>6, <2>7 DEF kheap_alloc_a
<1>42. Header(h6, ret, sz, 0)
  <2>1. ret \in DOMAIN f2 /\ FreeOf(L) \cup {new} \subseteq DOMAIN f2 /\ {} \subseteq DOMAIN f2
    BY <1>10, <1>32
  <2>2. Header(h4, ret, f2[ret], 0)
    BY <1>6, <1>10, <1>31, HeadedHeader
  <2>3. Frame(h4, h5, new, End, {})
    BY <1>4, <1>5, <1>6, <1>36, HeadedFrame
  <2>4. ret + f2[ret] + 20 <= new
    BY <1>5, <1>6, <1>10
  <2>5. Header(h5, ret, f2[ret], 0)
    BY <1>4, <1>5, <1>9, <2>1, <2>2, <2>3, <2>4, HeaderFrame
  <2>6. Header(h6, ret, f2[ret], 0)
    BY <1>9, <1>38, <2>1, <2>5, HeaderLinks
  <2> QED
    BY <1>10, <2>6
<1>43. Given(h6, g, ret, sz)
  <2>1. size(h6, ret) = sz /\ IsHeap(h6)
    BY <1>38, <1>42 DEF Header, Linked
  <2> QED
    BY <1>6, <1>41, <2>1, GiveIs
<1>44. Header(g, ret, f2[ret], 0)
  <2>1. Header(g, ret, sz, 0)
    BY <1>6, <1>42, <1>43, GivenHeader
  <2> QED
    BY <1>10, <2>1
<1>45. Header(g, w, f2[w], 1)
  <2>1. w \in DOMAIN f2 /\ FreeOf(L) \cup {new} \subseteq DOMAIN f2 /\ {} \subseteq DOMAIN f2
    BY <1>2, <1>10, <1>32
  <2>2. Header(h2, w, f2[w], 1)
    BY <1>4, <1>10, <1>27, HeadedHeader
  <2>3. Header(h3, w, f2[w], 1)
    BY <1>9, <1>28, <1>32, <2>1, <2>2, HeaderLinks
  <2>4. w + f2[w] + 20 <= ret /\ ret + sz + 20 <= End
    BY <1>4, <1>5, <1>6, <1>10
  <2>5. Frame(h3, h4, ret, End, {})
    BY <1>4, <1>6, <1>31, <2>4, HeadedFrame
  <2>6. Header(h4, w, f2[w], 1)
    BY <1>4, <1>6, <1>9, <2>1, <2>3, <2>4, <2>5, HeaderFrame
  <2>7. Frame(h4, h5, ret, End, {})
    <3>1. ret <= new /\ new + left + 20 <= End
      BY <1>4, <1>5, <1>6
    <3> QED
      BY <1>4, <1>5, <1>6, <1>36, <3>1, HeadedFrame
  <2>8. Header(h5, w, f2[w], 1)
    BY <1>4, <1>6, <1>9, <2>1, <2>4, <2>6, <2>7, HeaderFrame
  <2>9. Header(h6, w, f2[w], 1)
    BY <1>9, <1>38, <2>1, <2>8, HeaderLinks
  <2>10. Frame(h6, g, ret, End, {})
    BY <1>4, <1>6, <1>43, <2>4, GivenFrame
  <2> QED
    BY <1>4, <1>6, <1>9, <2>1, <2>4, <2>9, <2>10, HeaderFrame
<1>46. Header(g, new, f2[new], 1)
  <2>1. new \in DOMAIN f2 /\ FreeOf(L) \cup {new} \subseteq DOMAIN f2 /\ {} \subseteq DOMAIN f2
    BY <1>10, <1>32
  <2>2. Header(h5, new, f2[new], 1)
    BY <1>5, <1>10, <1>36, HeadedHeader
  <2>3. Header(h6, new, f2[new], 1)
    BY <1>9, <1>38, <2>1, <2>2, HeaderLinks
  <2>4. Frame(h6, g, ret, new, {})
    <3>1. ret <= ret /\ ret + sz + 20 <= new
      BY <1>5, <1>6
    <3> QED
      BY <1>5, <1>6, <1>43, <3>1, GivenFrame
  <2>5. new <= new
    BY <1>5
  <2> QED
    BY <1>5, <1>6, <1>9, <2>1, <2>3, <2>4, <2>5, HeaderFrame
<1>47. Frame(h, g, w, End, FreeOf(L))
  <2>1. w < End /\ w <= ret /\ w <= new /\ ret + sz + 20 <= End /\ new + left + 20 <= End /\ w + lead + 20 <= End
    BY <1>4, <1>5, <1>6
  <2>2. Frame(h, h0, w, End, FreeOf(L))
    <3>1. \A a \in Nat : a < w \/ End <= a => a # w
      BY <1>4, <2>1
    <3> QED
      BY <1>21, <3>1 DEF Frame
  <2>3. \A x \in FreeOf(L) \cup {new} : x \in FreeOf(L) \/ (x \in Nat /\ w <= x /\ x + 20 <= End)
    BY <1>4, <1>5, <1>6
  <2>4. Frame(h0, h1, w, End, FreeOf(L))
    BY <1>4, <1>25, <2>3, OnlyLinksFrame
  <2>5. Frame(h1, h2, w, End, FreeOf(L))
    BY <1>4, <1>27, <2>1, HeadedFrame
  <2>6. Frame(h2, h3, w, End, FreeOf(L))
    BY <1>4, <1>28, <2>3, OnlyLinksFrame
  <2>7. Frame(h3, h4, w, End, FreeOf(L))
    BY <1>4, <1>6, <1>31, <2>1, HeadedFrame
  <2>8. Frame(h4, h5, w, End, FreeOf(L))
    BY <1>4, <1>5, <1>36, <2>1, HeadedFrame
  <2>9. Frame(h5, h6, w, End, FreeOf(L))
    BY <1>4, <1>38, <2>3, OnlyLinksFrame
  <2>10. Frame(h6, g, w, End, FreeOf(L))
    BY <1>4, <1>6, <1>43, <2>1, GivenFrame
  <2>11. Frame(h, h3, w, End, FreeOf(L))
    BY <2>2, <2>4, <2>5, <2>6, FrameTrans
  <2> QED
    BY <2>7, <2>8, <2>9, <2>10, <2>11, FrameTrans
<1>48. Linked(g, DOMAIN f2, L3)
  <2>1. ASSUME NEW x \in FreeOf(L3)
        PROVE  next(g, x) = next(h6, x) /\ prev(g, x) = prev(h6, x)
    <3>1. CASE x = new
      BY <1>5, <1>6, <1>43, <3>1, GivenLinks
    <3>2. CASE x # new
      <4>1. x \in DOMAIN f
        BY <1>1, <1>38, <3>2
      <4>2. x \in Nat /\ f2[x] \in Nat /\ x + f2[x] + 20 <= ret
        BY <1>24, <1>33, <4>1
      <4>3. x + 20 <= ret
        BY <1>6, <4>2
      <4> QED
        BY <1>6, <1>43, <4>2, <4>3, GivenLinks
    <3> QED
      BY <3>1, <3>2
  <2>2. IsHeap(g) /\ g.bins = h6.bins
    BY <1>43 DEF Given, Cleared
  <2>3. FreeOf(L3) \subseteq DOMAIN f2
    BY <1>10, <1>32, <1>38
  <2> QED
    BY <1>32, <1>38, <2>1, <2>2, <2>3, LinkedKept
<1>49. Shape(g, f2, L3, {})
  <2>1. ASSUME NEW x \in DOMAIN f2
        PROVE  \/ Same(f, L, Y, f2, L3, w, End, x)
               \/ Intact(g, f2, x) /\ (x \in {} \/ FlagIs(g, L3, x))
    <3>1. CASE x = ret
      <4>1. ret \notin FreeOf(L3)
        BY <1>1, <1>9, <1>10, <1>8, <1>38
      <4> QED
        BY <1>44, <3>1, <4>1 DEF Header, Intact, FlagIs
    <3>2. CASE x = new
      <4>1. new \in FreeOf(L3)
        BY <1>38
      <4> QED
        BY <1>46, <3>2, <4>1 DEF Header, Intact, FlagIs
    <3>3. CASE x = w
      <4>1. w \in FreeOf(L3)
        BY <1>38
      <4> QED
        BY <1>45, <3>3, <4>1 DEF Header, Intact, FlagIs
    <3>4. CASE x # ret /\ x # new /\ x # w
      <4>1. x \in DOMAIN f /\ f2[x] = f[x] /\ x + f[x] + 20 <= w
        BY <1>10, <1>11, <3>4
      <4>2. (x \in FreeOf(L3)) <=> (x \in FreeOf(L))
        BY <1>38, <3>4
      <4> QED
        BY <3>4, <4>1, <4>2 DEF Same
    <3> QED
      BY <3>1, <3>2, <3>3, <3>4
  <2>2. End <= End
    BY <1>4
  <2> QED
    BY <1>1, <1>4, <1>9, <1>38, <1>47, <1>48, <2>1, <2>2, ShapeFrom
<1>50. Zeroed(g, ret, sz)
  BY <1>43 DEF Given, Cleared, Zeroed
<1>51. DOMAIN f2 \ FreeOf(L3) = (DOMAIN f \ FreeOf(L)) \cup {ret}
  BY <1>1, <1>8, <1>9, <1>10, <1>38
<1>52. ASSUME NEW x \in DOMAIN f \ FreeOf(L)
       PROVE  f2[x] = f[x] /\ (x + f[x] + 20 <= w \/ End <= x)
  BY <1>10, <1>11
<1>53. sz <= f2[ret] /\ ret \notin DOMAIN f \ FreeOf(L)
  BY <1>10
<1>54. Grant(h, f, L, g, f2, L3, w, End, ret, sz)
  BY <1>6, <1>47, <1>49, <1>50, <1>51, <1>52, <1>53 DEF Grant
<1> QED
  BY <1>5, <1>13, <1>38, <1>40, <1>54

-----------------------------------------------------------------------------
(* kheap_free.                                                             *)

\* Header and footer of the block that x and its follower y become.
Merged(h, g, f, x, y) ==
    /\ IsHeap(g) /\ g.bins = h.bins
    /\ Load(g, x + 4) = f[x] + 20 + f[y] /\ Load(g, y + 16 + f[y]) = x
    /\ \A a \in Nat : a # x + 4 /\ a # y + 4 /\ a # y + 16 + f[y] => Load(g, a) = Load(h, a)

\* Block x took in its follower y; r, which was free, left its bin.  The flag
\* of x is not settled yet.
JoinedShape(h, f, L, g, f2, x, y, r) ==
    \E M : /\ Shape(g, f2, M, {x}) /\ FreeOf(M) = FreeOf(L) \ {r}
           /\ Frame(h, g, x, y + f[y] + 20, FreeOf(L))

\* Taking the free one of two neighbours out of its bin and writing one header and
\* one footer for both joins them.
LEMMA JoinShape ==
    ASSUME NEW h, NEW f, NEW L, NEW Y, Shape(h, f, L, Y),
           NEW x \in DOMAIN f, NEW y \in DOMAIN f, y = x + f[x] + 20, Y \subseteq {x},
           NEW r \in {x, y}, FreeOf(L) \cap {x, y} = {r},
           NEW k, k = remove_block(h, get_bin_index(f[r]), r),
           NEW g, Merged(k, g, f, x, y),
           NEW f2, f2 = Chain!Join(f, x)
    PROVE  JoinedShape(h, f, L, g, f2, x, y, r)
<1>1. /\ IsHeap(h) /\ Chained(f) /\ Apart(DOMAIN f)
      /\ Linked(h, DOMAIN f, L) /\ Sorted(f, L)
      /\ FreeOf(L) \subseteq DOMAIN f
      /\ \A z \in DOMAIN f : f[z] \in Nat /\ size(h, z) = f[z]
  BY ShapeIs
<1>2. PICK m \in Nat, n \in Nat : m = f[x] /\ n = f[y]
  BY <1>1
<1>3. /\ x \in Nat /\ y \in Nat /\ Start <= x /\ y + n + 20 <= End /\ y = x + m + 20
  BY <1>1, <1>2, ChainedIs
<1>4. Joins(f, x, y, f2)
  BY <1>1, JoinEffect
<1>5. /\ Chained(f2) /\ DOMAIN f2 = DOMAIN f \ {y}
      /\ f2[x] = m + 20 + n
      /\ \A z \in DOMAIN f : z # x /\ z # y => f2[z] = f[z]
  BY <1>2, <1>4 DEF Joins, IsJoin
<1>6. PICK hi \in Nat : hi = y + n + 20
  BY <1>3
<1>7. ASSUME NEW z \in DOMAIN f, z # x, z # y
      PROVE  z \in Nat /\ f[z] \in Nat /\ (z + f[z] + 20 <= x \/ hi <= z)
  <2>1. z \in Nat /\ f[z] \in Nat
    BY <1>1, ChainedIs
  <2>2. z + f[z] + 20 <= x \/ x + m + 20 <= z
    BY <1>1, <1>2, <1>7, BlocksApart
  <2>3. z + f[z] + 20 <= y \/ y + n + 20 <= z
    BY <1>1, <1>2, <1>7, BlocksApart
  <2> QED
    BY <1>2, <1>3, <1>6, <2>1, <2>2, <2>3
<1>8. r \in FreeOf(L) /\ r \in DOMAIN f
  BY <1>1
<1>9. PICK M : /\ Linked(k, DOMAIN f, M) /\ Sorted(f2, M)
               /\ FreeOf(M) = FreeOf(L) \ {r}
               /\ OnlyLinks(h, k, FreeOf(L))
  <2>1. get_bin_index(f[r]) \in 0 .. 8 /\ r \in ToSet(L[get_bin_index(f[r])])
    BY <1>1, <1>8, InItsBin
  <2>2. PICK i \in 0 .. 8 : i = get_bin_index(f[r])
    BY <2>1
  <2>3. r \in ToSet(L[i]) /\ \A z \in FreeOf(L) \ {r} : f2[z] = f[z]
    BY <1>1, <1>5, <2>1, <2>2
  <2>4. RemovedFrom(h, remove_block(h, i, r), DOMAIN f, f2, L, r)
    BY <1>1, <2>3, RemoveLinked
  <2>5. RemovedFrom(h, k, DOMAIN f, f2, L, r)
    BY <2>2, <2>4
  <2> QED
    BY <2>5 DEF RemovedFrom
<1>10. FreeOf(M) \cap {x, y} = {} /\ FreeOf(M) \subseteq DOMAIN f2
  BY <1>1, <1>5, <1>9
<1>11. /\ IsHeap(g) /\ g.bins = k.bins
       /\ Load(g, x + 4) = m + 20 + n /\ Load(g, y + 16 + n) = x
       /\ \A a \in Nat : a # x + 4 /\ a # y + 4 /\ a # y + 16 + n => Load(g, a) = Load(k, a)
  BY <1>2 DEF Merged
<1>12. Frame(h, g, x, hi, FreeOf(L))
  <2>1. Frame(h, k, x, hi, FreeOf(L))
    <3>1. \A z \in FreeOf(L) : z \in FreeOf(L) \/ (z \in Nat /\ x <= z /\ z + 20 <= hi)
      OBVIOUS
    <3> QED
      BY <1>3, <1>9, <3>1, OnlyLinksFrame
  <2>2. Frame(k, g, x, hi, FreeOf(L))
    <3>1. x + 4 < hi /\ x <= y + 4 /\ y + 4 < hi /\ x <= y + 16 + n /\ y + 16 + n < hi
      BY <1>3, <1>6
    <3>2. \A a \in Nat : a < x \/ hi <= a => a # x + 4 /\ a # y + 4 /\ a # y + 16 + n
      BY <1>3, <3>1
    <3> QED
      BY <1>11, <3>2 DEF Frame
  <2> QED
    BY <2>1, <2>2, FrameTrans
<1>13. Linked(g, DOMAIN f2, M)
  <2>1. ASSUME NEW z \in FreeOf(M)
        PROVE  next(g, z) = next(k, z) /\ prev(g, z) = prev(k, z)
    <3>1. z \in DOMAIN f /\ z # x /\ z # y
      BY <1>1, <1>9, <1>10
    <3>2. z \in Nat /\ (z + f[z] + 20 <= x \/ hi <= z) /\ f[z] \in Nat
      BY <1>7, <3>1
    <3>3. \A a \in {z + 8, z + 12} : a \in Nat /\ a # x + 4 /\ a # y + 4 /\ a # y + 16 + n
      BY <1>3, <1>6, <3>2
    <3> QED
      BY <1>11, <3>3 DEF next, prev
  <2>2. Apart(DOMAIN f2)
    BY <1>5, ChainedApart
  <2> QED
    BY <1>9, <1>10, <1>11, <2>1, <2>2, LinkedKept
<1>14. Intact(g, f2, x)
  <2>1. x + 16 + (m + 20 + n) = y + 16 + n
    BY <1>3
  <2> QED
    BY <1>5, <1>11, <2>1 DEF Intact, size
<1>15. Shape(g, f2, M, {x})
  <2>1. ASSUME NEW z \in DOMAIN f2
        PROVE  \/ Same(f, L, Y, f2, M, x, hi, z)
               \/ Intact(g, f2, z) /\ (z \in {x} \/ FlagIs(g, M, z))
    <3>1. CASE z = x
      BY <1>14, <3>1
    <3>2. CASE z # x
      <4>1. z \in DOMAIN f /\ z # y /\ f2[z] = f[z] /\ z \notin Y
        BY <1>5, <3>2
      <4>2. z + f[z] + 20 <= x \/ hi <= z
        BY <1>7, <3>2, <4>1
      <4>3. (z \in FreeOf(M)) <=> (z \in FreeOf(L))
        BY <1>9, <3>2, <4>1
      <4> QED
        BY <4>1, <4>2, <4>3 DEF Same
    <3> QED
      BY <3>1, <3>2
  <2>2. hi <= End
    BY <1>3, <1>6
  <2> QED
    BY <1>1, <1>3, <1>5, <1>9, <1>12, <1>13, <2>1, <2>2, ShapeFrom
<1>16. hi = y + f[y] + 20
  BY <1>2, <1>6
<1> QED
  BY <1>9, <1>12, <1>15, <1>16 DEF JoinedShape

\* Room for the two blocks as one.
LEMMA JoinFits ==
    ASSUME NEW f, Chained(f), NEW x \in DOMAIN f, NEW y \in DOMAIN f, y = x + f[x] + 20
    PROVE  /\ Fitted(x, f[x] + 20 + f[y]) /\ Fitted(y, f[y]) /\ Fitted(y, 0)
           /\ x \in Nat /\ y \in Nat /\ f[x] \in Nat /\ f[y] \in Nat
<1>1. PICK m \in Nat, n \in Nat : m = f[x] /\ n = f[y]
  BY ChainedIs
<1>2. /\ x \in Nat /\ y \in Nat /\ x % 4 = 0 /\ y % 4 = 0 /\ m % 4 = 0 /\ n % 4 = 0
      /\ Start <= x /\ Start <= y /\ y + n + 20 <= End /\ y = x + m + 20
  BY <1>1, ChainedIs
<1>3. Joins(f, x, y, Chain!Join(f, x))
  BY JoinEffect
<1>4. PICK g : Joins(f, x, y, g)
  BY <1>3
<1>5. Chained(g) /\ x \in DOMAIN g /\ g[x] = m + 20 + n
  <2>1. x # y
    BY <1>2
  <2> QED
    BY <1>1, <1>4, <2>1 DEF Joins, IsJoin
<1>6. /\ x \in Nat /\ g[x] \in Nat /\ x % 4 = 0 /\ g[x] % 4 = 0
      /\ Start <= x /\ x + g[x] + 20 <= End
  BY <1>5, ChainedIs
<1>7. Start \in Nat /\ End \in Nat
  BY Bounds
<1>8. PICK t \in Nat : t = g[x]
  BY <1>6
<1>9. Fitted(x, t)
  BY <1>6, <1>8 DEF Fitted
<1>10. Fitted(y, n)
  BY <1>2 DEF Fitted
<1>11. Fitted(y, 0)
  <2>1. y + n + 20 <= End => y + 20 <= End
    BY <1>2, <1>7
  <2>2. y + 20 <= End
    BY <1>1, <1>2, <2>1
  <2>3. 0 % 4 = 0 /\ y + 0 + 20 = y + 20
    BY <1>2
  <2> QED
    BY <1>2, <2>2, <2>3 DEF Fitted
<1>12. f[x] + 20 + f[y] = t
  BY <1>1, <1>5, <1>8
<1> QED
  BY <1>1, <1>2, <1>9, <1>10, <1>11, <1>12

\* kheap_free joins the block to the free block in front of it.
LEMMA JoinPrevShape ==
    ASSUME NEW h, NEW f, NEW L, NEW Y, Shape(h, f, L, Y),
           NEW p \in DOMAIN f, NEW b \in DOMAIN f, b = p + f[p] + 20, Y \subseteq {p},
           p \in FreeOf(L), b \notin FreeOf(L)
    PROVE  JoinedShape(h, f, L, JoinPrev(h, b, p), Chain!Join(f, p), p, b, p)
<1>1. /\ IsHeap(h) /\ Chained(f) /\ Apart(DOMAIN f)
      /\ Linked(h, DOMAIN f, L) /\ Sorted(f, L)
      /\ FreeOf(L) \subseteq DOMAIN f
      /\ \A z \in DOMAIN f : f[z] \in Nat /\ size(h, z) = f[z]
  BY ShapeIs
<1>2. PICK t \in Nat : t = f[p] + 20 + f[b]
  BY <1>1
<1>3. /\ Fitted(p, t) /\ Fitted(b, f[b])
      /\ p \in Nat /\ b \in Nat /\ f[p] \in Nat /\ f[b] \in Nat
  BY <1>1, <1>2, JoinFits
<1>4. PICK k : k = remove_block(h, get_bin_index(f[p]), p)
  OBVIOUS
<1>5. PICK h2 : h2 = SetSize(k, p, t)
  OBVIOUS
<1>6. PICK g : g = Store(h2, {b + 16 + f[b]}, p)
  OBVIOUS
<1>7. /\ IsHeap(k)
      /\ \A z \in DOMAIN f : size(k, z) = f[z]
  <2>1. get_bin_index(f[p]) \in 0 .. 8 /\ p \in ToSet(L[get_bin_index(f[p])])
    BY <1>1, InItsBin
  <2>2. PICK i \in 0 .. 8 : i = get_bin_index(f[p])
    BY <2>1
  <2>3. p \in ToSet(L[i]) /\ \A z \in FreeOf(L) \ {p} : f[z] = f[z]
    BY <2>1, <2>2
  <2>4. RemovedFrom(h, remove_block(h, i, p), DOMAIN f, f, L, p)
    BY <1>1, <2>3, RemoveLinked
  <2>5. RemovedFrom(h, k, DOMAIN f, f, L, p)
    BY <1>4, <2>2, <2>4
  <2>6. IsHeap(k) /\ OnlyLinks(h, k, FreeOf(L))
    BY <2>5 DEF RemovedFrom, Linked
  <2>7. OnlyLinks(h, k, DOMAIN f)
    BY <1>1, <2>6, OnlyLinksMore
  <2> QED
    BY <1>1, <2>6, <2>7, OnlyLinksKeep
<1>8. /\ IsHeap(h2) /\ h2.bins = k.bins
      /\ \A a : Load(h2, a) = IF a = p + 4 THEN t ELSE Load(k, a)
  BY <1>3, <1>5, <1>7, SizeStored
<1>9. size(h2, b) = f[b]
  <2>1. b + 4 # p + 4
    BY <1>3
  <2> QED
    BY <1>7, <1>8, <2>1 DEF size
<1>10. JoinPrev(h, b, p) = g
  <2>1. size(h, p) = f[p] /\ size(k, p) + BLCK_OVERHEAD + size(k, b) = t
    BY <1>1, <1>2, <1>7 DEF BLCK_OVERHEAD
  <2>2. get_foot(h2, b) = b + 16 + f[b]
    BY <1>3, <1>9, FittedWords DEF get_foot
  <2> QED
    BY <1>4, <1>5, <1>6, <2>1, <2>2 DEF JoinPrev
<1>11. Merged(k, g, f, p, b)
  <2>1. PICK A : A = {b + 16 + f[b]}
    OBVIOUS
  <2>2. p \in 0 .. AddrSpace - 1 /\ \A a \in A : Word(a)
    BY <1>1, <1>3, <2>1, FittedWords
  <2>3. /\ IsHeap(g) /\ g.bins = h2.bins
        /\ \A a : Load(g, a) = IF a \in A THEN p ELSE Load(h2, a)
    BY <1>6, <1>8, <2>1, <2>2, StoreLoad
  <2>4. b + 16 + f[b] # p + 4
    BY <1>3
  <2> QED
    BY <1>2, <1>8, <2>1, <2>3, <2>4 DEF Merged
<1>12. FreeOf(L) \cap {p, b} = {p}
  OBVIOUS
<1>13. PICK f2 : f2 = Chain!Join(f, p)
  OBVIOUS
<1>14. JoinedShape(h, f, L, g, f2, p, b, p)
  BY <1>4, <1>11, <1>12, <1>13, JoinShape
<1> QED
  BY <1>10, <1>13, <1>14

\* kheap_free joins the free block behind it to the block.
LEMMA JoinNextShape ==
    ASSUME NEW h, NEW f, NEW L, NEW Y, Shape(h, f, L, Y),
           NEW b \in DOMAIN f, NEW n \in DOMAIN f, n = b + f[b] + 20, Y \subseteq {b},
           n \in FreeOf(L), b \notin FreeOf(L)
    PROVE  JoinedShape(h, f, L, JoinNext(h, b, n), Chain!Join(f, b), b, n, n)
<1>1. /\ IsHeap(h) /\ Chained(f) /\ Apart(DOMAIN f)
      /\ Linked(h, DOMAIN f, L) /\ Sorted(f, L)
      /\ FreeOf(L) \subseteq DOMAIN f
      /\ \A z \in DOMAIN f : f[z] \in Nat /\ size(h, z) = f[z]
  BY ShapeIs
<1>2. PICK t \in Nat : t = f[b] + 20 + f[n]
  BY <1>1
<1>3. /\ Fitted(b, t) /\ Fitted(n, f[n]) /\ Fitted(n, 0)
      /\ b \in Nat /\ n \in Nat /\ f[b] \in Nat /\ f[n] \in Nat
  BY <1>1, <1>2, JoinFits
<1>4. PICK k : k = remove_block(h, get_bin_index(f[n]), n)
  OBVIOUS
<1>5. PICK h2 : h2 = SetSize(k, b, t)
  OBVIOUS
<1>6. PICK h3 : h3 = Store(h2, {n + 16 + f[n]}, 0)
  OBVIOUS
<1>7. PICK h4 : h4 = SetSize(h3, n, 0)
  OBVIOUS
<1>8. PICK g : g = create_foot(h4, b)
  OBVIOUS
<1>9. /\ IsHeap(k)
      /\ \A z \in DOMAIN f : size(k, z) = f[z]
  <2>1. get_bin_index(f[n]) \in 0 .. 8 /\ n \in ToSet(L[get_bin_index(f[n])])
    BY <1>1, InItsBin
  <2>2. PICK i \in 0 .. 8 : i = get_bin_index(f[n])
    BY <2>1
  <2>3. n \in ToSet(L[i]) /\ \A z \in FreeOf(L) \ {n} : f[z] = f[z]
    BY <2>1, <2>2
  <2>4. RemovedFrom(h, remove_block(h, i, n), DOMAIN f, f, L, n)
    BY <1>1, <2>3, RemoveLinked
  <2>5. RemovedFrom(h, k, DOMAIN f, f, L, n)
    BY <1>4, <2>2, <2>4
  <2>6. IsHeap(k) /\ OnlyLinks(h, k, FreeOf(L))
    BY <2>5 DEF RemovedFrom, Linked
  <2>7. OnlyLinks(h, k, DOMAIN f)
    BY <1>1, <2>6, OnlyLinksMore
  <2> QED
    BY <1>1, <2>6, <2>7, OnlyLinksKeep
<1>10. /\ IsHeap(h2) /\ h2.bins = k.bins
       /\ \A a : Load(h2, a) = IF a = b + 4 THEN t ELSE Load(k, a)
  <2>1. IsHeap(k) /\ Fitted(b, t)
    BY <1>3, <1>9
  <2> QED
    BY ONLY <1>5, <2>1, SizeStored
<1>11. size(h2, n) = f[n]
  <2>1. n + 4 # b + 4
    BY <1>3
  <2> QED
    BY <1>9, <1>10, <2>1 DEF size
<1>12. /\ IsHeap(h3) /\ h3.bins = h2.bins
       /\ \A a : Load(h3, a) = IF a = n + 16 + f[n] THEN 0 ELSE Load(h2, a)
  <2>1. PICK A : A = {n + 16 + f[n]}
    OBVIOUS
  <2>2. 0 \in 0 .. AddrSpace - 1 /\ \A a \in A : Word(a)
    BY <1>3, <2>1, FittedWords, Bounds
  <2>3. /\ IsHeap(h3) /\ h3.bins = h2.bins
        /\ \A a : Load(h3, a) = IF a \in A THEN 0 ELSE Load(h2, a)
    BY <1>6, <1>10, <2>1, <2>2, StoreLoad
  <2> QED
    BY <2>1, <2>3
<1>13. /\ IsHeap(h4) /\ h4.bins = h3.bins
       /\ \A a : Load(h4, a) = IF a = n + 4 THEN 0 ELSE Load(h3, a)
  <2>1. IsHeap(h3) /\ Fitted(n, 0)
    BY <1>3, <1>12
  <2> QED
    BY ONLY <1>7, <2>1, SizeStored
<1>14. b + 4 # n + 16 + f[n] /\ b + 4 # n + 4 /\ b + 16 + t = n + 16 + f[n]
  BY <1>2, <1>3
<1>15. size(h4, b) = t
  BY <1>10, <1>12, <1>13, <1>14 DEF size
<1>16. /\ IsHeap(g) /\ g.bins = h4.bins
       /\ \A a : Load(g, a) = IF a = b + 16 + t THEN b ELSE Load(h4, a)
  BY <1>3, <1>8, <1>13, <1>15, FootStored
<1>17. JoinNext(h, b, n) = g
  <2>1. size(h, n) = f[n] /\ size(k, b) + BLCK_OVERHEAD + size(k, n) = t
    BY <1>1, <1>2, <1>9 DEF BLCK_OVERHEAD
  <2>2. get_foot(h2, n) = n + 16 + f[n]
    BY <1>3, <1>11, FittedWords DEF get_foot
  <2> QED
    BY <1>4, <1>5, <1>6, <1>7, <1>8, <2>1, <2>2 DEF JoinNext
<1>18. Merged(k, g, f, b, n)
  BY <1>2, <1>10, <1>12, <1>13, <1>14, <1>16 DEF Merged
<1>19. FreeOf(L) \cap {b, n} = {n}
  OBVIOUS
<1>20. PICK f2 : f2 = Chain!Join(f, b)
  OBVIOUS
<1>21. JoinedShape(h, f, L, g, f2, b, n, n)
  BY <1>4, <1>18, <1>19, <1>20, JoinShape
<1> QED
  BY <1>17, <1>20, <1>21

\* A block that was in use, and whose flag need not be right, goes to its bin.
BinnedShape(h, f, L, g, b) ==
    \E M : /\ Shape(g, f, M, {}) /\ FreeOf(M) = FreeOf(L) \cup {b}
           /\ Frame(h, g, b, b + f[b] + 20, FreeOf(L))

\* The end of kheap_free.
Binned(h, b) == add_block_sorted(SetHole(h, b, 1), get_bin_index(size(h, b)), b)

\* kheap_free marks the block as a hole and puts it into its bin.
LEMMA BinShape ==
    ASSUME NEW h, NEW f, NEW L, NEW Y, Shape(h, f, L, Y),
           NEW b \in DOMAIN f, b \notin FreeOf(L), Y \subseteq {b}
    PROVE  BinnedShape(h, f, L, Binned(h, b), b)
<1>1. /\ IsHeap(h) /\ Chained(f) /\ Apart(DOMAIN f)
      /\ Linked(h, DOMAIN f, L) /\ Sorted(f, L)
      /\ FreeOf(L) \subseteq DOMAIN f
      /\ \A z \in DOMAIN f : f[z] \in Nat /\ size(h, z) = f[z]
      /\ \A z \in DOMAIN f : Intact(h, f, z)
  BY ShapeIs DEF Shape
<1>2. PICK n \in Nat : n = f[b]
  BY <1>1
<1>3. b \in Nat /\ Start <= b /\ b + n + 20 <= End /\ Word(b)
  BY <1>1, <1>2, ChainedIs, HeaderWords
<1>4. PICK k : k = SetHole(h, b, 1)
  OBVIOUS
<1>5. /\ IsHeap(k) /\ k.bins = h.bins
      /\ \A a : Load(k, a) = IF a = b THEN 1 ELSE Load(h, a)
  BY <1>1, <1>3, <1>4, HoleStored
<1>6. \A z \in DOMAIN f : size(k, z) = f[z]
  <2>1. ASSUME NEW z \in DOMAIN f PROVE z + 4 # b
    <3>1. z \in Nat /\ f[z] \in Nat /\ (z = b \/ z + f[z] + 20 <= b \/ b + n + 20 <= z)
      BY <1>1, <1>2, ChainedIs, BlocksApart
    <3> QED
      BY <1>3, <3>1
  <2> QED
    BY <1>1, <1>5, <2>1 DEF size
<1>7. Linked(k, DOMAIN f, L)
  <2>1. ASSUME NEW z \in FreeOf(L) PROVE next(k, z) = next(h, z) /\ prev(k, z) = prev(h, z)
    <3>1. z \in DOMAIN f
      BY <1>1
    <3>2. z \in Nat /\ f[z] \in Nat /\ (z = b \/ z + f[z] + 20 <= b \/ b + n + 20 <= z)
      BY <1>1, <1>2, <3>1, ChainedIs, BlocksApart
    <3>3. z + 8 # b /\ z + 12 # b
      BY <1>3, <3>2
    <3> QED
      BY <1>5, <3>3 DEF next, prev
  <2> QED
    BY <1>1, <1>5, <2>1, LinkedKept
<1>8. get_bin_index(n) \in 0 .. 8 /\ size(k, b) = n
  BY <1>2, <1>6, BinIndexIs
<1>9. PICK i \in 0 .. 8 : i = get_bin_index(f[b])
  BY <1>2, <1>8
<1>10. PICK g : g = add_block_sorted(k, i, b)
  OBVIOUS
<1>11. Binned(h, b) = g
  BY <1>1, <1>2, <1>4, <1>9, <1>10 DEF Binned
<1>12. AddedTo(k, g, DOMAIN f, f, L, b)
  BY <1>1, <1>6, <1>7, <1>9, <1>10, AddLinked
<1>13. PICK M : /\ Linked(g, DOMAIN f, M) /\ Sorted(f, M) /\ FreeOf(M) = FreeOf(L) \cup {b}
                /\ OnlyLinks(k, g, FreeOf(L) \cup {b})
  BY <1>12 DEF AddedTo
<1>14. PICK hi \in Nat : hi = b + n + 20
  BY <1>3
<1>15. Frame(h, g, b, hi, FreeOf(L))
  <2>1. Frame(h, k, b, hi, FreeOf(L))
    <3>1. \A a \in Nat : a < b \/ hi <= a => a # b
      BY <1>3, <1>14
    <3> QED
      BY <1>5, <3>1 DEF Frame
  <2>2. Frame(k, g, b, hi, FreeOf(L))
    <3>1. \A x \in FreeOf(L) \cup {b} : x \in FreeOf(L) \/ (x \in Nat /\ b <= x /\ x + 20 <= hi)
      BY <1>3, <1>14
    <3> QED
      BY <1>3, <1>13, <3>1, OnlyLinksFrame
  <2> QED
    BY <2>1, <2>2, FrameTrans
<1>16. Intact(g, f, b) /\ FlagIs(g, M, b)
  <2>1. OnlyLinks(k, g, DOMAIN f)
    <3>1. FreeOf(L) \cup {b} \subseteq DOMAIN f
      BY <1>1
    <3> QED
      BY <1>13, <3>1, OnlyLinksMore
  <2>2. Header(k, b, n, 1)
    <3>1. hole(k, b) = 1
      BY <1>5 DEF hole
    <3>2. Load(h, b + 16 + n) = b /\ b + 16 + n # b
      BY <1>1, <1>2, <1>3 DEF Intact
    <3> QED
      BY <1>5, <1>8, <3>1, <3>2 DEF Header
  <2>3. Header(g, b, n, 1)
    BY <1>1, <1>2, <2>1, <2>2, HeaderLinks
  <2> QED
    BY <1>2, <1>13, <2>3 DEF Header, Intact, FlagIs
<1>17. Shape(g, f, M, {})
  <2>1. ASSUME NEW z \in DOMAIN f
        PROVE  \/ Same(f, L, Y, f, M, b, hi, z)
               \/ Intact(g, f, z) /\ (z \in {} \/ FlagIs(g, M, z))
    <3>1. CASE z = b
      BY <1>16, <3>1
    <3>2. CASE z # b
      <4>1. z \in DOMAIN f \ Y /\ (z + f[z] + 20 <= b \/ hi <= z)
        BY <1>1, <1>2, <1>14, <3>2, BlocksApart
      <4>2. (z \in FreeOf(M)) <=> (z \in FreeOf(L))
        BY <1>13, <3>2
      <4> QED
        BY <4>1, <4>2 DEF Same
    <3> QED
      BY <3>1, <3>2
  <2>2. hi <= End
    BY <1>3, <1>14
  <2> QED
    BY <1>1, <1>3, <1>13, <1>15, <2>1, <2>2, ShapeFrom
<1> QED
  BY <1>2, <1>11, <1>13, <1>14, <1>15, <1>17 DEF BinnedShape

-----------------------------------------------------------------------------
(* The heap and what callers own.                                          *)

\* The flag of the first block is not set by kheap_init.  It is as long as the
\* heap is this one free block.
Fresh(f, F, Y) == Y = {} \/ (Y = {Start} /\ DOMAIN f = {Start} /\ F = {Start})

\* Heap h holds the chain f whose blocks F are in bins, and what callers own.
Rep(h, f, F, lv) ==
    \E L, Y : /\ F = FreeOf(L) /\ Fresh(f, F, Y)
              /\ Shape(h, f, L, Y) /\ LiveIs(h, f, L, lv)

\* A heap in shape that callers use as they should is represented.
LEMMA RepFrom ==
    ASSUME NEW h, NEW f, NEW L, NEW lv, Shape(h, f, L, {}), LiveIs(h, f, L, lv)
    PROVE  Rep(h, f, FreeOf(L), lv)
<1>1. Fresh(f, FreeOf(L), {})
  BY DEF Fresh
<1> QED
  BY <1>1 DEF Rep

\* What callers own once block b was handed out for sz bytes.
Handed(lv, a, sz) ==
    [x \in DOMAIN lv \cup {a} |-> IF x = a THEN [sz |-> sz, data |-> 0] ELSE lv[x]]

\* A heap that gave a block out is represented again.
LEMMA GrantRep ==
    ASSUME NEW h, NEW f, NEW L, NEW Y, Shape(h, f, L, Y), NEW lv, LiveIs(h, f, L, lv),
           NEW g, NEW f2, NEW M, NEW lo \in Nat, NEW hi \in Nat, NEW b,
           NEW sz \in Sizes \cup PageSizes,
           Grant(h, f, L, g, f2, M, lo, hi, b, sz),
           NEW lv2, lv2 = Handed(lv, b + 8, sz)
    PROVE  Rep(g, f2, FreeOf(M), lv2)
<1> DEFINE U == DOMAIN f \ FreeOf(L)
           V == DOMAIN f2 \ FreeOf(M)
<1>1. Chained(f) /\ FreeOf(L) \subseteq DOMAIN f /\ \A x \in U : x \in Nat
  BY ShapeIs, ChainedIs
<1>2. /\ Shape(g, f2, M, {}) /\ Frame(h, g, lo, hi, FreeOf(L)) /\ Zeroed(g, b, sz)
      /\ V = U \cup {b} /\ b \notin U /\ b \in Nat /\ sz <= f2[b]
      /\ \A x \in U : f2[x] = f[x] /\ (x + f[x] + 20 <= lo \/ hi <= x)
  BY DEF Grant
<1>3. DOMAIN lv = {x + 8 : x \in U}
  BY DEF LiveIs
<1>4. DOMAIN lv2 = {x + 8 : x \in V}
  <2>1. DOMAIN lv2 = DOMAIN lv \cup {b + 8}
    BY DEF Handed
  <2> HIDE DEF U, V
  <2> QED
    BY <1>2, <1>3, <2>1
<1>5. Payload(g, b, f2[b], lv2[b + 8])
  <2>1. lv2[b + 8] = [sz |-> sz, data |-> 0]
    BY DEF Handed
  <2>2. PICK r : r = [sz |-> sz, data |-> 0]
    OBVIOUS
  <2>3. r \in [sz : Sizes \cup PageSizes, data : {0, Pattern}] /\ r.sz = sz /\ r.data = 0
    BY <2>2
  <2>4. Payload(g, b, f2[b], r)
    BY <1>2, <2>3 DEF Payload, Zeroed, Pattern
  <2> QED
    BY <2>1, <2>2, <2>4
<1>6. ASSUME NEW x \in V, x # b
      PROVE  /\ x \in U /\ f2[x] = f[x]
             /\ x + f[x] + 20 <= lo \/ hi <= x
             /\ lv2[x + 8] = lv[x + 8]
  <2>1. x \in U /\ x \in Nat /\ x + 8 # b + 8
    BY <1>1, <1>2, <1>6
  <2>2. x + 8 \in DOMAIN lv
    BY <1>3, <2>1
  <2>3. lv2[x + 8] = lv[x + 8]
    BY <2>1, <2>2 DEF Handed
  <2> QED
    BY <1>2, <2>1, <2>3
<1>7. LiveIs(g, f2, M, lv2)
  BY <1>1, <1>2, <1>4, <1>5, <1>6, LiveFrom
<1> QED
  BY <1>2, <1>7, RepFrom

\* A block whose flag was never set, in a bin, is the only one.
LEMMA FreshFree ==
    ASSUME NEW f, NEW F, NEW Y, Fresh(f, F, Y), NEW b \in F
    PROVE  Y \subseteq {b}
  BY DEF Fresh

\* Once a block is in use, every flag was set.
LEMMA FreshUsed ==
    ASSUME NEW f, NEW F, NEW Y, Fresh(f, F, Y), NEW b \in DOMAIN f \ F
    PROVE  Y = {}
  BY DEF Fresh

-----------------------------------------------------------------------------
(* kheap_init.                                                             *)

InitHeap(v) ==
    LET sz    == End - Start - BLCK_OVERHEAD
        empty == [mem |-> <<>>, bins |-> [i \in 0 .. BIN_CNT - 1 |-> NULL]]
        h     == SetSize(SetHole(empty, Start, v), Start, sz)
    IN  add_block_sorted(create_foot(h, Start), get_bin_index(sz), Start)

WholeChain == [b \in {Start} |-> End - Start - BLCK_OVERHEAD]

\* One block is the whole heap.
LEMMA WholeChained ==
    /\ Chained(WholeChain) /\ DOMAIN WholeChain = {Start}
    /\ WholeChain[Start] = End - Start - 20 /\ Fitted(Start, End - Start - 20)
<1>1. /\ Start \in Nat /\ End \in Nat /\ Start + 4096 <= End
      /\ Start % 4 = 0 /\ End % 4 = 0
  BY Bounds
<1>2. PICK sz \in Nat : sz = End - Start - 20
  BY <1>1
<1>3. sz % 4 = 0 /\ Start + sz + 20 = End
  <2>1. (End - Start) % 4 = 0 /\ End - Start \in Int /\ 20 \in Int /\ 20 % 4 = 0
    BY <1>1, WordSums
  <2> QED
    BY <1>1, <1>2, <2>1, WordSums
<1>4. WholeChain = [b \in {Start} |-> sz]
  BY <1>2 DEF WholeChain, BLCK_OVERHEAD
<1>5. Chained(WholeChain)
  BY <1>1, <1>3, <1>4 DEF Chained
<1>6. Fitted(Start, sz)
  BY <1>1, <1>3 DEF Fitted
<1> QED
  BY <1>2, <1>4, <1>5, <1>6

\* kheap_init makes a heap of one block in its bin.
LEMMA InitRep ==
    ASSUME NEW v \in {0, 1}
    PROVE  Rep(InitHeap(v), WholeChain, {Start}, <<>>)
<1> DEFINE h0 == [mem |-> <<>>, bins |-> [i \in 0 .. BIN_CNT - 1 |-> NULL]]
<1>1. PICK f : f = WholeChain
  OBVIOUS
<1>2. PICK sz \in Nat : sz = End - Start - 20
  BY WholeChained DEF Fitted
<1>3. Chained(f) /\ DOMAIN f = {Start} /\ f[Start] = sz /\ Fitted(Start, sz)
  BY <1>1, <1>2, WholeChained
<1>4. Apart(DOMAIN f) /\ Start \in Nat /\ Word(Start) /\ Word(End) /\ Start + sz + 20 = End
  <2>1. Apart(DOMAIN f)
    BY <1>3, ChainedApart
  <2> QED
    BY <1>2, <1>3, <2>1, Bounds DEF Word
<1>5. PICK e : e = h0
  OBVIOUS
<1>6. IsHeap(e) /\ e.bins = [i \in 0 .. 8 |-> 0] /\ \A a : Load(e, a) = 0
  <2>1. e = [mem |-> <<>>, bins |-> [i \in 0 .. 8 |-> 0]]
    BY <1>5 DEF BIN_CNT, NULL
  <2>2. e.mem = <<>> /\ e.bins = [i \in 0 .. 8 |-> 0] /\ e = [mem |-> e.mem, bins |-> e.bins]
    BY <2>1
  <2>3. DOMAIN e.mem = {} /\ e.mem = [a \in {} |-> 0]
    BY <2>2
  <2>4. e.mem = [a \in DOMAIN e.mem |-> e.mem[a]]
    BY <2>3
  <2>5. e.bins \in [0 .. 8 -> Nat]
    BY <2>2
  <2>6. \A a : Load(e, a) = 0
    BY <2>3 DEF Load
  <2> QED
    BY <2>2, <2>3, <2>4, <2>5, <2>6 DEF IsHeap, BIN_CNT
<1> HIDE DEF h0
<1>7. PICK h1 : h1 = SetHole(e, Start, v)
  OBVIOUS
<1>8. /\ IsHeap(h1) /\ h1.bins = e.bins
       /\ \A a : Load(h1, a) = IF a = Start THEN v ELSE 0
  <2>1. IsHeap(e) /\ Word(Start)
    BY <1>4, <1>6
  <2>2. /\ IsHeap(h1) /\ h1.bins = e.bins
        /\ \A a : Load(h1, a) = IF a = Start THEN v ELSE Load(e, a)
    BY <1>7, <2>1, HoleStored
  <2> QED
    BY <1>6, <2>2
<1>9. PICK h2 : h2 = SetSize(h1, Start, sz)
  OBVIOUS
<1>10. /\ IsHeap(h2) /\ h2.bins = h1.bins
       /\ \A a : Load(h2, a) = IF a = Start + 4 THEN sz ELSE Load(h1, a)
  BY <1>3, <1>8, <1>9, SizeStored
<1>11. PICK k : k = create_foot(h2, Start)
  OBVIOUS
<1>12. /\ IsHeap(k) /\ k.bins = h2.bins
       /\ \A a : Load(k, a) = IF a = Start + 16 + sz THEN Start ELSE Load(h2, a)
  <2>1. size(h2, Start) = sz
    BY <1>10 DEF size
  <2> QED
    BY <1>3, <1>10, <1>11, <2>1, FootStored
<1>13. PICK L : L = [i \in 0 .. 8 |-> <<>>]
  OBVIOUS
<1>14. FreeOf(L) = {}
  <2>1. L \in [0 .. 8 -> Seq({})]
    BY <1>13
  <2> QED
    BY <2>1, FreeOfIs
<1>15. Linked(k, DOMAIN f, L) /\ Sorted(f, L)
  <2>1. \A i \in 0 .. 8 : L[i] = <<>> /\ Len(L[i]) = 0 /\ ToSet(L[i]) = {}
    BY <1>13 DEF ToSet
  <2>2. \A i \in 0 .. 8 : IsList(k, i, L[i])
    <3>1. \A i \in 0 .. 8 : k.bins[i] = 0
      BY <1>6, <1>8, <1>10, <1>12
    <3> QED
      BY <2>1, <3>1 DEF IsList
  <2>3. L \in [0 .. 8 -> Seq(DOMAIN f)]
    BY <1>13
  <2>4. Sorted(f, L)
    BY <2>1 DEF Sorted, SortedList
  <2> QED
    BY <1>4, <1>12, <2>1, <2>2, <2>3, <2>4 DEF Linked
<1>16. get_bin_index(sz) \in 0 .. 8 /\ Start + 4 # Start + 16 + sz /\ size(k, Start) = sz
  <2>1. Start + 4 # Start + 16 + sz
    BY <1>4
  <2> QED
    BY <1>10, <1>12, <2>1, BinIndexIs DEF size
<1>17. PICK i \in 0 .. 8 : i = get_bin_index(sz)
  BY <1>16
<1>18. PICK g : g = add_block_sorted(k, i, Start)
  OBVIOUS
<1>19. AddedTo(k, g, DOMAIN f, f, L, Start)
  <2>1. Start \in DOMAIN f /\ Start \notin FreeOf(L) /\ i = get_bin_index(f[Start])
    BY <1>3, <1>14, <1>17
  <2>2. \A x \in DOMAIN f : f[x] \in Nat /\ size(k, x) = f[x]
    BY <1>3, <1>16
  <2> QED
    BY <1>15, <1>18, <2>1, <2>2, AddLinked
<1>20. PICK M : /\ Linked(g, DOMAIN f, M) /\ Sorted(f, M) /\ FreeOf(M) = {Start}
                /\ OnlyLinks(k, g, {Start})
  <2>1. FreeOf(L) \cup {Start} = {Start}
    BY <1>14
  <2> QED
    BY <1>19, <2>1 DEF AddedTo
<1>21. InitHeap(v) = g
  BY <1>2, <1>5, <1>7, <1>9, <1>11, <1>17, <1>18 DEF InitHeap, h0, BLCK_OVERHEAD
<1>22. Intact(g, f, Start) /\ Load(g, End) = 0
  <2>1. \A a \in {Start + 4, Start + 16 + sz, End} :
            a \in Nat /\ a # Start + 8 /\ a # Start + 12
    BY <1>4
  <2>2. \A a \in {Start + 4, Start + 16 + sz, End} : Load(g, a) = Load(k, a)
    BY <1>20, <2>1 DEF OnlyLinks
  <2>3. Load(k, End) = 0
    <3>1. End # Start + 16 + sz /\ End # Start + 4 /\ End # Start
      BY <1>4
    <3> QED
      BY <1>8, <1>10, <1>12, <3>1
  <2> QED
    BY <1>3, <1>12, <1>16, <2>2, <2>3 DEF Intact, size
<1>23. Shape(g, f, M, {Start})
  <2>1. IsHeap(g)
    BY <1>20 DEF Linked
  <2> QED
    BY <1>3, <1>20, <1>22, <2>1 DEF Shape
<1>24. LiveIs(g, f, M, <<>>)
  BY <1>3, <1>20 DEF LiveIs
<1>25. Fresh(f, {Start}, {Start})
  BY <1>3 DEF Fresh
<1> QED
  BY <1>1, <1>20, <1>21, <1>23, <1>24, <1>25 DEF Rep

-----------------------------------------------------------------------------
(* What the operations do to the heap and to what callers own.             *)

\* Sizes are multiples of the word.
LEMMA RequestIs ==
    ASSUME NEW sz \in Sizes \cup PageSizes
    PROVE  sz \in Nat /\ sz % 4 = 0
  BY KHeapAssumption

\* The block b that a request for sz bytes gets: a smallest one that fits.
BestFit(f, F, sz, b) ==
    b \in F /\ f[b] >= sz /\ \A c \in F : f[c] >= sz => f[b] <= f[c]

\* What kheap_alloc makes of the heap when it finds block b.
Allocated(f, F, g, lv2, sz, b) ==
    \/ /\ f[b] - sz > 24
       /\ Rep(g, Chain!Cut(f, b, sz), (F \ {b}) \cup {b + sz + 20}, lv2)
    \/ /\ f[b] - sz <= 24
       /\ Rep(g, f, F \ {b}, lv2)

\* kheap_alloc finds the best fit, splits it as the chain does, and hands zeroed
\* words to the caller.
LEMMA AllocRep ==
    ASSUME NEW h, NEW f, NEW F, NEW lv, Rep(h, f, F, lv),
           NEW sz \in Sizes, FittingBins(h, sz) # {},
           NEW b, b = Found(h, sz), NEW lv2, lv2 = Handed(lv, b + 8, sz)
    PROVE  /\ BestFit(f, F, sz, b)
           /\ Allocated(f, F, kheap_alloc(h, sz), lv2, sz, b)
<1>1. PICK L, Y : F = FreeOf(L) /\ Fresh(f, F, Y) /\ Shape(h, f, L, Y) /\ LiveIs(h, f, L, lv)
  BY DEF Rep
<1>2. /\ IsHeap(h) /\ Chained(f) /\ Apart(DOMAIN f)
      /\ Linked(h, DOMAIN f, L) /\ Sorted(f, L)
      /\ FreeOf(L) \subseteq DOMAIN f
      /\ L \in [0 .. 8 -> Seq(DOMAIN f)]
      /\ \A z \in DOMAIN f : f[z] \in Nat /\ size(h, z) = f[z]
  BY <1>1, ShapeIs
<1>3. sz \in Nat /\ sz % 4 = 0 /\ sz \in Sizes \cup PageSizes
  BY RequestIs
<1>4. /\ FoundBin(h, sz) \in 0 .. 8
      /\ b \in ToSet(L[FoundBin(h, sz)])
      /\ f[b] >= sz
      /\ \A c \in FreeOf(L) : f[c] >= sz => f[b] <= f[c]
  BY <1>2, <1>3, FoundIs
<1>5. b \in FreeOf(L) /\ b \in DOMAIN f
  BY <1>2, <1>4, FreeOfIs
<1>6. FoundBin(h, sz) = get_bin_index(f[b])
  <2>1. f[b] \in Nat
    BY <1>2, <1>5
  <2>2. \A i \in 0 .. 8 : b \in ToSet(L[i]) => i = get_bin_index(f[b])
    BY <1>2, <1>5, <2>1, InItsBin
  <2> QED
    BY <1>4, <2>2
<1>7. BestFit(f, F, sz, b)
  BY <1>1, <1>4, <1>5 DEF BestFit
<1>8. PICK n \in Nat : n = f[b] /\ size(h, b) = n
  BY <1>2, <1>5
<1>9. b \in Nat /\ b + n + 20 \in Nat
  <2>1. b \in Nat
    BY <1>2, <1>5, ChainedIs
  <2> QED
    BY <2>1
<1>10. Y \subseteq {b}
  BY <1>1, <1>5, FreshFree
<1>11. PICK hi \in Nat : hi = b + f[b] + 20
  BY <1>8, <1>9
<1>12. PICK g : g = kheap_alloc(h, sz)
  OBVIOUS
<1>13. Allocated(f, F, g, lv2, sz, b)
  <2>1. CASE f[b] - sz > 24
    <3>1. g = Give(remove_block(SetHole(Carve(h, b, sz), b, 0), get_bin_index(f[b]), b), b)
      BY <1>6, <1>8, <1>12, <2>1 DEF kheap_alloc, BLCK_OVERHEAD, MIN_ALLOC_SZ
    <3>2. PICK f2 : f2 = Chain!Cut(f, b, sz)
      OBVIOUS
    <3>3. PICK M : /\ Grant(h, f, L, g, f2, M, b, b + f[b] + 20, b, sz)
                   /\ FreeOf(M) = (FreeOf(L) \ {b}) \cup {b + sz + 20}
      BY <1>1, <1>3, <1>5, <1>10, <2>1, <3>1, <3>2, SplitShape
    <3>4. Grant(h, f, L, g, f2, M, b, hi, b, sz)
      BY <1>11, <3>3
    <3>5. Rep(g, f2, FreeOf(M), lv2)
      BY <1>1, <1>3, <1>9, <3>4, GrantRep
    <3> QED
      BY <1>1, <2>1, <3>2, <3>3, <3>5 DEF Allocated
  <2>2. CASE ~ (f[b] - sz > 24)
    <3>1. g = Give(remove_block(SetHole(h, b, 0), get_bin_index(f[b]), b), b)
      BY <1>6, <1>8, <1>12, <2>2 DEF kheap_alloc, BLCK_OVERHEAD, MIN_ALLOC_SZ
    <3>2. sz <= f[b] /\ f[b] - sz <= 24
      BY <1>3, <1>4, <1>8, <2>2
    <3>3. PICK M : /\ Grant(h, f, L, g, f, M, b, b + f[b] + 20, b, sz)
                   /\ FreeOf(M) = FreeOf(L) \ {b}
      BY <1>1, <1>3, <1>5, <1>10, <3>1, <3>2, WholeShape
    <3>4. Grant(h, f, L, g, f, M, b, hi, b, sz)
      BY <1>11, <3>3
    <3>5. Rep(g, f, FreeOf(M), lv2)
      BY <1>1, <1>3, <1>9, <3>4, GrantRep
    <3> QED
      BY <1>1, <3>2, <3>3, <3>5 DEF Allocated
  <2> QED
    BY <2>1, <2>2
<1> QED
  BY <1>7, <1>12, <1>13

\* The loop of kheap_alloc goes past the last bin only if no block fits.
LEMMA FaultRep ==
    ASSUME NEW h, NEW f, NEW F, NEW lv, Rep(h, f, F, lv),
           NEW sz \in Sizes, FittingBins(h, sz) = {}
    PROVE  \A c \in F : ~ (f[c] >= sz)
<1>1. PICK L, Y : F = FreeOf(L) /\ Shape(h, f, L, Y)
  BY DEF Rep
<1>2. /\ Linked(h, DOMAIN f, L) /\ Sorted(f, L)
      /\ FreeOf(L) \subseteq DOMAIN f
      /\ \A z \in DOMAIN f : f[z] \in Nat /\ size(h, z) = f[z]
  BY <1>1, ShapeIs
<1>3. sz \in Nat
  BY RequestIs
<1>4. \A c \in FreeOf(L) : f[c] < sz
  BY <1>2, <1>3, NoneFits
<1> QED
  BY <1>1, <1>2, <1>3, <1>4

\* Block w is the last one, it is free, and a page fits in it.
Roomy(f, F, w, sz) ==
    /\ w \in F /\ w + f[w] + 20 = End
    /\ Chain!Lead(w) >= 0 /\ Chain!Lead(w) + sz + 40 <= f[w]

\* What kheap_alloc_a makes of the heap.
Paged(f, F, g, lv2, sz, w, ret) ==
    Rep(g, Chain!Cut(Chain!Cut(f, w, Chain!Lead(w)), ret, sz), F \cup {ret + sz + 20}, lv2)

\* kheap_alloc_a cuts the page out of the last block as the chain does, if there is
\* room for it there.
LEMMA AllocARep ==
    ASSUME NEW h, NEW f, NEW F, NEW lv, Rep(h, f, F, lv),
           NEW sz \in PageSizes, NEW w, w = get_wilderness(h), Roomy(f, F, w, sz),
           NEW ret, ret = PageBlock(h), NEW lv2, lv2 = Handed(lv, ret + 8, sz)
    PROVE  /\ ret = w + Chain!Lead(w) + 20
           /\ Paged(f, F, kheap_alloc_a(h, sz), lv2, sz, w, ret)
<1>1. PICK L, Y : F = FreeOf(L) /\ Fresh(f, F, Y) /\ Shape(h, f, L, Y) /\ LiveIs(h, f, L, lv)
  BY DEF Rep
<1>2. Chained(f) /\ FreeOf(L) \subseteq DOMAIN f
  BY <1>1, ShapeIs
<1>3. sz \in Nat /\ sz % 4 = 0 /\ sz \in Sizes \cup PageSizes
  BY RequestIs
<1>4. /\ w \in FreeOf(L) /\ w + f[w] + 20 = End
      /\ Chain!Lead(w) >= 0 /\ Chain!Lead(w) + sz + 40 <= f[w]
  BY <1>1 DEF Roomy
<1>5. w \in Nat /\ w % 4 = 0 /\ f[w] \in Nat
  BY <1>2, <1>4, ChainedIs
<1>6. PICK lead \in Nat : lead = Chain!Lead(w) /\ lead % 4 = 0 /\ Lead(w) = lead
  BY <1>4, <1>5, LeadIs
<1>7. lead + sz + 40 <= f[w] /\ Y \subseteq {w}
  BY <1>1, <1>4, <1>6, FreshFree
<1>8. PICK r : r = w + lead + 20
  OBVIOUS
<1>9. PICK g : g = kheap_alloc_a(h, sz)
  OBVIOUS
<1>10. PICK f2 : f2 = Chain!Cut(Chain!Cut(f, w, lead), r, sz)
  OBVIOUS
<1>11. /\ PageBlock(h) = r
       /\ \E M : /\ Grant(h, f, L, g, f2, M, w, End, r, sz)
                 /\ FreeOf(M) = FreeOf(L) \cup {r + sz + 20}
  BY <1>1, <1>3, <1>4, <1>6, <1>7, <1>8, <1>9, <1>10, PageShape
<1>12. PICK M : /\ Grant(h, f, L, g, f2, M, w, End, r, sz)
                /\ FreeOf(M) = FreeOf(L) \cup {r + sz + 20}
  BY <1>11
<1>13. lv2 = Handed(lv, r + 8, sz) /\ End \in Nat
  BY <1>11, Bounds
<1>14. Rep(g, f2, FreeOf(M), lv2)
  BY <1>1, <1>3, <1>5, <1>12, <1>13, GrantRep
<1> QED
  BY <1>1, <1>6, <1>8, <1>9, <1>10, <1>11, <1>12, <1>14 DEF Paged

\* What callers store leaves the chain and the bins alone.
LEMMA UseRep ==
    ASSUME NEW h, NEW f, NEW F, NEW lv, Rep(h, f, F, lv), NEW a \in DOMAIN lv,
           NEW lv2, lv2 = [lv EXCEPT ![a].data = Pattern]
    PROVE  Rep(Store(h, UsedWords(a, lv[a].sz), Pattern), f, F, lv2)
<1>1. PICK L, Y : F = FreeOf(L) /\ Fresh(f, F, Y) /\ Shape(h, f, L, Y) /\ LiveIs(h, f, L, lv)
  BY DEF Rep
<1>2. /\ IsHeap(h) /\ Chained(f) /\ Apart(DOMAIN f)
      /\ Linked(h, DOMAIN f, L) /\ Sorted(f, L)
      /\ FreeOf(L) \subseteq DOMAIN f
      /\ \A z \in DOMAIN f : f[z] \in Nat /\ size(h, z) = f[z]
      /\ \A z \in DOMAIN f : Intact(h, f, z)
  BY <1>1, ShapeIs DEF Shape
<1>3. /\ DOMAIN lv = {x + 8 : x \in DOMAIN f \ FreeOf(L)}
      /\ \A x \in DOMAIN f \ FreeOf(L) : Payload(h, x, f[x], lv[x + 8])
  BY <1>1 DEF LiveIs
<1>4. PICK b \in DOMAIN f \ FreeOf(L) : a = b + 8
  BY <1>3
<1>5. Y = {}
  BY <1>1, <1>4, FreshUsed
<1>6. PICK r : r = lv[a]
  OBVIOUS
<1>7. /\ r \in [sz : Sizes \cup PageSizes, data : {0, Pattern}] /\ r.sz <= f[b]
      /\ \A x \in Nat : b + 8 <= x /\ x < b + 16 + r.sz =>
            Load(h, x) = IF r.data = Pattern /\ x \in UsedWords(b + 8, r.sz) THEN Pattern ELSE 0
  BY <1>3, <1>4, <1>6 DEF Payload
<1>8. PICK sz \in Nat : sz = r.sz /\ sz % 4 = 0 /\ sz <= f[b]
  BY <1>7, RequestIs
<1>9. PICK n \in Nat : n = f[b] /\ sz <= n
  BY <1>2, <1>4, <1>8
<1>10. b \in Nat /\ b % 4 = 0 /\ Start <= b /\ b + n + 20 <= End /\ Word(b)
  BY <1>2, <1>4, <1>9, ChainedIs, HeaderWords
<1>11. PICK A : A = {b + 8, b + 12, b + 12 + sz}
  OBVIOUS
<1>12. A = UsedWords(b + 8, sz)
  <2>1. b + 8 + 4 = b + 12 /\ b + 8 + 4 + sz = b + 12 + sz
    BY <1>10
  <2> QED
    BY <1>11, <2>1 DEF UsedWords
<1>13. \A x \in A : Word(x) /\ x \in Nat /\ b + 8 <= x /\ x < b + 16 + n /\ x < b + 16 + sz
  <2>1. Word(b + 8) /\ Word(b + 12)
    BY <1>2, <1>4, HeaderWords
  <2>2. (b + 12 + sz) % 4 = 0
    <3>1. b + 12 \in Int /\ (b + 12) % 4 = 0
      BY <1>10, <2>1 DEF Word
    <3> QED
      BY <1>8, <3>1, WordSums
  <2>3. Start <= b + 12 + sz /\ b + 12 + sz <= End /\ Start \in Nat /\ End \in Nat
    BY <1>9, <1>10, Bounds
  <2>4. Word(b + 12 + sz)
    BY <1>10, <2>2, <2>3 DEF Word
  <2> QED
    BY <1>9, <1>10, <1>11, <2>1, <2>4
<1>14. PICK g : g = Store(h, A, 7)
  OBVIOUS
<1>15. /\ IsHeap(g) /\ g.bins = h.bins
       /\ \A x : Load(g, x) = IF x \in A THEN 7 ELSE Load(h, x)
  <2>1. 7 \in 0 .. AddrSpace - 1
    BY Bounds
  <2>2. \A x \in A : Word(x)
    BY <1>13
  <2>3. IsHeap(h)
    BY <1>2
  <2> QED
    BY <1>14, <2>1, <2>2, <2>3, StoreLoad
<1>16. PICK hi \in Nat : hi = b + n + 20
  BY <1>10
<1>17. Frame(h, g, b, hi, FreeOf(L))
  <2>1. \A x \in Nat : x < b \/ hi <= x => x \notin A
    BY <1>10, <1>13, <1>16
  <2> QED
    BY <1>15, <2>1 DEF Frame
<1>18. ASSUME NEW z \in DOMAIN f, z # b
       PROVE  z \in Nat /\ f[z] \in Nat /\ (z + f[z] + 20 <= b \/ hi <= z)
  BY <1>2, <1>4, <1>9, <1>16, <1>18, ChainedIs, BlocksApart
<1>19. Linked(g, DOMAIN f, L)
  <2>1. ASSUME NEW z \in FreeOf(L) PROVE next(g, z) = next(h, z) /\ prev(g, z) = prev(h, z)
    <3>1. z \in DOMAIN f /\ z # b
      BY <1>2, <1>4
    <3>2. z \in Nat /\ f[z] \in Nat /\ (z + f[z] + 20 <= b \/ hi <= z)
      BY <1>18, <3>1
    <3>3. z + 8 \notin A /\ z + 12 \notin A
      BY <1>10, <1>13, <1>16, <3>2
    <3> QED
      BY <1>15, <3>3 DEF next, prev
  <2> QED
    BY <1>2, <1>15, <2>1, LinkedKept
<1>20. Intact(g, f, b) /\ FlagIs(g, L, b)
  <2>1. b \notin A /\ b + 4 \notin A /\ b + 16 + n \notin A
    BY <1>9, <1>10, <1>13
  <2>2. Intact(h, f, b) /\ FlagIs(h, L, b)
    BY <1>1, <1>4, <1>5 DEF Shape
  <2> QED
    BY <1>9, <1>15, <2>1, <2>2 DEF Intact, FlagIs, size, hole
<1>21. Shape(g, f, L, {})
  <2>1. ASSUME NEW z \in DOMAIN f
        PROVE  \/ Same(f, L, Y, f, L, b, hi, z)
               \/ Intact(g, f, z) /\ (z \in {} \/ FlagIs(g, L, z))
    <3>1. CASE z = b
      BY <1>20, <3>1
    <3>2. CASE z # b
      BY <1>5, <1>18, <3>2 DEF Same
    <3> QED
      BY <3>1, <3>2
  <2>2. hi <= End
    BY <1>10, <1>16
  <2> QED
    BY <1>1, <1>2, <1>10, <1>17, <1>19, <2>1, <2>2, ShapeFrom
<1>22. lv2[a] = [r EXCEPT !.data = Pattern] /\ DOMAIN lv2 = DOMAIN lv
  BY <1>6
<1>23. Payload(g, b, f[b], lv2[b + 8])
  <2>1. PICK r2 : r2 = [r EXCEPT !.data = Pattern]
    OBVIOUS
  <2>2. /\ r2 \in [sz : Sizes \cup PageSizes, data : {0, Pattern}]
        /\ r2.sz = sz /\ r2.data = Pattern
    BY <1>7, <1>8, <2>1
  <2>3. ASSUME NEW x \in Nat, b + 8 <= x, x < b + 16 + sz
        PROVE  Load(g, x) = IF x \in UsedWords(b + 8, sz) THEN 7 ELSE 0
    <3>1. CASE x \in A
      BY <1>12, <1>15, <3>1
    <3>2. CASE x \notin A
      BY <1>7, <1>8, <1>12, <1>15, <2>3, <3>2
    <3> QED
      BY <3>1, <3>2
  <2>4. Payload(g, b, f[b], r2)
    BY <1>8, <2>2, <2>3 DEF Payload, Pattern
  <2> QED
    BY <1>4, <1>22, <2>1, <2>4
<1>24. LiveIs(g, f, L, lv2)
  <2>1. DOMAIN lv2 = {x + 8 : x \in DOMAIN f \ FreeOf(L)}
    BY <1>3, <1>22
  <2>2. ASSUME NEW x \in DOMAIN f \ FreeOf(L)
        PROVE  \/ /\ x \in DOMAIN f \ FreeOf(L) /\ f[x] = f[x]
                  /\ x + f[x] + 20 <= b \/ hi <= x
                  /\ lv2[x + 8] = lv[x + 8]
               \/ Payload(g, x, f[x], lv2[x + 8])
    <3>1. CASE x = b
      BY <1>23, <3>1
    <3>2. CASE x # b
      <4>1. x \in Nat /\ (x + f[x] + 20 <= b \/ hi <= x)
        BY <1>18, <3>2
      <4>2. x + 8 # a /\ x + 8 \in DOMAIN lv
        BY <1>3, <1>4, <1>10, <3>2, <4>1
      <4> QED
        BY <4>1, <4>2
    <3> QED
      BY <3>1, <3>2
  <2>3. Chained(f) /\ FreeOf(L) \subseteq DOMAIN f /\ LiveIs(h, f, L, lv) /\ b \in Nat
    BY <1>1, <1>2, <1>10
  <2> QED
    BY ONLY <1>17, <2>1, <2>2, <2>3, hi \in Nat, LiveFrom
<1>25. Rep(g, f, FreeOf(L), lv2)
  BY <1>21, <1>24, RepFrom
<1> QED
  BY <1>1, <1>4, <1>6, <1>8, <1>12, <1>14, <1>25 DEF Pattern

-----------------------------------------------------------------------------
(* kheap_free, in three stages.                                            *)

\* Block b is being freed: it is now part of block c, whose flag is not
\* settled, and everything that callers own is still in its place.
Loose(h, f, L, g, f2, M, b, c) ==
    /\ Shape(g, f2, M, {c}) /\ c \in DOMAIN f2 \ FreeOf(M)
    /\ Frame(h, g, c, c + f2[c] + 20, FreeOf(L)) /\ FreeOf(M) \subseteq FreeOf(L)
    /\ DOMAIN f2 \ FreeOf(M) = ((DOMAIN f \ FreeOf(L)) \ {b}) \cup {c}
    /\ c \notin (DOMAIN f \ FreeOf(L)) \ {b}
    /\ \A x \in (DOMAIN f \ FreeOf(L)) \ {b} : f2[x] = f[x]

\* It took in block r as well, which was in a bin of L2.
LooseBy(h, f, L, g, f2, L2, b, c, r) ==
    \E M : Loose(h, f, L, g, f2, M, b, c) /\ FreeOf(M) = FreeOf(L2) \ {r}

\* The block that kheap_free is called with is in use.
LEMMA LooseStart ==
    ASSUME NEW h, NEW f, NEW L, Shape(h, f, L, {}), NEW b \in DOMAIN f \ FreeOf(L)
    PROVE  Loose(h, f, L, h, f, L, b, b)
<1>1. Shape(h, f, L, {b})
  BY DEF Shape
<1>2. Frame(h, h, b, b + f[b] + 20, FreeOf(L))
  BY DEF Frame
<1> QED
  BY <1>1, <1>2 DEF Loose

\* First stage: the block is joined to the hole in front of it.
LEMMA LoosePrev ==
    ASSUME NEW h, NEW f, NEW L, Shape(h, f, L, {}),
           NEW p \in DOMAIN f, NEW b \in DOMAIN f, b = p + f[p] + 20,
           p \in FreeOf(L), b \notin FreeOf(L)
    PROVE  LooseBy(h, f, L, JoinPrev(h, b, p), Chain!Join(f, p), L, b, p, p)
<1>1. Chained(f) /\ FreeOf(L) \subseteq DOMAIN f
  BY ShapeIs
<1>2. PICK f2 : f2 = Chain!Join(f, p)
  OBVIOUS
<1>3. Joins(f, p, b, f2)
  BY <1>1, <1>2, JoinEffect
<1>4. PICK g : g = JoinPrev(h, b, p)
  OBVIOUS
<1>5. JoinedShape(h, f, L, g, f2, p, b, p)
  <2>1. {} \subseteq {p}
    OBVIOUS
  <2> QED
    BY <1>2, <1>4, <2>1, JoinPrevShape
<1>6. PICK M : /\ Shape(g, f2, M, {p}) /\ FreeOf(M) = FreeOf(L) \ {p}
               /\ Frame(h, g, p, b + f[b] + 20, FreeOf(L))
  BY <1>5 DEF JoinedShape
<1>7. p \in Nat /\ b \in Nat /\ f[p] \in Nat /\ f[b] \in Nat /\ p # b
  <2>1. p \in Nat /\ f[p] \in Nat
    BY <1>1, ChainedIs
  <2>2. b \in Nat /\ f[b] \in Nat
    BY <1>1, ChainedIs
  <2> QED
    BY <2>1, <2>2
<1>8. /\ DOMAIN f2 = DOMAIN f \ {b}
      /\ f2[p] = f[p] + 20 + f[b]
      /\ \A x \in DOMAIN f : x # p /\ x # b => f2[x] = f[x]
  BY <1>3 DEF Joins, IsJoin
<1>9. p + f2[p] + 20 = b + f[b] + 20
  BY <1>7, <1>8
<1>10. /\ p \in DOMAIN f2 \ FreeOf(M) /\ FreeOf(M) \subseteq FreeOf(L)
       /\ DOMAIN f2 \ FreeOf(M) = ((DOMAIN f \ FreeOf(L)) \ {b}) \cup {p}
       /\ p \notin (DOMAIN f \ FreeOf(L)) \ {b}
  BY <1>6, <1>7, <1>8
<1>11. \A x \in (DOMAIN f \ FreeOf(L)) \ {b} : f2[x] = f[x]
  BY <1>8
<1>12. Loose(h, f, L, g, f2, M, b, p)
  BY <1>6, <1>9, <1>10, <1>11 DEF Loose
<1> QED
  BY <1>2, <1>4, <1>6, <1>12 DEF LooseBy

\* Second stage: the hole behind it is joined to the block.
LEMMA LooseNext ==
    ASSUME NEW h, NEW f, NEW L, Chained(f), FreeOf(L) \subseteq DOMAIN f,
           NEW g, NEW f1, NEW L1, NEW b, NEW c, Loose(h, f, L, g, f1, L1, b, c),
           NEW n \in DOMAIN f1, n = c + f1[c] + 20, n \in FreeOf(L1)
    PROVE  LooseBy(h, f, L, JoinNext(g, c, n), Chain!Join(f1, c), L1, b, c, n)
<1> DEFINE U == (DOMAIN f \ FreeOf(L)) \ {b}
<1>1. /\ Shape(g, f1, L1, {c}) /\ c \in DOMAIN f1 /\ c \notin FreeOf(L1)
      /\ Frame(h, g, c, c + f1[c] + 20, FreeOf(L)) /\ FreeOf(L1) \subseteq FreeOf(L)
      /\ DOMAIN f1 \ FreeOf(L1) = U \cup {c} /\ c \notin U
      /\ \A x \in U : f1[x] = f[x]
  BY DEF Loose
<1>2. Chained(f1) /\ FreeOf(L1) \subseteq DOMAIN f1
  BY <1>1, ShapeIs
<1>3. PICK f2 : f2 = Chain!Join(f1, c)
  OBVIOUS
<1>4. Joins(f1, c, n, f2)
  BY <1>1, <1>2, <1>3, JoinEffect
<1>5. PICK k : k = JoinNext(g, c, n)
  OBVIOUS
<1>6. JoinedShape(g, f1, L1, k, f2, c, n, n)
  <2>1. {c} \subseteq {c}
    OBVIOUS
  <2> QED
    BY <1>1, <1>3, <1>5, <2>1, JoinNextShape
<1>7. PICK M : /\ Shape(k, f2, M, {c}) /\ FreeOf(M) = FreeOf(L1) \ {n}
               /\ Frame(g, k, c, n + f1[n] + 20, FreeOf(L1))
  BY <1>6 DEF JoinedShape
<1>8. c \in Nat /\ n \in Nat /\ f1[c] \in Nat /\ f1[n] \in Nat /\ c # n
  <2>1. c \in Nat /\ f1[c] \in Nat
    BY <1>1, <1>2, ChainedIs
  <2>2. n \in Nat /\ f1[n] \in Nat
    BY <1>2, ChainedIs
  <2> QED
    BY <2>1, <2>2
<1>9. /\ DOMAIN f2 = DOMAIN f1 \ {n}
      /\ f2[c] = f1[c] + 20 + f1[n]
      /\ \A x \in DOMAIN f1 : x # c /\ x # n => f2[x] = f1[x]
  BY <1>4, <1>8 DEF Joins, IsJoin
<1>10. PICK mid \in Nat, hi \in Nat : /\ mid = c + f1[c] + 20 /\ hi = n + f1[n] + 20
                                      /\ hi = c + f2[c] + 20 /\ mid <= hi
  BY <1>8, <1>9
<1>11. Frame(h, k, c, hi, FreeOf(L))
  <2>1. Frame(h, g, c, hi, FreeOf(L))
    <3>1. \A x \in FreeOf(L) : x \in FreeOf(L) \/ (x \in Nat /\ c <= x /\ x + 20 <= hi)
      OBVIOUS
    <3>2. Frame(h, g, c, mid, FreeOf(L)) /\ c <= c
      BY <1>1, <1>8, <1>10
    <3> QED
      BY <1>8, <1>10, <3>1, <3>2, FrameMore
  <2>2. Frame(g, k, c, hi, FreeOf(L))
    <3>1. \A x \in FreeOf(L1) : x \in FreeOf(L) \/ (x \in Nat /\ c <= x /\ x + 20 <= hi)
      BY <1>1
    <3>2. Frame(g, k, c, hi, FreeOf(L1)) /\ c <= c /\ hi <= hi
      BY <1>7, <1>8, <1>10
    <3> QED
      BY <1>8, <1>10, <3>1, <3>2, FrameMore
  <2> QED
    BY <2>1, <2>2, FrameTrans
<1>12. /\ c \in DOMAIN f2 \ FreeOf(M) /\ FreeOf(M) \subseteq FreeOf(L)
       /\ DOMAIN f2 \ FreeOf(M) = U \cup {c}
  <2> HIDE DEF U
  <2> QED
    BY <1>1, <1>7, <1>8, <1>9
<1>13. \A x \in U : f2[x] = f[x]
  <2>1. ASSUME NEW x \in U PROVE x \in DOMAIN f1 /\ x # c /\ x # n
    <3> HIDE DEF U
    <3> QED
      BY <1>1
  <2> HIDE DEF U
  <2> QED
    BY <1>1, <1>9, <2>1
<1>14. Loose(h, f, L, k, f2, M, b, c)
  BY <1>1, <1>7, <1>10, <1>11, <1>12, <1>13 DEF Loose
<1> QED
  BY <1>3, <1>5, <1>7, <1>14 DEF LooseBy

\* What callers own once they gave back the memory at a.
Dropped(lv, a) == [x \in DOMAIN lv \ {a} |-> lv[x]]

\* Third stage: the block goes into its bin.
LEMMA LooseBin ==
    ASSUME NEW h, NEW f, NEW L, Shape(h, f, L, {}), NEW lv, LiveIs(h, f, L, lv),
           NEW b \in DOMAIN f \ FreeOf(L),
           NEW g, NEW f2, NEW L2, NEW c, Loose(h, f, L, g, f2, L2, b, c),
           NEW lv2, lv2 = Dropped(lv, b + 8)
    PROVE  Rep(Binned(g, c), f2, FreeOf(L2) \cup {c}, lv2)
<1> DEFINE U == (DOMAIN f \ FreeOf(L)) \ {b}
<1>1. /\ Shape(g, f2, L2, {c}) /\ c \in DOMAIN f2 /\ c \notin FreeOf(L2)
      /\ Frame(h, g, c, c + f2[c] + 20, FreeOf(L)) /\ FreeOf(L2) \subseteq FreeOf(L)
      /\ DOMAIN f2 \ FreeOf(L2) = U \cup {c} /\ c \notin U
      /\ \A x \in U : f2[x] = f[x]
  BY DEF Loose
<1>2. Chained(f) /\ FreeOf(L) \subseteq DOMAIN f /\ Chained(f2)
  BY <1>1, ShapeIs
<1>3. PICK k : k = Binned(g, c)
  OBVIOUS
<1>4. BinnedShape(g, f2, L2, k, c)
  <2>1. {c} \subseteq {c}
    OBVIOUS
  <2> QED
    BY <1>1, <1>3, <2>1, BinShape
<1>5. PICK M : /\ Shape(k, f2, M, {}) /\ FreeOf(M) = FreeOf(L2) \cup {c}
               /\ Frame(g, k, c, c + f2[c] + 20, FreeOf(L2))
  BY <1>4 DEF BinnedShape
<1>6. c \in Nat /\ f2[c] \in Nat
  BY <1>1, <1>2, ChainedIs
<1>7. PICK hi \in Nat : hi = c + f2[c] + 20
  BY <1>6
<1>8. Frame(h, k, c, hi, FreeOf(L))
  <2>1. Frame(g, k, c, hi, FreeOf(L))
    <3>1. \A x \in FreeOf(L2) : x \in FreeOf(L) \/ (x \in Nat /\ c <= x /\ x + 20 <= hi)
      BY <1>1
    <3>2. Frame(g, k, c, hi, FreeOf(L2)) /\ c <= c /\ hi <= hi
      BY <1>5, <1>6, <1>7
    <3> QED
      BY <1>6, <1>7, <3>1, <3>2, FrameMore
  <2>2. Frame(h, g, c, hi, FreeOf(L))
    BY <1>1, <1>7
  <2> QED
    BY <2>1, <2>2, FrameTrans
<1>9. DOMAIN f2 \ FreeOf(M) = U
  <2> HIDE DEF U
  <2> QED
    BY <1>1, <1>5
<1>10. DOMAIN lv = {x + 8 : x \in DOMAIN f \ FreeOf(L)} /\ \A x \in DOMAIN f : x \in Nat
  BY <1>2, ChainedIs DEF LiveIs
<1>11. DOMAIN lv2 = {x + 8 : x \in DOMAIN f2 \ FreeOf(M)}
  <2>1. DOMAIN lv2 = DOMAIN lv \ {b + 8}
    BY DEF Dropped
  <2>2. ASSUME NEW y PROVE y \in DOMAIN lv2 <=> \E x \in U : y = x + 8
    <3>1. ASSUME y \in DOMAIN lv2 PROVE \E x \in U : y = x + 8
      <4>1. PICK x \in DOMAIN f \ FreeOf(L) : y = x + 8
        BY <1>10, <2>1, <3>1
      <4> QED
        BY <2>1, <3>1, <4>1
    <3>2. ASSUME NEW x \in U, y = x + 8 PROVE y \in DOMAIN lv2
      <4>1. x \in DOMAIN f \ FreeOf(L) /\ x # b /\ x \in Nat /\ b \in Nat
        BY <1>10
      <4>2. y \in DOMAIN lv /\ y # b + 8
        BY <1>10, <3>2, <4>1
      <4> QED
        BY <2>1, <4>2
    <3> QED
      BY <3>1, <3>2
  <2> HIDE DEF U
  <2> QED
    BY <1>9, <2>2
<1>12. ASSUME NEW x \in DOMAIN f2 \ FreeOf(M)
       PROVE  /\ x \in DOMAIN f \ FreeOf(L) /\ f2[x] = f[x]
              /\ x + f[x] + 20 <= c \/ hi <= x
              /\ lv2[x + 8] = lv[x + 8]
  <2>1. x \in U /\ f2[x] = f[x] /\ x # c /\ x \in DOMAIN f2
    <3> HIDE DEF U
    <3> QED
      BY <1>1, <1>9
  <2>2. x + f2[x] + 20 <= c \/ c + f2[c] + 20 <= x
    BY <1>1, <1>2, <2>1, BlocksApart
  <2>3. x + 8 \in DOMAIN lv2
    <3> HIDE DEF U
    <3> QED
      BY <1>11
  <2>4. lv2[x + 8] = lv[x + 8]
    BY <2>3 DEF Dropped
  <2> QED
    BY <1>7, <2>1, <2>2, <2>4
<1>13. LiveIs(k, f2, M, lv2)
  <2> HIDE DEF U
  <2> QED
    BY <1>2, <1>6, <1>8, <1>11, <1>12, LiveFrom
<1>14. Rep(k, f2, FreeOf(M), lv2)
  BY <1>5, <1>13, RepFrom
<1> QED
  BY <1>3, <1>5, <1>14

\* What kheap_free makes of the heap when it is given block b with p in front
\* of it: b is joined to its neighbours that are in bins.
Coalesced(f, F, b, p, g, lv2) ==
    LET n  == b + f[b] + 20
        c  == IF p \in F THEN p ELSE b
        f1 == IF p \in F THEN Chain!Join(f, p) ELSE f
    IN  Rep(g, IF n \in F THEN Chain!Join(f1, c) ELSE f1, (F \ {n}) \cup {c}, lv2)

Freed(f, F, b, g, lv2) ==
    \/ b = Start /\ Rep(g, f, F \cup {Start}, lv2)
    \/ b # Start /\ \E p \in DOMAIN f : p + f[p] + 20 = b /\ Coalesced(f, F, b, p, g, lv2)

\* The part of kheap_free behind the joining with the block in front: c is the
\* block that b is now part of, n the block behind it.
LEMMA FreeNext ==
    ASSUME NEW h, NEW f, NEW F, NEW L, Shape(h, f, L, {}), F = FreeOf(L),
           NEW lv, LiveIs(h, f, L, lv),
           NEW b \in DOMAIN f \ F,
           NEW g, NEW f1, NEW L1, NEW c, Loose(h, f, L, g, f1, L1, b, c),
           NEW n, n = c + f1[c] + 20, FreeOf(L1) = F \ {c}, n \notin DOMAIN f \ DOMAIN f1,
           NEW k, k = (IF hole(g, n) # 0 THEN JoinNext(g, c, n) ELSE g),
           NEW lv2, lv2 = Dropped(lv, b + 8)
    PROVE  Rep(Binned(k, c), IF n \in F THEN Chain!Join(f1, c) ELSE f1, (F \ {n}) \cup {c}, lv2)
<1>1. /\ Shape(g, f1, L1, {c}) /\ c \in DOMAIN f1 /\ c \notin FreeOf(L1)
  BY DEF Loose
<1>2. /\ Chained(f1) /\ FreeOf(L1) \subseteq DOMAIN f1 /\ Load(g, End) = 0
      /\ \A x \in DOMAIN f1 \ {c} : FlagIs(g, L1, x)
  BY <1>1, ShapeIs DEF Shape
<1>3. Chained(f) /\ F \subseteq DOMAIN f
  BY ShapeIs
<1>4. PICK m \in Nat : m = f1[c]
  BY <1>1, <1>2, ChainedIs
<1>5. c \in Nat /\ n \in Nat /\ n # c /\ (n = End \/ n \in DOMAIN f1)
  <2>1. c \in Nat
    BY <1>1, <1>2, ChainedIs
  <2>2. n = End \/ n \in DOMAIN f1
    BY <1>1, <1>2, Follower
  <2> QED
    BY <1>4, <2>1, <2>2
<1>6. End \notin DOMAIN f1 /\ End \notin DOMAIN f
  <2>1. ASSUME NEW w, Chained(w), End \in DOMAIN w PROVE FALSE
    <3>1. End \in Nat /\ w[End] \in Nat /\ End + w[End] + 20 <= End
      BY <2>1, ChainedIs
    <3> QED
      BY <3>1
  <2> QED
    BY <1>2, <1>3, <2>1
<1>7. hole(g, n) # 0 <=> n \in F
  <2>1. CASE n = End
    BY <1>2, <1>3, <1>6, <2>1 DEF hole
  <2>2. CASE n \in DOMAIN f1
    <3>1. FlagIs(g, L1, n)
      BY <1>2, <1>5, <2>2
    <3>2. n \in FreeOf(L1) <=> n \in F
      BY <1>5
    <3> QED
      BY <3>1, <3>2 DEF FlagIs
  <2> QED
    BY <1>5, <2>1, <2>2
<1>8. CASE n \in F
  <2>1. n \in DOMAIN f1 /\ n \in FreeOf(L1)
    BY <1>3, <1>5, <1>6, <1>8
  <2>2. k = JoinNext(g, c, n)
    BY <1>7, <1>8
  <2>3. PICK f2 : f2 = Chain!Join(f1, c)
    OBVIOUS
  <2>4. LooseBy(h, f, L, k, f2, L1, b, c, n)
    BY <1>3, <2>1, <2>2, <2>3, LooseNext
  <2>5. PICK M : Loose(h, f, L, k, f2, M, b, c) /\ FreeOf(M) = FreeOf(L1) \ {n}
    BY <2>4 DEF LooseBy
  <2>6. Rep(Binned(k, c), f2, FreeOf(M) \cup {c}, lv2)
    BY <2>5, LooseBin
  <2>7. FreeOf(M) \cup {c} = (F \ {n}) \cup {c}
    BY <1>5, <2>5
  <2> QED
    BY <1>8, <2>3, <2>6, <2>7
<1>9. CASE n \notin F
  <2>1. k = g
    BY <1>7, <1>9
  <2>2. Rep(Binned(g, c), f1, FreeOf(L1) \cup {c}, lv2)
    BY LooseBin
  <2>3. FreeOf(L1) \cup {c} = (F \ {n}) \cup {c}
    BY <1>9
  <2> QED
    BY <1>9, <2>1, <2>2, <2>3
<1> QED
  BY <1>8, <1>9

\* kheap_free gives a block back as the chain does.
LEMMA FreeRep ==
    ASSUME NEW h, NEW f, NEW F, NEW lv, Rep(h, f, F, lv), NEW a \in DOMAIN lv,
           NEW b, b = a - 8, NEW lv2, lv2 = Dropped(lv, a)
    PROVE  b \in DOMAIN f \ F /\ Freed(f, F, b, kheap_free(h, a), lv2)
<1>1. PICK L, Y : F = FreeOf(L) /\ Fresh(f, F, Y) /\ Shape(h, f, L, Y) /\ LiveIs(h, f, L, lv)
  BY DEF Rep
<1>2. /\ Chained(f) /\ FreeOf(L) \subseteq DOMAIN f
      /\ \A z \in DOMAIN f : z \in Nat /\ f[z] \in Nat /\ size(h, z) = f[z]
  BY <1>1, ShapeIs, ChainedIs
<1>3. b \in DOMAIN f \ F /\ a = b + 8
  <2>1. PICK x \in DOMAIN f \ FreeOf(L) : a = x + 8
    BY <1>1 DEF LiveIs
  <2>2. x \in Nat /\ x = b
    BY <1>2, <2>1
  <2> QED
    BY <1>1, <2>1, <2>2
<1>4. Shape(h, f, L, {})
  <2>1. Y = {}
    BY <1>1, <1>3, FreshUsed
  <2> QED
    BY <1>1, <2>1
<1>5. Loose(h, f, L, h, f, L, b, b)
  BY <1>1, <1>3, <1>4, LooseStart
<1>6. lv2 = Dropped(lv, b + 8)
  BY <1>3
<1>7. PICK m \in Nat : m = f[b] /\ size(h, b) = m
  BY <1>2, <1>3
<1>8. b \in Nat /\ Fitted(b, m)
  <2>1. b \in Nat /\ b % 4 = 0 /\ m % 4 = 0 /\ Start <= b /\ b + m + 20 <= End
    BY <1>2, <1>3, <1>7, ChainedIs
  <2> QED
    BY <2>1 DEF Fitted
<1>9. PICK n \in Nat : n = b + m + 20 /\ n = get_foot(h, b) + 4
  <2>1. get_foot(h, b) = b + 16 + m
    BY <1>7, <1>8, FittedWords DEF get_foot
  <2> QED
    BY <1>8, <2>1
<1>10. PICK g : g = kheap_free(h, a)
  OBVIOUS
<1>11. CASE b = Start
  <2>1. g = Binned(h, b)
    BY <1>10, <1>11 DEF kheap_free, Binned, OFFSET
  <2>2. Rep(Binned(h, b), f, FreeOf(L) \cup {b}, lv2)
    BY <1>1, <1>3, <1>4, <1>5, <1>6, LooseBin
  <2> QED
    BY <1>1, <1>3, <1>10, <1>11, <2>1, <2>2 DEF Freed
<1>12. CASE b # Start
  <2>1. PICK p \in DOMAIN f : p + f[p] + 20 = b
    BY <1>2, <1>3, <1>12, Neighbour
  <2>2. Load(h, b - 4) = p /\ p # b /\ p \in Nat
    <3>1. Load(h, p + 16 + f[p]) = p
      BY <1>4, <2>1 DEF Shape, Intact
    <3>2. PICK q \in Nat : q = f[p]
      BY <1>2, <2>1
    <3>3. p \in Nat /\ p + 16 + q = b - 4 /\ p # b
      BY <1>2, <2>1, <3>2
    <3> QED
      BY <3>1, <3>2, <3>3
  <2>3. hole(h, p) # 0 <=> p \in F
    BY <1>1, <1>4, <2>1 DEF Shape, FlagIs
  <2>4. PICK h1 : h1 = IF p \in F THEN JoinPrev(h, b, p) ELSE h
    OBVIOUS
  <2>5. PICK c : c = IF p \in F THEN p ELSE b
    OBVIOUS
  <2>6. PICK k : k = IF hole(h1, n) # 0 THEN JoinNext(h1, c, n) ELSE h1
    OBVIOUS
  <2>7. g = Binned(k, c)
    BY <1>9, <1>10, <1>12, <2>2, <2>3, <2>4, <2>5, <2>6 DEF kheap_free, Binned, OFFSET
  <2>8. PICK f1 : f1 = IF p \in F THEN Chain!Join(f, p) ELSE f
    OBVIOUS
  <2>9. PICK L1 : /\ Loose(h, f, L, h1, f1, L1, b, c) /\ FreeOf(L1) = F \ {c}
                  /\ n = c + f1[c] + 20 /\ DOMAIN f \ DOMAIN f1 \subseteq {b}
    <3>1. CASE p \in F
      <4>1. LooseBy(h, f, L, h1, f1, L, b, p, p)
        BY <1>1, <1>3, <1>4, <2>1, <2>4, <2>8, <3>1, LoosePrev
      <4>2. PICK M : Loose(h, f, L, h1, f1, M, b, p) /\ FreeOf(M) = FreeOf(L) \ {p}
        BY <4>1 DEF LooseBy
      <4>3. Joins(f, p, b, f1)
        BY <1>2, <1>3, <2>1, <2>8, <3>1, JoinEffect
      <4>4. f1[p] = f[p] + 20 + f[b] /\ DOMAIN f1 = DOMAIN f \ {b}
        BY <2>1, <2>2, <4>3 DEF Joins, IsJoin
      <4>5. n = p + f1[p] + 20
        <5>1. PICK q \in Nat : q = f[p] /\ p \in Nat
          BY <1>2, <2>1
        <5>2. p + q + 20 = b /\ f1[p] = q + 20 + m
          BY <1>7, <2>1, <4>4, <5>1
        <5> QED
          BY <1>8, <1>9, <5>1, <5>2
      <4> QED
        BY <1>1, <2>5, <3>1, <4>2, <4>4, <4>5
    <3>2. CASE p \notin F
      <4>1. h1 = h /\ f1 = f /\ c = b /\ FreeOf(L) = F \ {c}
        BY <1>1, <1>3, <2>4, <2>5, <2>8, <3>2
      <4> QED
        BY <1>5, <1>7, <1>9, <4>1
    <3> QED
      BY <3>1, <3>2
  <2>10. Rep(g, IF n \in F THEN Chain!Join(f1, c) ELSE f1, (F \ {n}) \cup {c}, lv2)
    <3>1. n \notin DOMAIN f \ DOMAIN f1
      <4>1. n # b
        BY <1>8, <1>9
      <4> QED
        BY <2>9, <4>1
    <3> QED
      BY <1>1, <1>3, <1>4, <1>6, <2>6, <2>7, <2>9, <3>1, FreeNext
  <2>11. Coalesced(f, F, b, p, g, lv2)
    BY <1>7, <1>9, <2>5, <2>8, <2>10 DEF Coalesced
  <2> QED
    BY <1>3, <1>10, <1>12, <2>1, <2>11 DEF Freed
<1> QED
  BY <1>11, <1>12

-----------------------------------------------------------------------------
(* What the representation says.                                           *)

\* The chain of blocks, and the blocks in bins, as the walk over the heap and
\* the lists show them.
LEMMA RepView ==
    ASSUME NEW h, NEW f, NEW F, NEW lv, Rep(h, f, F, lv)
    PROVE  /\ BlocksOf(h) = DOMAIN f /\ InBins(h) = F
           /\ [b \in BlocksOf(h) |-> size(h, b)] = f
<1>1. PICK L, Y : F = FreeOf(L) /\ Shape(h, f, L, Y)
  BY DEF Rep
<1>2. /\ Layout(h, f) /\ IsHeap(h) /\ Chained(f) /\ Apart(DOMAIN f)
      /\ Linked(h, DOMAIN f, L) /\ L \in [0 .. 8 -> Seq(DOMAIN f)]
      /\ \A z \in DOMAIN f : size(h, z) = f[z]
  BY <1>1, ShapeIs
<1>3. BlocksOf(h) = DOMAIN f
  BY <1>2, WalkIs
<1>4. ASSUME NEW i \in 0 .. 8 PROVE Bin(h, i) = L[i]
  <2>1. L[i] \in Seq(DOMAIN f) /\ IsList(h, i, L[i])
    BY <1>2 DEF Linked
  <2> QED
    BY <1>2, <2>1, BinIs
<1>5. InBins(h) = FreeOf(L)
  BY <1>4 DEF InBins, FreeOf, BIN_CNT
<1>6. f = [b \in DOMAIN f |-> f[b]]
  BY <1>2 DEF Chained
<1>7. [b \in BlocksOf(h) |-> size(h, b)] = f
  BY <1>2, <1>3, <1>6
<1> QED
  BY <1>1, <1>3, <1>5, <1>7

\* Words, bins and what callers own have their types.
Typed(h, lv) ==
    /\ \A a \in DOMAIN h.mem :
          /\ a \in Start .. End - 1 /\ a % 4 = 0
          /\ h.mem[a] \in 1 .. AddrSpace - 1
    /\ \A i \in 0 .. BIN_CNT - 1 : h.bins[i] \in {NULL} \cup Start .. End - 1
    /\ \A a \in DOMAIN lv : /\ a \in Start .. End - 1
                            /\ lv[a] \in [sz : Sizes \cup PageSizes, data : {0, Pattern}]

\* Words, heads and owned addresses have their types.
LEMMA RepTyped ==
    ASSUME NEW h, NEW f, NEW F, NEW lv, Rep(h, f, F, lv)
    PROVE  Typed(h, lv)
<1>1. PICK L, Y : F = FreeOf(L) /\ Shape(h, f, L, Y) /\ LiveIs(h, f, L, lv)
  BY DEF Rep
<1>2. /\ IsHeap(h) /\ Chained(f) /\ Linked(h, DOMAIN f, L) /\ L \in [0 .. 8 -> Seq(DOMAIN f)]
      /\ Load(h, End) = 0
  <2>1. Load(h, End) = 0
    BY <1>1 DEF Shape
  <2> QED
    BY <1>1, <2>1, ShapeIs
<1>3. Start \in Nat /\ End \in Nat
  BY Bounds
<1>4. ASSUME NEW x \in DOMAIN f
      PROVE  x \in Start .. End - 1 /\ x + 8 \in Start .. End - 1 /\ x \in Nat
  <2>1. PICK n \in Nat : n = f[x]
    BY <1>2, ChainedIs
  <2>2. x \in Nat /\ Start <= x /\ x + n + 20 <= End
    BY <1>2, <2>1, ChainedIs
  <2> QED
    BY <1>3, <2>2
<1>5. ASSUME NEW i \in 0 .. 8 PROVE h.bins[i] \in {0} \cup Start .. End - 1
  <2>1. L[i] \in Seq(DOMAIN f) /\ h.bins[i] = IF Len(L[i]) = 0 THEN 0 ELSE L[i][1]
    BY <1>2 DEF Linked, IsList
  <2>2. Len(L[i]) # 0 => L[i][1] \in DOMAIN f
    BY <2>1
  <2> QED
    BY <1>4, <2>1, <2>2
<1>6. ASSUME NEW a \in DOMAIN lv
      PROVE  a \in Start .. End - 1 /\ lv[a] \in [sz : Sizes \cup PageSizes, data : {0, Pattern}]
  <2>1. PICK x \in DOMAIN f \ FreeOf(L) : a = x + 8 /\ Payload(h, x, f[x], lv[a])
    BY <1>1 DEF LiveIs
  <2> QED
    BY <1>4, <2>1 DEF Payload
<1>7. ASSUME NEW a \in DOMAIN h.mem
      PROVE  a \in Start .. End - 1 /\ a % 4 = 0 /\ h.mem[a] \in 1 .. AddrSpace - 1
  <2>1. a \in Start .. End /\ a % 4 = 0 /\ h.mem[a] \in 1 .. AddrSpace - 1
    BY <1>2 DEF IsHeap, Word
  <2>2. a # End
    BY <1>2, LoadType
  <2> QED
    BY <1>3, <2>1, <2>2
<1> QED
  BY <1>5, <1>6, <1>7 DEF Typed, BIN_CNT, NULL

\* Every footer leads back to its header.
LEMMA RepFooters ==
    ASSUME NEW h, NEW f, NEW F, NEW lv, Rep(h, f, F, lv)
    PROVE  \A b \in BlocksOf(h) : get_foot(h, b) + 4 <= End /\ Load(h, get_foot(h, b)) = b
<1>1. PICK L, Y : Shape(h, f, L, Y)
  BY DEF Rep
<1>2. Chained(f) /\ BlocksOf(h) = DOMAIN f
  BY <1>1, ShapeIs, RepView
<1> SUFFICES ASSUME NEW b \in DOMAIN f
             PROVE  get_foot(h, b) + 4 <= End /\ Load(h, get_foot(h, b)) = b
  BY <1>2
<1>3. PICK n \in Nat : n = f[b]
  BY <1>2, ChainedIs
<1>4. b \in Nat /\ b % 4 = 0 /\ n % 4 = 0 /\ Start <= b /\ b + n + 20 <= End /\ End \in Nat
  BY <1>2, <1>3, ChainedIs, Bounds
<1>5. Fitted(b, n)
  BY <1>4 DEF Fitted
<1>6. size(h, b) = n /\ Load(h, b + 16 + n) = b
  BY <1>1, <1>3 DEF Shape, Intact
<1>7. get_foot(h, b) = b + 16 + n
  BY <1>5, <1>6, FittedWords DEF get_foot
<1> QED
  BY <1>4, <1>6, <1>7

\* Every bin is sorted, of its sizes, and linked both ways.
LEMMA RepBins ==
    ASSUME NEW h, NEW f, NEW F, NEW lv, Rep(h, f, F, lv), NEW i \in 0 .. 8
    PROVE  BinWellFormed(h, i)
<1>1. PICK L, Y : Shape(h, f, L, Y)
  BY DEF Rep
<1>2. /\ IsHeap(h) /\ Apart(DOMAIN f) /\ Linked(h, DOMAIN f, L) /\ Sorted(f, L)
      /\ L \in [0 .. 8 -> Seq(DOMAIN f)]
      /\ \A z \in DOMAIN f : size(h, z) = f[z]
  BY <1>1, ShapeIs
<1>3. PICK s \in Seq(DOMAIN f) : s = L[i]
  BY <1>2
<1>4. IsList(h, i, s) /\ SortedList(f, s, i)
  BY <1>2, <1>3 DEF Linked, Sorted
<1>5. Bin(h, i) = s
  BY <1>2, <1>4, BinIs
<1>6. PICK n \in Nat : n = Len(s) /\ DOMAIN s = 1 .. n
  OBVIOUS
<1>7. \A k \in 1 .. n : size(h, s[k]) = f[s[k]] /\ get_bin_index(f[s[k]]) = i
  <2>1. \A k \in 1 .. n : s[k] \in DOMAIN f
    BY <1>6
  <2>2. \A k \in 1 .. n : get_bin_index(f[s[k]]) = i
    BY <1>4, <1>6 DEF SortedList
  <2> QED
    BY <1>2, <2>1, <2>2
<1>8. ASSUME NEW k \in 2 .. n
      PROVE  size(h, s[k - 1]) <= size(h, s[k]) /\ prev(h, s[k]) = s[k - 1]
  <2>1. k \in 1 .. n /\ k - 1 \in 1 .. n /\ k - 1 < k
    BY <1>6
  <2>2. f[s[k - 1]] <= f[s[k]] /\ prev(h, s[k]) = s[k - 1]
    BY <1>4, <1>6, <2>1 DEF SortedList, IsList
  <2> QED
    BY <1>7, <2>1, <2>2
<1> QED
  BY <1>5, <1>6, <1>7, <1>8 DEF BinWellFormed

\* The hole flags agree with the bins.
LEMMA RepFlags ==
    ASSUME NEW h, NEW f, NEW F, NEW lv, Rep(h, f, F, lv)
    PROVE  \A b \in BlocksOf(h) \ {Start} : (hole(h, b) # 0) <=> (b \in InBins(h))
<1>1. PICK L, Y : F = FreeOf(L) /\ Fresh(f, F, Y) /\ Shape(h, f, L, Y)
  BY DEF Rep
<1>2. BlocksOf(h) = DOMAIN f /\ InBins(h) = FreeOf(L)
  BY <1>1, RepView
<1>3. \A x \in DOMAIN f \ Y : FlagIs(h, L, x)
  BY <1>1 DEF Shape
<1>4. Y \subseteq {Start}
  BY <1>1 DEF Fresh
<1> QED
  BY <1>2, <1>3, <1>4 DEF FlagIs

\* Of what callers own: the words they find, and where it lies.
LEMMA RepOwned ==
    ASSUME NEW h, NEW f, NEW F, NEW lv, Rep(h, f, F, lv), NEW a \in DOMAIN lv
    PROVE  \E x \in DOMAIN f \ F :
              /\ a = x + 8 /\ x \in Nat /\ f[x] \in Nat /\ Chained(f)
              /\ lv[a].sz \in Nat /\ lv[a].sz <= f[x] /\ Payload(h, x, f[x], lv[a])
<1>1. PICK L, Y : F = FreeOf(L) /\ Shape(h, f, L, Y) /\ LiveIs(h, f, L, lv)
  BY DEF Rep
<1>2. Chained(f)
  BY <1>1, ShapeIs
<1>3. PICK x \in DOMAIN f \ FreeOf(L) : a = x + 8 /\ Payload(h, x, f[x], lv[a])
  BY <1>1 DEF LiveIs
<1>4. x \in Nat /\ f[x] \in Nat
  BY <1>2, <1>3, ChainedIs
<1>5. lv[a].sz \in Nat /\ lv[a].sz <= f[x]
  BY <1>3, RequestIs DEF Payload
<1> QED
  BY <1>1, <1>2, <1>3, <1>4, <1>5

\* The words that are not zero where the caller at a looks.
Used(h, a, n) == {w \in DOMAIN h.mem : a <= w /\ w < a + n + 8}

\* What a caller owns reads zero or what it stored.
LEMMA RepPayload ==
    ASSUME NEW h, NEW f, NEW F, NEW lv, Rep(h, f, F, lv), NEW a \in DOMAIN lv
    PROVE  IF lv[a].data = 0 THEN Used(h, a, lv[a].sz) = {}
           ELSE /\ Used(h, a, lv[a].sz) = UsedWords(a, lv[a].sz)
                /\ \A w \in Used(h, a, lv[a].sz) : h.mem[w] = Pattern
<1>1. PICK x \in DOMAIN f \ F :
              /\ a = x + 8 /\ x \in Nat
              /\ lv[a].sz \in Nat /\ Payload(h, x, f[x], lv[a])
  BY RepOwned
<1>12. PICK r : r = lv[a]
  OBVIOUS
<1>2. PICK n \in Nat : r = lv[a] /\ n = r.sz
  BY <1>1, <1>12
<1>3. /\ r.data \in {0, 7}
      /\ \A w \in Nat : x + 8 <= w /\ w < x + 16 + n =>
            Load(h, w) = IF r.data = 7 /\ w \in UsedWords(a, n) THEN 7 ELSE 0
  BY <1>1, <1>2 DEF Payload, Pattern
<1>4. IsHeap(h)
  BY ShapeIs DEF Rep
<1>5. \A w \in Nat : a <= w /\ w < a + n + 8 <=> x + 8 <= w /\ w < x + 16 + n
  BY <1>1
<1>6. \A w \in DOMAIN h.mem : w \in Nat /\ Load(h, w) # 0 /\ h.mem[w] = Load(h, w)
  <2>1. Start \in Nat /\ End \in Nat
    BY Bounds
  <2> QED
    BY <1>4, <2>1, LoadType DEF IsHeap, Word
<1>7. ASSUME r.data = 0 PROVE Used(h, a, n) = {}
  BY <1>3, <1>5, <1>6, <1>7 DEF Used
<1>8. ASSUME r.data = 7
      PROVE  Used(h, a, n) = UsedWords(a, n) /\ \A w \in Used(h, a, n) : h.mem[w] = 7
  <2>1. \A w \in UsedWords(a, n) : w \in Nat /\ a <= w /\ w < a + n + 8
    BY <1>1 DEF UsedWords
  <2>2. \A w \in UsedWords(a, n) : Load(h, w) = 7
    BY <1>3, <1>5, <1>8, <2>1
  <2>3. \A w \in UsedWords(a, n) : w \in DOMAIN h.mem
    BY <1>4, <2>2, LoadType
  <2>4. \A w \in Used(h, a, n) : w \in UsedWords(a, n) /\ h.mem[w] = 7
    BY <1>3, <1>5, <1>6 DEF Used
  <2> QED
    BY <2>1, <2>3, <2>4 DEF Used
<1>9. CASE r.data = 0
  BY <1>2, <1>7, <1>9
<1>10. CASE r.data = 7
  BY <1>2, <1>8, <1>10 DEF Pattern
<1> QED
  BY <1>3, <1>9, <1>10

\* What a caller owns is outside of the blocks in the bins.
LEMMA RepNotFree ==
    ASSUME NEW h, NEW f, NEW F, NEW lv, Rep(h, f, F, lv), NEW a \in DOMAIN lv,
           NEW b \in InBins(h)
    PROVE  a + lv[a].sz + 12 <= b \/ b + size(h, b) + BLCK_OVERHEAD <= a - OFFSET
<1>1. PICK L, Y : F = FreeOf(L) /\ Shape(h, f, L, Y)
  BY DEF Rep
<1>2. PICK x \in DOMAIN f \ F :
              /\ a = x + 8 /\ x \in Nat /\ f[x] \in Nat /\ Chained(f)
              /\ lv[a].sz \in Nat /\ lv[a].sz <= f[x]
  BY RepOwned
<1>3. b \in F /\ b \in DOMAIN f /\ size(h, b) = f[b] /\ b # x
  <2>1. b \in F
    BY RepView
  <2>2. F \subseteq DOMAIN f /\ \A z \in DOMAIN f : size(h, z) = f[z]
    BY <1>1, ShapeIs
  <2> QED
    BY <2>1, <2>2
<1>4. b \in Nat /\ f[b] \in Nat
  BY <1>2, <1>3, ChainedIs
<1>5. x + f[x] + 20 <= b \/ b + f[b] + 20 <= x
  BY <1>2, <1>3, BlocksApart
<1> QED
  BY <1>2, <1>3, <1>4, <1>5 DEF BLCK_OVERHEAD, OFFSET

\* What two callers own does not overlap.
LEMMA RepDisjoint ==
    ASSUME NEW h, NEW f, NEW F, NEW lv, Rep(h, f, F, lv), NEW a \in DOMAIN lv,
           NEW b \in DOMAIN lv, a < b
    PROVE  a + lv[a].sz + 8 <= b
<1>1. PICK x \in DOMAIN f \ F :
              /\ a = x + 8 /\ x \in Nat /\ f[x] \in Nat /\ Chained(f)
              /\ lv[a].sz \in Nat /\ lv[a].sz <= f[x]
  BY RepOwned
<1>2. PICK y \in DOMAIN f \ F : b = y + 8 /\ y \in Nat /\ f[y] \in Nat
  BY RepOwned
<1>3. x # y
  BY <1>1, <1>2
<1>4. x + f[x] + 20 <= y \/ y + f[y] + 20 <= x
  BY <1>1, <1>2, <1>3, BlocksApart
<1> QED
  BY <1>1, <1>2, <1>4

-----------------------------------------------------------------------------
(* The invariant.                                                          *)

\* The heap always holds some chain of blocks.
HeapInv ==
    /\ stray \in BootHeads /\ behind \in PastEnd
    /\ astray \in BOOLEAN /\ halted \in BOOLEAN
    /\ \E f, F : Rep(heap, f, F, live)

\* kheap_init establishes the invariant, and maps to the chain of one block.
LEMMA InitInv ==
    ASSUME Init
    PROVE  HeapInv /\ Chain!Init
<1>1. PICK v \in {0, 1} :
         LET sz    == End - Start - BLCK_OVERHEAD
             empty == [mem |-> <<>>, bins |-> [i \in 0 .. BIN_CNT - 1 |-> NULL]]
             h     == SetSize(SetHole(empty, Start, v), Start, sz)
         IN  heap = add_block_sorted(create_foot(h, Start), get_bin_index(sz), Start)
  BY DEF Init
<1>2. /\ heap = InitHeap(v) /\ live = <<>> /\ halted = FALSE
      /\ stray \in BootHeads /\ behind \in PastEnd /\ astray \in BOOLEAN
  BY <1>1 DEF InitHeap, Init
<1>3. Rep(heap, WholeChain, {Start}, live)
  BY <1>2, InitRep
<1>4. [b \in BlocksOf(heap) |-> size(heap, b)] = WholeChain /\ InBins(heap) = {Start}
  BY <1>3, RepView
<1>5. Chain!Init
  BY <1>2, <1>4 DEF Chain!Init, Chain!BLCK_OVERHEAD, WholeChain, BLCK_OVERHEAD
<1> QED
  BY <1>2, <1>3, <1>5 DEF HeapInv

\* Alloc keeps the heap represented and maps to a step of the chain.
LEMMA AllocStep ==
    ASSUME NEW f, NEW F, Rep(heap, f, F, live), NEW sz \in Sizes, Alloc(sz)
    PROVE  (\E f2, F2 : Rep(heap', f2, F2, live')) /\ Chain!Next
<1>1. /\ ~ halted /\ halted' = halted /\ FittingBins(heap, sz) # {}
      /\ heap' = kheap_alloc(heap, sz)
  BY DEF Alloc, MayAlloc, Running
<1>2. PICK b : b = Found(heap, sz)
  OBVIOUS
<1>3. live' = Handed(live, b + 8, sz)
  BY <1>2 DEF Alloc, Owned, Handed, OFFSET
<1>4. BestFit(f, F, sz, b) /\ Allocated(f, F, heap', live', sz, b)
  BY <1>1, <1>2, <1>3, AllocRep
<1>5. [x \in BlocksOf(heap) |-> size(heap, x)] = f /\ InBins(heap) = F
  BY RepView
<1>6. b \in F /\ f[b] >= sz /\ \A c \in F : f[c] >= sz => f[b] <= f[c]
  BY <1>4 DEF BestFit
<1>7. CASE f[b] - sz > 24 /\ Rep(heap', Chain!Cut(f, b, sz), (F \ {b}) \cup {b + sz + 20}, live')
  <2>1. PICK f2, F2 : /\ f2 = Chain!Cut(f, b, sz) /\ F2 = (F \ {b}) \cup {b + sz + 20}
                      /\ Rep(heap', f2, F2, live')
    BY <1>7
  <2>2. [x \in BlocksOf(heap') |-> size(heap', x)] = f2 /\ InBins(heap') = F2
    BY <2>1, RepView
  <2>3. Chain!AllocSplit(sz, b)
    BY <1>1, <1>5, <1>6, <1>7, <2>1, <2>2
       DEF Chain!AllocSplit, Chain!Fits, Chain!BLCK_OVERHEAD, Chain!MIN_ALLOC_SZ
  <2>4. b \in Chain!Fits(sz)
    BY <1>5, <1>6 DEF Chain!Fits
  <2> QED
    BY <2>1, <2>3, <2>4 DEF Chain!Next
<1>8. CASE f[b] - sz <= 24 /\ Rep(heap', f, F \ {b}, live')
  <2>1. PICK F2 : F2 = F \ {b} /\ Rep(heap', f, F2, live')
    BY <1>8
  <2>2. [x \in BlocksOf(heap') |-> size(heap', x)] = f /\ InBins(heap') = F2
    BY <2>1, RepView
  <2>3. Chain!AllocWhole(sz, b)
    BY <1>1, <1>5, <1>6, <1>8, <2>1, <2>2
       DEF Chain!AllocWhole, Chain!Fits, Chain!BLCK_OVERHEAD, Chain!MIN_ALLOC_SZ
  <2>4. b \in Chain!Fits(sz)
    BY <1>5, <1>6 DEF Chain!Fits
  <2> QED
    BY <2>1, <2>3, <2>4 DEF Chain!Next
<1> QED
  BY <1>4, <1>7, <1>8 DEF Allocated

\* A fault keeps the heap as it is and maps to a step of the chain.
LEMMA AllocFaultsStep ==
    ASSUME NEW f, NEW F, Rep(heap, f, F, live), NEW sz \in Sizes, AllocFaults(sz)
    PROVE  (\E f2, F2 : Rep(heap', f2, F2, live')) /\ Chain!Next
<1>1. /\ ~ halted /\ halted' = TRUE /\ FittingBins(heap, sz) = {}
      /\ heap' = heap /\ live' = live
  BY DEF AllocFaults, MayAlloc, Running
<1>2. [x \in BlocksOf(heap) |-> size(heap, x)] = f /\ InBins(heap) = F
  BY RepView
<1>3. \A c \in F : ~ (f[c] >= sz)
  BY <1>1, FaultRep
<1>4. Chain!Fits(sz) = {}
  BY <1>2, <1>3 DEF Chain!Fits
<1>5. Chain!AllocFails(sz)
  BY <1>1, <1>4 DEF Chain!AllocFails
<1> QED
  BY <1>1, <1>5 DEF Chain!Next

\* AllocA keeps the heap represented and maps to a step of the chain.
LEMMA AllocAStep ==
    ASSUME Careful, NEW f, NEW F, Rep(heap, f, F, live), NEW sz \in PageSizes, AllocA(sz)
    PROVE  (\E f2, F2 : Rep(heap', f2, F2, live')) /\ Chain!Next
<1>1. /\ ~ halted /\ halted' = halted /\ heap' = kheap_alloc_a(heap, sz)
      /\ Chain!RoomForPage(get_wilderness(heap), sz)
  BY DEF AllocA, MayAllocA, MayAlloc, Running
<1>2. PICK w, ret : w = get_wilderness(heap) /\ ret = PageBlock(heap)
  OBVIOUS
<1>3. live' = Handed(live, ret + 8, sz)
  BY <1>2 DEF AllocA, Owned, Handed, OFFSET
<1>4. [x \in BlocksOf(heap) |-> size(heap, x)] = f /\ InBins(heap) = F /\ BlocksOf(heap) = DOMAIN f
  BY RepView
<1>5. Roomy(f, F, w, sz)
  BY <1>1, <1>2, <1>4 DEF Roomy, Chain!RoomForPage, Chain!After, Chain!BLCK_OVERHEAD
<1>6. ret = w + Chain!Lead(w) + 20 /\ Paged(f, F, heap', live', sz, w, ret)
  BY <1>1, <1>2, <1>3, <1>5, AllocARep
<1>7. PICK f2, F2 : /\ f2 = Chain!Cut(Chain!Cut(f, w, Chain!Lead(w)), ret, sz)
                    /\ F2 = F \cup {ret + sz + 20} /\ Rep(heap', f2, F2, live')
  BY <1>6 DEF Paged
<1>8. [x \in BlocksOf(heap') |-> size(heap', x)] = f2 /\ InBins(heap') = F2
  BY <1>7, RepView
<1>9. Chain!AllocPage(sz, w)
  BY <1>1, <1>2, <1>4, <1>6, <1>7, <1>8 DEF Chain!AllocPage, Chain!BLCK_OVERHEAD
<1>10. w \in Chain!Blocks
  <2>1. w \in F /\ F \subseteq DOMAIN f
    BY <1>5, ShapeIs DEF Rep, Roomy
  <2> QED
    BY <1>4, <2>1 DEF Chain!Blocks
<1> QED
  BY <1>7, <1>9, <1>10 DEF Chain!Next

\* Free keeps the heap represented and maps to a step of the chain.
LEMMA FreeStep ==
    ASSUME NEW f, NEW F, Rep(heap, f, F, live), NEW a \in DOMAIN live, Free(a)
    PROVE  (\E f2, F2 : Rep(heap', f2, F2, live')) /\ Chain!Next
<1>1. /\ ~ halted /\ halted' = halted /\ heap' = kheap_free(heap, a)
      /\ live' = Dropped(live, a)
  BY DEF Free, Running, Dropped
<1>2. PICK b : b = a - 8
  OBVIOUS
<1>3. b \in DOMAIN f \ F /\ Freed(f, F, b, heap', live')
  BY <1>1, <1>2, FreeRep
<1>4. [x \in BlocksOf(heap) |-> size(heap, x)] = f /\ InBins(heap) = F /\ BlocksOf(heap) = DOMAIN f
  BY RepView
<1>5. CASE b = Start /\ Rep(heap', f, F \cup {Start}, live')
  <2>1. PICK F2 : F2 = F \cup {Start} /\ Rep(heap', f, F2, live')
    BY <1>5
  <2>2. [x \in BlocksOf(heap') |-> size(heap', x)] = f /\ InBins(heap') = F2
    BY <2>1, RepView
  <2>3. Chain!FreeFirst
    BY <1>1, <1>3, <1>4, <1>5, <2>1, <2>2 DEF Chain!FreeFirst, Chain!Blocks
  <2> QED
    BY <2>1, <2>3 DEF Chain!Next
<1>6. ASSUME b # Start, NEW p \in DOMAIN f, p + f[p] + 20 = b,
             Coalesced(f, F, b, p, heap', live')
      PROVE  (\E f2, F2 : Rep(heap', f2, F2, live')) /\ Chain!Next
  <2>1. PICK n, c, f1, f2, F2 :
           /\ n = b + f[b] + 20
           /\ c = IF p \in F THEN p ELSE b
           /\ f1 = IF p \in F THEN Chain!Join(f, p) ELSE f
           /\ f2 = IF n \in F THEN Chain!Join(f1, c) ELSE f1
           /\ F2 = (F \ {n}) \cup {c}
           /\ Rep(heap', f2, F2, live')
    BY <1>6 DEF Coalesced
  <2>2. [x \in BlocksOf(heap') |-> size(heap', x)] = f2 /\ InBins(heap') = F2
    BY <2>1, RepView
  <2>3. Chain!FreeOther(b, p)
    BY <1>1, <1>3, <1>4, <1>6, <2>1, <2>2
       DEF Chain!FreeOther, Chain!After, Chain!BLCK_OVERHEAD
  <2>4. b \in Chain!Blocks \ {Start} /\ p \in Chain!Blocks
    BY <1>3, <1>4, <1>6 DEF Chain!Blocks
  <2> QED
    BY <2>1, <2>3, <2>4 DEF Chain!Next
<1> QED
  BY <1>3, <1>5, <1>6 DEF Freed

\* Stores of callers keep the heap represented, and the chain does not see them.
LEMMA UseStep ==
    ASSUME NEW f, NEW F, Rep(heap, f, F, live), NEW a \in DOMAIN live, Use(a)
    PROVE  (\E f2, F2 : Rep(heap', f2, F2, live')) /\ UNCHANGED Chain!vars
<1>1. /\ halted' = halted
      /\ heap' = Store(heap, UsedWords(a, live[a].sz), Pattern)
      /\ live' = [live EXCEPT ![a].data = Pattern]
  BY DEF Use
<1>2. Rep(heap', f, F, live')
  BY <1>1, UseRep
<1>3. [x \in BlocksOf(heap) |-> size(heap, x)] = f /\ InBins(heap) = F
  BY RepView
<1>4. [x \in BlocksOf(heap') |-> size(heap', x)] = f /\ InBins(heap') = F
  BY <1>2, RepView
<1>5. UNCHANGED Chain!vars
  BY <1>1, <1>3, <1>4 DEF Chain!vars
<1> QED
  BY <1>2, <1>5

\* Every step keeps the invariant and maps to a step of the chain or to none.
LEMMA NextInv ==
    ASSUME Careful, HeapInv, [Next]_vars
    PROVE  HeapInv' /\ [Chain!Next]_(Chain!vars)
<1>1. PICK f, F : Rep(heap, f, F, live)
  BY DEF HeapInv
<1>2. /\ stray' \in BootHeads /\ behind' \in PastEnd
      /\ astray' \in BOOLEAN /\ halted' \in BOOLEAN
  BY DEF HeapInv, Next, vars, Alloc, AllocFaults, AllocA, Free, Use, GoAstray
<1>3. ASSUME heap' = heap, live' = live, halted' = halted
      PROVE  HeapInv' /\ [Chain!Next]_(Chain!vars)
  <2>1. UNCHANGED Chain!vars
    BY <1>3 DEF Chain!vars
  <2> QED
    BY <1>1, <1>2, <1>3, <2>1 DEF HeapInv
<1>4. CASE \E sz \in Sizes : Alloc(sz)
  BY <1>1, <1>2, <1>4, AllocStep DEF HeapInv
<1>5. CASE \E sz \in Sizes : AllocFaults(sz)
  BY <1>1, <1>2, <1>5, AllocFaultsStep DEF HeapInv
<1>6. CASE \E sz \in PageSizes : AllocA(sz)
  BY <1>1, <1>2, <1>6, AllocAStep DEF HeapInv
<1>7. CASE \E a \in DOMAIN live : Free(a)
  BY <1>1, <1>2, <1>7, FreeStep DEF HeapInv
<1>8. CASE \E a \in DOMAIN live : Use(a)
  BY <1>1, <1>2, <1>8, UseStep DEF HeapInv
<1>9. CASE GoAstray \/ UNCHANGED vars
  BY <1>3, <1>9 DEF GoAstray, vars
<1> QED
  BY <1>4, <1>5, <1>6, <1>7, <1>8, <1>9 DEF Next

-----------------------------------------------------------------------------
(* The theorems.                                                           *)

\* The heap is represented by a chain all the time.
LEMMA InvHolds ==
    ASSUME Careful
    PROVE  Spec => []HeapInv
  BY InitInv, NextInv, PTL DEF Spec

\* kheap_init, kheap_alloc, kheap_alloc_a and kheap_free store 32-bit values at word
\* addresses of the heap only, the heads of the bins point into it, and callers are
\* given addresses in it.
THEOREM HeapTypes ==
    ASSUME Careful
    PROVE  Spec => []TypeOK
<1>1. HeapInv => TypeOK
  <2> SUFFICES ASSUME NEW f, NEW F, Rep(heap, f, F, live),
                      stray \in BootHeads, behind \in PastEnd,
                      astray \in BOOLEAN, halted \in BOOLEAN
               PROVE  TypeOK
    BY DEF HeapInv
  <2>1. Typed(heap, live)
    BY RepTyped
  <2> QED
    BY <2>1 DEF Typed, TypeOK
<1> QED
  BY <1>1, InvHolds, PTL

\* The footer that create_foot stores behind every block leads back to its header,
\* and walking by sizes ends at KHEAP_END: what kheap_free takes for the block in
\* front is the block in front.
THEOREM Footers ==
    ASSUME Careful
    PROVE  Spec => []FootersMatch
<1>1. HeapInv => FootersMatch
  BY RepFooters DEF HeapInv, FootersMatch
<1> QED
  BY <1>1, InvHolds, PTL

\* add_block_sorted and remove_block keep all nine lists sorted by size, of the
\* sizes that get_bin_index gives them, and linked both ways, although callers store
\* into the words of the links while they own a block.
THEOREM Bins ==
    ASSUME Careful
    PROVE  Spec => []BinsWellFormed
<1>1. HeapInv => BinsWellFormed
  BY RepBins DEF HeapInv, BinsWellFormed, BIN_CNT
<1> QED
  BY <1>1, InvHolds, PTL

\* The hole flag that kheap_free reads of the neighbours says whether they are in a
\* bin, however often blocks were split and joined; the flag of the first block,
\* which kheap_init does not set, is not read before it is.
THEOREM Holes ==
    ASSUME Careful
    PROVE  Spec => []HolesAreBinned
<1>1. HeapInv => HolesAreBinned
  BY RepFlags DEF HeapInv, HolesAreBinned
<1> QED
  BY <1>1, InvHolds, PTL

\* No operation of another caller, and no header, footer or link that the heap
\* stores, reaches the memory between kheap_alloc and kheap_free; it reads zero until
\* its owner stores.
THEOREM Payloads ==
    ASSUME Careful
    PROVE  Spec => []PayloadIntact
<1>1. HeapInv => PayloadIntact
  <2> SUFFICES ASSUME NEW f, NEW F, Rep(heap, f, F, live), NEW a \in DOMAIN live
               PROVE  IF live[a].data = 0 THEN Used(heap, a, live[a].sz) = {}
                      ELSE /\ Used(heap, a, live[a].sz) = UsedWords(a, live[a].sz)
                           /\ \A w \in Used(heap, a, live[a].sz) : heap.mem[w] = Pattern
    BY DEF HeapInv, PayloadIntact, Used
  <2> QED
    BY RepPayload
<1> QED
  BY <1>1, InvHolds, PTL

\* No block that kheap_alloc may hand out next shares a byte with memory that was
\* handed out and not freed.
THEOREM OwnedNotFree ==
    ASSUME Careful
    PROVE  Spec => []LiveNotFree
<1>1. HeapInv => LiveNotFree
  BY RepNotFree DEF HeapInv, LiveNotFree
<1> QED
  BY <1>1, InvHolds, PTL

\* The blocks that kheap_alloc and kheap_alloc_a handed out do not overlap.
THEOREM OwnedDisjoint ==
    ASSUME Careful
    PROVE  Spec => []LiveDisjoint
<1>1. HeapInv => LiveDisjoint
  BY RepDisjoint DEF HeapInv, LiveDisjoint
<1> QED
  BY <1>1, InvHolds, PTL

\* On the words of the heap the code does what BlockChain does on a map from
\* blocks to sizes and a set of free ones: kheap_alloc takes the best fit and splits
\* it, kheap_alloc_a cuts a page from the last block, kheap_free joins neighbours,
\* and stores of callers change nothing.
THEOREM ChainRefinement ==
    ASSUME Careful
    PROVE  Spec => ChainSpec
<1>1. Init => Chain!Init
  BY InitInv
<1>2. HeapInv /\ [Next]_vars => [Chain!Next]_(Chain!vars)
  BY NextInv
<1> QED
  BY InvHolds, <1>1, <1>2, PTL DEF Spec, ChainSpec, Chain!Spec

-----------------------------------------------------------------------------
(* What callers rely on: the chain of blocks implements HeapSpec, which    *)
(* BlockChainProofs proves for any chain, hence for the one that the words *)
(* of the heap stand for.                                                  *)

ChainProofs == INSTANCE BlockChainProofs
                  WITH sizeOf <- [b \in BlocksOf(heap) |-> size(heap, b)],
                       free <- InBins(heap)

\* The chain of this instance is Chain.
LEMMA SameChain ==
    /\ Chain!Init <=> ChainProofs!Init
    /\ [Chain!Next]_(Chain!vars) <=> [ChainProofs!Next]_(ChainProofs!vars)
<1>1. Chain!Init <=> ChainProofs!Init
  BY DEF Chain!Init, ChainProofs!Init, Chain!BLCK_OVERHEAD, ChainProofs!BLCK_OVERHEAD
<1>2. Chain!vars = ChainProofs!vars /\ Chain!vars' = ChainProofs!vars'
  BY DEF Chain!vars, ChainProofs!vars
<1>3. Chain!Next <=> ChainProofs!Next
  BY DEF Chain!Next, Chain!AllocSplit, Chain!AllocWhole, Chain!AllocFails, Chain!AllocPage,
         Chain!FreeFirst, Chain!FreeOther, Chain!RoomForPage, Chain!Fits, Chain!Blocks,
         Chain!Cut, Chain!Join, Chain!After, Chain!Lead, Chain!Extra,
         Chain!BLCK_OVERHEAD, Chain!MIN_ALLOC_SZ, Chain!PG_SZ,
         ChainProofs!Next, ChainProofs!AllocSplit, ChainProofs!AllocWhole,
         ChainProofs!AllocFails, ChainProofs!AllocPage, ChainProofs!FreeFirst,
         ChainProofs!FreeOther, ChainProofs!RoomForPage, ChainProofs!Fits,
         ChainProofs!Blocks, ChainProofs!Cut, ChainProofs!Join, ChainProofs!After,
         ChainProofs!Lead, ChainProofs!Extra, ChainProofs!BLCK_OVERHEAD,
         ChainProofs!MIN_ALLOC_SZ, ChainProofs!PG_SZ
<1> QED
  BY <1>1, <1>2, <1>3

\* So are the ranges that callers own in it, and what they rely on.
LEMMA SameContract ==
    /\ Chain!Heap!Init <=> ChainProofs!Heap!Init
    /\ [Chain!Heap!Next]_(Chain!Heap!vars) <=> [ChainProofs!Heap!Next]_(ChainProofs!Heap!vars)
<1> USE DEF Chain!Live, Chain!Blocks, Chain!OFFSET,
            ChainProofs!Live, ChainProofs!Blocks, ChainProofs!OFFSET
<1>1. Chain!Heap!Init <=> ChainProofs!Heap!Init
  BY DEF Chain!Heap!Init, ChainProofs!Heap!Init
<1>2. /\ Chain!Heap!vars = ChainProofs!Heap!vars
      /\ Chain!Heap!vars' = ChainProofs!Heap!vars'
  BY DEF Chain!Heap!vars, ChainProofs!Heap!vars
<1>3. Chain!Heap!Next <=> ChainProofs!Heap!Next
  BY DEF Chain!Heap!Next, Chain!Heap!Alloc, Chain!Heap!Stop, Chain!Heap!Free, Chain!Heap!Apart,
         ChainProofs!Heap!Next, ChainProofs!Heap!Alloc, ChainProofs!Heap!Stop,
         ChainProofs!Heap!Free, ChainProofs!Heap!Apart
<1> QED
  BY <1>1, <1>2, <1>3

\* What BlockChainProofs says of it.
LEMMA ChainServes == ChainProofs!Spec => ChainProofs!HeapContract
<1>1. /\ Start \in Nat /\ End \in Nat
      /\ Start + ChainProofs!BLCK_OVERHEAD <= End
      /\ Sizes \subseteq Nat /\ PageSizes \subseteq Nat
  BY Bounds, KHeapAssumption DEF ChainProofs!BLCK_OVERHEAD
<1> QED
  BY <1>1, ChainProofs!HeapRefinement, PTL

\* From the words of the heap to what kmalloc and kfree promise: every address that
\* kheap_alloc or kheap_alloc_a returned owns a range of bytes of the heap, as long
\* as was asked for, apart from all others, and unmoved until kheap_free.
THEOREM CallersServed ==
    ASSUME Careful
    PROVE  Spec => Chain!HeapContract
<1> QED
  BY ChainRefinement, ChainServes, SameChain, SameContract, PTL
     DEF ChainSpec, Chain!Spec, Chain!HeapContract, Chain!Heap!Spec,
         ChainProofs!Spec, ChainProofs!HeapContract, ChainProofs!Heap!Spec
=============================================================================
