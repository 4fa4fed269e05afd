-------------------------- MODULE BlockChainProofs --------------------------
(***************************************************************************)
(* Proofs about the chain of heap blocks, for every size of the heap and   *)
(* every set of requests: the blocks always tile the heap, and the chain   *)
(* implements HeapSpec.                                                    *)
(***************************************************************************)
EXTENDS BlockChain, TLAPS

\* A map from blocks to sizes that tiles the heap.
Chained(f) ==
    /\ f \in [DOMAIN f -> Nat]
    /\ DOMAIN f \subseteq Start .. End - 1
    /\ Tiling(f)

-----------------------------------------------------------------------------
(* Cutting and joining keep the tiling.                                    *)

\* A block of a tiling lies in the heap.
LEMMA BlockFacts ==
    ASSUME NEW f, Chained(f), NEW b \in DOMAIN f
    PROVE  /\ b \in Nat /\ Start <= b /\ b < End
           /\ f[b] \in Nat
           /\ After(f, b) = b + f[b] + 20
           /\ After(f, b) \in Nat
           /\ After(f, b) <= End
<1> USE ChainAssumption
<1>1. b \in Nat /\ Start <= b /\ b < End /\ f[b] \in Nat
  BY DEF Chained
<1>2. After(f, b) = b + f[b] + 20
  BY DEF After, BLCK_OVERHEAD
<1>3. After(f, b) = End \/ After(f, b) \in Start .. End - 1
  BY DEF Chained, Tiling
<1> QED
  BY <1>1, <1>2, <1>3

\* No block starts inside another one.
LEMMA NoneInside ==
    ASSUME NEW f, Chained(f), NEW b \in DOMAIN f, NEW c \in DOMAIN f
    PROVE  c <= b \/ After(f, b) <= c
<1>1. b \in Nat /\ c \in Nat
  BY BlockFacts
<1>2. b < c => After(f, b) <= c
  BY DEF Chained, Tiling
<1> QED
  BY <1>1, <1>2

\* The map after a cut, block by block.
LEMMA CutFacts ==
    ASSUME NEW f, Chained(f), NEW b \in DOMAIN f, NEW sz \in Nat, sz + 20 <= f[b],
           NEW s, s = b + sz + 20, NEW g, g = Cut(f, b, sz)
    PROVE  /\ s \in Nat /\ b < s /\ s < After(f, b) /\ s < End /\ s \notin DOMAIN f
           /\ DOMAIN g = DOMAIN f \cup {s}
           /\ g = [c \in DOMAIN g |-> g[c]]
           /\ g[b] = sz /\ g[s] = f[b] - sz - 20
           /\ \A c \in DOMAIN f \ {b} : g[c] = f[c]
           /\ After(g, b) = s /\ After(g, s) = After(f, b)
           /\ \A c \in DOMAIN f \ {b} : After(g, c) = After(f, c)
<1> USE ChainAssumption
<1>1. /\ b \in Nat /\ Start <= b /\ b < End /\ f[b] \in Nat
      /\ After(f, b) = b + f[b] + 20 /\ After(f, b) <= End
  BY BlockFacts
<1>2. s \in Nat /\ b < s /\ s < After(f, b) /\ s < End
  BY <1>1
<1>3. s \notin DOMAIN f
  <2>1. ASSUME s \in DOMAIN f PROVE FALSE
    <3>1. s <= b \/ After(f, b) <= s
      BY <2>1, NoneInside
    <3> QED
      BY <1>1, <1>2, <3>1
  <2> QED
    BY <2>1
<1>4. g = [c \in DOMAIN f \cup {s} |->
             CASE c = b -> sz [] c = s -> f[b] - sz - 20 [] OTHER -> f[c]]
  BY DEF Cut, BLCK_OVERHEAD
<1>5. /\ DOMAIN g = DOMAIN f \cup {s}
      /\ g[b] = sz /\ g[s] = f[b] - sz - 20
      /\ \A c \in DOMAIN f \ {b} : g[c] = f[c]
  BY <1>1, <1>2, <1>3, <1>4
<1>6. g = [c \in DOMAIN g |-> g[c]]
  BY <1>4
<1>7. After(g, b) = s /\ After(g, s) = After(f, b)
  BY <1>1, <1>2, <1>5 DEF After, BLCK_OVERHEAD
<1>8. \A c \in DOMAIN f \ {b} : After(g, c) = After(f, c)
  BY <1>5 DEF After
<1> QED
  BY <1>2, <1>3, <1>5, <1>6, <1>7, <1>8

\* Cutting a block in two keeps the tiling.
LEMMA CutChained ==
    ASSUME NEW f, Chained(f), NEW b \in DOMAIN f, NEW sz \in Nat, sz + 20 <= f[b]
    PROVE  Chained(Cut(f, b, sz))
<1> SUFFICES ASSUME NEW s, s = b + sz + 20, NEW g, g = Cut(f, b, sz)
             PROVE  Chained(g)
  OBVIOUS
<1>1. /\ s \in Nat /\ b < s /\ s < After(f, b) /\ s < End /\ s \notin DOMAIN f
      /\ DOMAIN g = DOMAIN f \cup {s}
      /\ g = [c \in DOMAIN g |-> g[c]]
      /\ g[b] = sz /\ g[s] = f[b] - sz - 20
      /\ \A c \in DOMAIN f \ {b} : g[c] = f[c]
      /\ After(g, b) = s /\ After(g, s) = After(f, b)
      /\ \A c \in DOMAIN f \ {b} : After(g, c) = After(f, c)
  BY CutFacts
<1> USE ChainAssumption
<1>2. b \in Nat /\ Start <= b /\ f[b] \in Nat /\ After(f, b) \in Nat
  BY BlockFacts
<1>3. g \in [DOMAIN g -> Nat]
  <2>1. \A c \in DOMAIN g : g[c] \in Nat
    BY <1>1, <1>2 DEF Chained
  <2> QED
    BY <1>1, <2>1
<1>4. DOMAIN g \subseteq Start .. End - 1
  BY <1>1, <1>2 DEF Chained
<1>5. \A c \in DOMAIN g : After(g, c) = End \/ After(g, c) \in DOMAIN g
  BY <1>1 DEF Chained, Tiling
<1>6. ASSUME NEW c \in DOMAIN g, NEW d \in DOMAIN g, c < d
      PROVE  After(g, c) <= d
  <2>1. CASE c \in DOMAIN f \ {b} /\ d \in DOMAIN f
    BY <1>1, <1>6, <2>1 DEF Chained, Tiling
  <2>2. CASE c \in DOMAIN f \ {b} /\ d = s
    <3>1. c \in Nat /\ After(f, c) \in Nat
      BY <2>2, BlockFacts
    <3>2. c <= b \/ After(f, b) <= c
      BY <2>2, NoneInside
    <3>3. c < b
      BY <1>1, <1>2, <1>6, <2>2, <3>1, <3>2
    <3>4. After(f, c) <= b
      BY <2>2, <3>3 DEF Chained, Tiling
    <3> QED
      BY <1>1, <1>2, <2>2, <3>1, <3>4
  <2>3. CASE c = b /\ d \in DOMAIN f
    <3>1. After(f, b) <= d /\ d \in Nat
      BY <1>6, <2>3, BlockFacts DEF Chained, Tiling
    <3> QED
      BY <1>1, <1>2, <2>3, <3>1
  <2>4. CASE c = b /\ d = s
    BY <1>1, <2>4
  <2>5. CASE c = s /\ d \in DOMAIN f
    <3>1. d \in Nat /\ b < d
      BY <1>1, <1>2, <1>6, <2>5, BlockFacts
    <3>2. After(f, b) <= d
      BY <2>5, <3>1 DEF Chained, Tiling
    <3> QED
      BY <1>1, <2>5, <3>2
  <2>6. CASE c = s /\ d = s
    BY <1>1, <1>6, <2>6
  <2> QED
    BY <1>1, <2>1, <2>2, <2>3, <2>4, <2>5, <2>6
<1>7. Tiling(g)
  BY <1>1, <1>5, <1>6 DEF Chained, Tiling
<1> QED
  BY <1>3, <1>4, <1>7 DEF Chained

\* The map after two neighbours were joined, block by block.
LEMMA JoinFacts ==
    ASSUME NEW f, Chained(f), NEW b \in DOMAIN f,
           NEW n \in DOMAIN f, n = After(f, b), NEW g, g = Join(f, b)
    PROVE  /\ b < n
           /\ DOMAIN g = DOMAIN f \ {n}
           /\ g = [c \in DOMAIN g |-> g[c]]
           /\ g[b] = f[b] + 20 + f[n]
           /\ \A c \in DOMAIN f \ {b, n} : g[c] = f[c]
           /\ After(g, b) = After(f, n)
           /\ \A c \in DOMAIN f \ {b, n} : After(g, c) = After(f, c)
<1>1. /\ b \in Nat /\ f[b] \in Nat /\ n = b + f[b] + 20
      /\ n \in Nat /\ f[n] \in Nat /\ After(f, n) = n + f[n] + 20
  BY BlockFacts
<1>2. g = [c \in DOMAIN f \ {n} |-> IF c = b THEN f[b] + 20 + f[n] ELSE f[c]]
  BY DEF Join, BLCK_OVERHEAD
<1>3. b < n
  BY <1>1
<1>4. /\ DOMAIN g = DOMAIN f \ {n}
      /\ g[b] = f[b] + 20 + f[n]
      /\ \A c \in DOMAIN f \ {b, n} : g[c] = f[c]
  BY <1>1, <1>2, <1>3
<1>5. g = [c \in DOMAIN g |-> g[c]]
  BY <1>2
<1>6. After(g, b) = After(f, n)
  BY <1>1, <1>4 DEF After, BLCK_OVERHEAD
<1>7. \A c \in DOMAIN f \ {b, n} : After(g, c) = After(f, c)
  BY <1>4 DEF After
<1> QED
  BY <1>3, <1>4, <1>5, <1>6, <1>7

\* Joining a block and the one behind it keeps the tiling.
LEMMA JoinChained ==
    ASSUME NEW f, Chained(f), NEW b \in DOMAIN f, After(f, b) \in DOMAIN f
    PROVE  Chained(Join(f, b))
<1> SUFFICES ASSUME NEW n \in DOMAIN f, n = After(f, b), NEW g, g = Join(f, b)
             PROVE  Chained(g)
  OBVIOUS
<1>1. /\ b < n
      /\ DOMAIN g = DOMAIN f \ {n}
      /\ g = [c \in DOMAIN g |-> g[c]]
      /\ g[b] = f[b] + 20 + f[n]
      /\ \A c \in DOMAIN f \ {b, n} : g[c] = f[c]
      /\ After(g, b) = After(f, n)
      /\ \A c \in DOMAIN f \ {b, n} : After(g, c) = After(f, c)
  BY JoinFacts
<1> USE ChainAssumption
<1>2. /\ n \in DOMAIN f
      /\ b \in Nat /\ f[b] \in Nat /\ n = b + f[b] + 20 /\ Start <= b
      /\ n \in Nat /\ f[n] \in Nat /\ After(f, n) = n + f[n] + 20
  BY BlockFacts
<1>3. g \in [DOMAIN g -> Nat]
  <2>1. \A c \in DOMAIN g : g[c] \in Nat
    BY <1>1, <1>2 DEF Chained
  <2> QED
    BY <1>1, <2>1
<1>4. DOMAIN g \subseteq Start .. End - 1
  BY <1>1 DEF Chained
<1>5. ASSUME NEW c \in DOMAIN g
      PROVE  After(g, c) = End \/ After(g, c) \in DOMAIN g
  <2>1. CASE c = b
    <3>1. After(f, n) # n
      BY <1>2
    <3> QED
      BY <1>1, <1>2, <2>1, <3>1 DEF Chained, Tiling
  <2>2. CASE c # b
    <3>1. c \in DOMAIN f /\ c # n /\ c \in Nat /\ After(f, c) = c + f[c] + 20 /\ f[c] \in Nat
      BY <1>1, BlockFacts
    <3>2. After(f, c) # n
      <4>1. c <= b \/ n <= c
        BY <3>1, NoneInside
      <4>2. b <= c \/ After(f, c) <= b
        BY <3>1, NoneInside
      <4> QED
        BY <1>1, <1>2, <2>2, <3>1, <4>1, <4>2
    <3> QED
      BY <1>1, <2>2, <3>1, <3>2 DEF Chained, Tiling
  <2> QED
    BY <2>1, <2>2
<1>6. ASSUME NEW c \in DOMAIN g, NEW d \in DOMAIN g, c < d
      PROVE  After(g, c) <= d
  <2>1. CASE c = b
    <3>1. d \in Nat /\ d # n /\ d \in DOMAIN f
      BY <1>1, BlockFacts
    <3>2. d <= b \/ n <= d
      BY <3>1, NoneInside
    <3>3. n < d
      BY <1>2, <1>6, <2>1, <3>1, <3>2
    <3>4. After(f, n) <= d
      BY <1>2, <3>1, <3>3 DEF Chained, Tiling
    <3> QED
      BY <1>1, <2>1, <3>4
  <2>2. CASE c # b
    BY <1>1, <1>6, <2>2 DEF Chained, Tiling
  <2> QED
    BY <2>1, <2>2
<1>7. Start \in DOMAIN g
  BY <1>1, <1>2 DEF Chained, Tiling
<1>8. Tiling(g)
  BY <1>5, <1>6, <1>7 DEF Tiling
<1> QED
  BY <1>3, <1>4, <1>8 DEF Chained

-----------------------------------------------------------------------------
(* The operations of the heap.                                             *)

\* The inductive invariant: types and tiling, which need each other.
Inv == TypeOK /\ Tiled

\* Inv in terms of Chained.
LEMMA InvChained == Inv <=> Chained(sizeOf) /\ free \subseteq Blocks /\ halted \in BOOLEAN
  BY DEF Inv, TypeOK, Tiled, Chained, Blocks

\* kheap_alloc, splitting: what becomes of the blocks.
LEMMA SplitEffect ==
    ASSUME Inv, NEW sz \in Sizes, NEW b \in Fits(sz), AllocSplit(sz, b)
    PROVE  /\ Inv'
           /\ Blocks' \ free' = (Blocks \ free) \cup {b}
           /\ sizeOf'[b] = sz
           /\ \A c \in Blocks \ free : sizeOf'[c] = sizeOf[c]
<1>1. b \in free /\ b \in DOMAIN sizeOf /\ sz \in Nat /\ Chained(sizeOf)
  BY ChainAssumption, InvChained DEF Fits, Blocks
<1>2. sizeOf[b] \in Nat
  BY <1>1, BlockFacts
<1>3. sz + 20 <= sizeOf[b]
  BY <1>1, <1>2 DEF AllocSplit, BLCK_OVERHEAD, MIN_ALLOC_SZ
<1>4. sizeOf' = Cut(sizeOf, b, sz) /\ free' = (free \ {b}) \cup {b + sz + 20} /\ halted' = halted
  BY DEF AllocSplit, BLCK_OVERHEAD
<1>5. Chained(sizeOf')
  BY <1>1, <1>3, <1>4, CutChained
<1>6. PICK s, new : s = b + sz + 20 /\ new = Cut(sizeOf, b, sz)
  OBVIOUS
<1>7. /\ s \notin DOMAIN sizeOf
      /\ DOMAIN sizeOf' = DOMAIN sizeOf \cup {s}
      /\ sizeOf'[b] = sz
      /\ \A c \in DOMAIN sizeOf \ {b} : sizeOf'[c] = sizeOf[c]
  <2>1. /\ s \notin DOMAIN sizeOf
        /\ DOMAIN new = DOMAIN sizeOf \cup {s}
        /\ new[b] = sz
        /\ \A c \in DOMAIN sizeOf \ {b} : new[c] = sizeOf[c]
    <3>1. Chained(sizeOf) /\ b \in DOMAIN sizeOf /\ sz \in Nat /\ sz + 20 <= sizeOf[b]
      BY <1>1, <1>3
    <3> QED
      BY ONLY <3>1, <1>6, CutFacts
  <2> QED
    BY <1>4, <1>6, <2>1
<1>8. free \subseteq Blocks /\ halted \in BOOLEAN
  BY InvChained
<1>9. free' = (free \ {b}) \cup {s}
  BY <1>4, <1>6
<1>10. free' \subseteq Blocks' /\ halted' \in BOOLEAN
  BY <1>1, <1>4, <1>7, <1>8, <1>9 DEF Blocks
<1>11. Inv'
  BY <1>5, <1>10 DEF Inv, TypeOK, Tiled, Chained, Blocks
<1> QED
  BY <1>1, <1>7, <1>8, <1>9, <1>11 DEF Blocks

\* kheap_alloc_a: the page lies between two free blocks.
LEMMA PageEffect ==
    ASSUME Inv, NEW sz \in PageSizes, NEW w \in Blocks, AllocPage(sz, w)
    PROVE  \E r \in Blocks' :
             /\ Inv'
             /\ r \notin Blocks
             /\ Blocks' \ free' = (Blocks \ free) \cup {r}
             /\ sizeOf'[r] = sz
             /\ \A c \in Blocks \ free : sizeOf'[c] = sizeOf[c]
<1>1. w \in free /\ w \in DOMAIN sizeOf /\ sz \in Nat /\ Chained(sizeOf)
  BY ChainAssumption, InvChained DEF AllocPage, RoomForPage, Blocks
<1>2. sizeOf[w] \in Nat /\ w \in Nat
  BY <1>1, BlockFacts
<1>3. PICK lead : lead = Lead(w)
  OBVIOUS
<1>4. lead \in Nat
  <2>1. lead \in Int
    BY <1>2, <1>3 DEF Lead, Extra, BLCK_OVERHEAD, PG_SZ
  <2> QED
    BY <1>3, <2>1 DEF AllocPage, RoomForPage
<1>5. lead + sz + 40 <= sizeOf[w]
  BY <1>1, <1>2, <1>3, <1>4 DEF AllocPage, RoomForPage, BLCK_OVERHEAD
<1>6. PICK r : r = w + lead + 20
  OBVIOUS
<1>7. PICK g : g = Cut(sizeOf, w, lead)
  OBVIOUS
<1>8. lead + 20 <= sizeOf[w]
  BY <1>1, <1>2, <1>4, <1>5
<1>9. /\ r \in Nat /\ r \notin DOMAIN sizeOf
      /\ DOMAIN g = DOMAIN sizeOf \cup {r}
      /\ g[w] = lead /\ g[r] = sizeOf[w] - lead - 20
      /\ \A c \in DOMAIN sizeOf \ {w} : g[c] = sizeOf[c]
  BY <1>1, <1>4, <1>6, <1>7, <1>8, CutFacts
<1>10. Chained(g)
  BY <1>1, <1>4, <1>7, <1>8, CutChained
<1>11. sz + 20 <= g[r] /\ r \in DOMAIN g
  BY <1>1, <1>2, <1>4, <1>5, <1>9
<1>12. PICK n, new : n = r + sz + 20 /\ new = Cut(g, r, sz)
  OBVIOUS
<1>13. sizeOf' = Cut(g, r, sz) /\ free' = free \cup {n} /\ halted' = halted
  BY <1>3, <1>6, <1>7, <1>12 DEF AllocPage, BLCK_OVERHEAD
<1>14. /\ n \notin DOMAIN g
       /\ DOMAIN sizeOf' = DOMAIN g \cup {n}
       /\ sizeOf'[r] = sz
       /\ \A c \in DOMAIN g \ {r} : sizeOf'[c] = g[c]
  <2>1. /\ n \notin DOMAIN g
        /\ DOMAIN new = DOMAIN g \cup {n}
        /\ new[r] = sz
        /\ \A c \in DOMAIN g \ {r} : new[c] = g[c]
    <3>1. PICK k \in Nat : k = sz
      BY <1>1
    <3>2. Chained(g)
      BY <1>10
    <3>3. r \in DOMAIN g
      BY <1>11
    <3>5. k + 20 <= g[r]
      BY <1>11, <3>1
    <3>6. n = r + k + 20
      BY <1>12, <3>1
    <3>7. new = Cut(g, r, k)
      BY <1>12, <3>1
    <3>4. /\ n \notin DOMAIN g
          /\ DOMAIN new = DOMAIN g \cup {n}
          /\ new[r] = k
          /\ \A c \in DOMAIN g \ {r} : new[c] = g[c]
      BY ONLY <3>2, <3>3, <3>5, <3>6, <3>7, k \in Nat, CutFacts
    <3> QED
      BY <3>1, <3>4
  <2> QED
    BY <1>12, <1>13, <2>1
<1>15. Chained(sizeOf')
  BY <1>1, <1>10, <1>11, <1>13, CutChained
<1>16. free \subseteq Blocks /\ halted \in BOOLEAN
  BY InvChained
<1>17. free' \subseteq Blocks' /\ halted' \in BOOLEAN
  BY <1>9, <1>13, <1>14, <1>16 DEF Blocks
<1>18. Inv'
  BY <1>15, <1>17 DEF Inv, TypeOK, Tiled, Chained, Blocks
<1>19. Blocks' \ free' = (Blocks \ free) \cup {r}
  BY <1>1, <1>9, <1>13, <1>14, <1>16 DEF Blocks
<1>20. \A c \in Blocks \ free : sizeOf'[c] = sizeOf[c]
  BY <1>1, <1>9, <1>14 DEF Blocks
<1> QED
  BY <1>9, <1>14, <1>18, <1>19, <1>20 DEF Blocks

\* kheap_free: the block leaves the callers' hands and no other one moves.
LEMMA FreeEffect ==
    ASSUME Inv, NEW b \in Blocks \ {Start}, NEW p \in Blocks, FreeOther(b, p)
    PROVE  /\ Inv'
           /\ Blocks' \ free' = (Blocks \ free) \ {b}
           /\ \A c \in (Blocks \ free) \ {b} : sizeOf'[c] = sizeOf[c]
<1>1. /\ Chained(sizeOf) /\ free \subseteq Blocks /\ halted \in BOOLEAN
      /\ b \in DOMAIN sizeOf /\ p \in DOMAIN sizeOf /\ b \notin free
      /\ After(sizeOf, p) = b
  BY InvChained DEF FreeOther, Blocks
<1>2. PICK next : next = After(sizeOf, b)
  OBVIOUS
<1>3. PICK first : first = IF p \in free THEN p ELSE b
  OBVIOUS
<1>4. PICK f1 : f1 = IF p \in free THEN Join(sizeOf, p) ELSE sizeOf
  OBVIOUS
<1>5. /\ sizeOf' = IF next \in free THEN Join(f1, first) ELSE f1
      /\ free' = (free \ {next}) \cup {first} /\ halted' = halted
  BY <1>2, <1>3, <1>4 DEF FreeOther
<1>6. /\ Chained(f1)
      /\ first \in DOMAIN f1
      /\ After(f1, first) = next
      /\ DOMAIN f1 = DOMAIN sizeOf \ (IF p \in free THEN {b} ELSE {})
      /\ \A c \in DOMAIN f1 \ {first} : f1[c] = sizeOf[c]
  <2>1. CASE p \in free
    <3>2. /\ DOMAIN f1 = DOMAIN sizeOf \ {b}
          /\ \A c \in DOMAIN sizeOf \ {p, b} : f1[c] = sizeOf[c]
          /\ After(f1, p) = next
      BY <1>1, <1>2, <1>4, <2>1, JoinFacts
    <3>3. Chained(f1)
      BY <1>1, <1>4, <2>1, JoinChained
    <3>4. p # b
      BY <1>1, <2>1
    <3> QED
      BY <1>1, <1>3, <2>1, <3>2, <3>3, <3>4
  <2>2. CASE p \notin free
    BY <1>1, <1>2, <1>3, <1>4, <2>2
  <2> QED
    BY <2>1, <2>2
<1>7. next # b /\ next # first
  <2>1. /\ b \in Nat /\ sizeOf[b] \in Nat /\ next = b + sizeOf[b] + 20
        /\ p \in Nat /\ sizeOf[p] \in Nat /\ b = p + sizeOf[p] + 20
    BY <1>1, <1>2, BlockFacts
  <2> QED
    BY <1>3, <2>1
<1>8. /\ Chained(sizeOf')
      /\ DOMAIN sizeOf' = DOMAIN f1 \ (IF next \in free THEN {next} ELSE {})
      /\ \A c \in DOMAIN sizeOf' \ {first} : sizeOf'[c] = sizeOf[c]
  <2>1. CASE next \in free
    <3>1. next \in DOMAIN f1
      BY <1>1, <1>6, <1>7, <2>1 DEF Blocks
    <3>2. PICK new : new = Join(f1, first)
      OBVIOUS
    <3>3. /\ DOMAIN new = DOMAIN f1 \ {next}
          /\ \A c \in DOMAIN f1 \ {first, next} : new[c] = f1[c]
      BY <1>6, <3>1, <3>2, JoinFacts
    <3>4. sizeOf' = new
      BY <1>5, <2>1, <3>2
    <3>5. Chained(new)
      BY <1>6, <3>1, <3>2, JoinChained
    <3> QED
      BY <1>6, <2>1, <3>3, <3>4, <3>5
  <2>2. CASE next \notin free
    BY <1>5, <1>6, <2>2
  <2> QED
    BY <2>1, <2>2
<1>9. first \in Blocks' /\ free' \subseteq Blocks' /\ halted' \in BOOLEAN
  BY <1>1, <1>3, <1>5, <1>6, <1>7, <1>8 DEF Blocks
<1>10. Inv'
  BY <1>8, <1>9 DEF Inv, TypeOK, Tiled, Chained, Blocks
<1>11. Blocks' \ free' = (Blocks \ free) \ {b}
  BY <1>1, <1>3, <1>5, <1>6, <1>7, <1>8 DEF Blocks
<1>12. \A c \in (Blocks \ free) \ {b} : sizeOf'[c] = sizeOf[c]
  <2>1. \A c \in (Blocks \ free) \ {b} : c \in DOMAIN sizeOf' \ {first}
    BY <1>1, <1>3, <1>6, <1>8 DEF Blocks
  <2> QED
    BY <1>8, <2>1
<1> QED
  BY <1>10, <1>11, <1>12

-----------------------------------------------------------------------------
(* Every step in the callers' terms.                                       *)

\* The step gives block r, of at least sz bytes, to a caller.
Granted(r, sz) ==
    /\ Inv' /\ ~ halted /\ halted' = halted
    /\ r \notin Blocks \ free
    /\ Blocks' \ free' = (Blocks \ free) \cup {r}
    /\ sizeOf'[r] >= sz
    /\ \A c \in Blocks \ free : sizeOf'[c] = sizeOf[c]

\* The step takes block b back from its caller.
Released(b) ==
    /\ Inv' /\ ~ halted /\ halted' = halted
    /\ b \in Blocks \ free
    /\ Blocks' \ free' = (Blocks \ free) \ {b}
    /\ \A c \in (Blocks \ free) \ {b} : sizeOf'[c] = sizeOf[c]

\* The actions of Next are allocations, releases and the stop.
LEMMA StepCases ==
    ASSUME Inv, Next
    PROVE  \/ \E sz \in Sizes \cup PageSizes : \E r : Granted(r, sz)
           \/ \E b : Released(b)
           \/ Inv' /\ halted' = TRUE /\ UNCHANGED <<sizeOf, free>>
<1>1. ASSUME NEW sz \in Sizes, NEW b \in Fits(sz), AllocSplit(sz, b)
      PROVE  Granted(b, sz)
  <2>1. b \in free /\ sz \in Nat
    BY <1>1, ChainAssumption DEF Fits
  <2>2. ~ halted /\ halted' = halted
    BY <1>1 DEF AllocSplit
  <2>3. /\ Inv'
        /\ Blocks' \ free' = (Blocks \ free) \cup {b}
        /\ sizeOf'[b] = sz
        /\ \A c \in Blocks \ free : sizeOf'[c] = sizeOf[c]
    BY <1>1, SplitEffect
  <2> QED
    BY <2>1, <2>2, <2>3 DEF Granted
<1>2. ASSUME NEW sz \in Sizes, NEW b \in Fits(sz), AllocWhole(sz, b)
      PROVE  Granted(b, sz)
  <2>1. b \in free /\ sizeOf[b] >= sz /\ free \subseteq Blocks
    BY <1>2, InvChained DEF Fits
  <2>2. ~ halted /\ halted' = halted /\ sizeOf' = sizeOf /\ free' = free \ {b}
    BY <1>2 DEF AllocWhole
  <2>3. Inv'
    BY <2>1, <2>2 DEF Inv, TypeOK, Tiled, Tiling, After, Blocks
  <2> QED
    BY <2>1, <2>2, <2>3 DEF Granted, Blocks
<1>3. ASSUME NEW sz \in PageSizes, NEW w \in Blocks, AllocPage(sz, w)
      PROVE  \E r : Granted(r, sz)
  <2>1. sz \in Nat
    BY <1>3, ChainAssumption
  <2>2. ~ halted /\ halted' = halted
    BY <1>3 DEF AllocPage
  <2>3. PICK r : /\ Inv'
                 /\ r \notin Blocks
                 /\ Blocks' \ free' = (Blocks \ free) \cup {r}
                 /\ sizeOf'[r] = sz
                 /\ \A c \in Blocks \ free : sizeOf'[c] = sizeOf[c]
    BY <1>3, PageEffect
  <2>4. Granted(r, sz)
    BY <2>1, <2>2, <2>3 DEF Granted
  <2> QED
    BY <2>4
<1>4. ASSUME NEW sz \in Sizes, AllocFails(sz)
      PROVE  Inv' /\ halted' = TRUE /\ UNCHANGED <<sizeOf, free>>
  <2>1. halted' = TRUE /\ sizeOf' = sizeOf /\ free' = free
    BY <1>4 DEF AllocFails
  <2> QED
    BY <2>1 DEF Inv, TypeOK, Tiled, Tiling, After, Blocks
<1>5. ASSUME FreeFirst
      PROVE  Released(Start)
  <2>1. /\ ~ halted /\ halted' = halted /\ sizeOf' = sizeOf
        /\ Start \in Blocks \ free /\ free' = free \cup {Start}
    BY <1>5 DEF FreeFirst
  <2>2. Inv'
    BY <2>1 DEF Inv, TypeOK, Tiled, Tiling, After, Blocks
  <2> QED
    BY <2>1, <2>2 DEF Released, Blocks
<1>6. ASSUME NEW b \in Blocks \ {Start}, NEW p \in Blocks, FreeOther(b, p)
      PROVE  Released(b)
  <2>1. ~ halted /\ halted' = halted /\ b \in Blocks \ free
    BY <1>6 DEF FreeOther
  <2>2. /\ Inv'
        /\ Blocks' \ free' = (Blocks \ free) \ {b}
        /\ \A c \in (Blocks \ free) \ {b} : sizeOf'[c] = sizeOf[c]
    BY <1>6, FreeEffect
  <2> QED
    BY <2>1, <2>2 DEF Released
<1> QED
  BY <1>1, <1>2, <1>3, <1>4, <1>5, <1>6 DEF Next

\* Init establishes the invariant.
LEMMA InitInv == Init => Inv
<1> SUFFICES ASSUME Init PROVE Inv
  OBVIOUS
<1> USE ChainAssumption DEF BLCK_OVERHEAD
<1>1. /\ DOMAIN sizeOf = {Start} /\ sizeOf[Start] = End - Start - 20
      /\ sizeOf = [c \in DOMAIN sizeOf |-> sizeOf[c]]
      /\ free = {Start} /\ halted = FALSE
  BY DEF Init
<1>2. End - Start - 20 \in Nat
  OBVIOUS
<1>3. sizeOf[Start] \in Nat /\ After(sizeOf, Start) = End
  BY <1>1, <1>2 DEF After
<1>4. TypeOK
  <2>1. sizeOf \in [DOMAIN sizeOf -> Nat]
    BY ONLY <1>1, <1>3
  <2>2. DOMAIN sizeOf \subseteq Start .. End - 1 /\ free \subseteq DOMAIN sizeOf
    BY <1>1
  <2> QED
    BY <1>1, <2>1, <2>2 DEF TypeOK, Blocks
<1>5. Tiled
  BY <1>1, <1>3 DEF Tiled, Tiling
<1> QED
  BY <1>4, <1>5 DEF Inv

\* Every step keeps the invariant.
LEMMA NextInv == Inv /\ [Next]_vars => Inv'
<1> SUFFICES ASSUME Inv, [Next]_vars PROVE Inv'
  OBVIOUS
<1>1. CASE Next
  BY <1>1, StepCases DEF Granted, Released
<1>2. CASE UNCHANGED vars
  BY <1>2 DEF vars, Inv, TypeOK, Tiled, Tiling, After, Blocks
<1> QED
  BY <1>1, <1>2

\* kheap.c never loses track of where its blocks are: sizes are never
\* negative, every block lies in the heap, and free blocks are blocks.
THEOREM TypeCorrect == Spec => []TypeOK
<1>1. Inv => TypeOK
  BY DEF Inv
<1> QED
  BY InitInv, NextInv, <1>1, PTL DEF Spec

\* Any sequence of splits, page requests and coalescing frees leaves the heap
\* without gaps and without overlapping blocks.
THEOREM TilingCorrect == Spec => []Tiled
<1>1. Inv => Tiled
  BY DEF Inv
<1> QED
  BY InitInv, NextInv, <1>1, PTL DEF Spec

-----------------------------------------------------------------------------
(* The chain implements HeapSpec.                                          *)

\* Callers' ranges are apart, and in the heap, because the blocks are.
LEMMA RangesApart ==
    ASSUME NEW f, Chained(f), NEW b \in DOMAIN f, NEW c \in DOMAIN f, b # c
    PROVE  /\ Heap!Apart(b + 8, f[b] + 8, c + 8, f[c] + 8)
           /\ Start <= b + 8 /\ b + 8 + (f[b] + 8) <= End
<1>1. /\ b \in Nat /\ Start <= b /\ f[b] \in Nat
      /\ After(f, b) = b + f[b] + 20 /\ After(f, b) <= End
  BY BlockFacts
<1>2. c \in Nat /\ f[c] \in Nat /\ After(f, c) = c + f[c] + 20
  BY BlockFacts
<1>3. (c <= b \/ After(f, b) <= c) /\ (b <= c \/ After(f, c) <= b)
  BY NoneInside
<1> QED
  BY <1>1, <1>2, <1>3, ChainAssumption DEF Heap!Apart

\* The refinement mapping: what the callers hold.
Owned == [a \in Live |-> sizeOf[a - OFFSET] + 8]

\* The same for any map f and any set of held blocks.
OwnedBy(f, held) == [a \in {b + OFFSET : b \in held} |-> f[a - OFFSET] + 8]

\* Owned, block by block, for the map f and the held blocks of any state.
LEMMA OwnedFacts ==
    ASSUME NEW f, Chained(f), NEW held, held \subseteq DOMAIN f, NEW m,
           m = OwnedBy(f, held)
    PROVE  /\ DOMAIN m = {b + 8 : b \in held}
           /\ m = [a \in DOMAIN m |-> m[a]]
           /\ \A b \in held : b \in Nat /\ m[b + 8] = f[b] + 8
<1>1. DOMAIN m = {b + 8 : b \in held} /\ m = [a \in DOMAIN m |-> m[a]]
  BY DEF OwnedBy, OFFSET
<1>2. ASSUME NEW b \in held
      PROVE  b \in Nat /\ m[b + 8] = f[b] + 8
  <2>1. b \in Nat
    BY BlockFacts
  <2>2. b + 8 \in {c + OFFSET : c \in held} /\ (b + 8) - OFFSET = b
    BY <2>1 DEF OFFSET
  <2> QED
    BY <2>1, <2>2 DEF OwnedBy
<1> QED
  BY <1>1, <1>2

\* A grant is an Alloc of HeapSpec.
LEMMA GrantIsAlloc ==
    ASSUME Inv, NEW sz \in Sizes \cup PageSizes, NEW r, Granted(r, sz)
    PROVE  Heap!Alloc(sz)
<1>1. PICK old : old = Owned
  OBVIOUS
<1>2. PICK new : new = Owned'
  OBVIOUS
<1>3. PICK g : g = sizeOf'
  OBVIOUS
<1>4. PICK held : held = Blocks \ free
  OBVIOUS
<1>5. /\ Chained(g) /\ r \in DOMAIN g /\ held \subseteq DOMAIN g /\ r \notin held
      /\ Blocks' \ free' = held \cup {r}
      /\ g[r] >= sz
      /\ \A c \in held : g[c] = sizeOf[c]
  <2>1. Chained(g)
    BY <1>3 DEF Granted, Inv, TypeOK, Tiled, Chained, Blocks
  <2>2. Blocks' \ free' = held \cup {r} /\ Blocks' = DOMAIN g /\ r \notin held
    BY <1>3, <1>4 DEF Granted, Blocks
  <2>3. r \in DOMAIN g /\ held \subseteq DOMAIN g
    BY <2>2
  <2>4. g[r] >= sz /\ \A c \in held : g[c] = sizeOf[c]
    BY <1>3, <1>4 DEF Granted
  <2> QED
    BY <2>1, <2>2, <2>3, <2>4
<1>6. /\ DOMAIN old = {b + 8 : b \in held}
      /\ \A b \in held : b \in Nat /\ old[b + 8] = sizeOf[b] + 8
      /\ \A a \in DOMAIN old : \E b \in held : a = b + 8
  <2>1. Chained(sizeOf) /\ held \subseteq DOMAIN sizeOf
    BY <1>3, <1>4, InvChained DEF Blocks
  <2>2. old = OwnedBy(sizeOf, held)
    BY <1>1, <1>3, <1>4 DEF Owned, OwnedBy, Live
  <2>3. /\ DOMAIN old = {b + 8 : b \in held}
        /\ \A b \in held : b \in Nat /\ old[b + 8] = sizeOf[b] + 8
    BY <2>1, <2>2, OwnedFacts
  <2> QED
    BY ONLY <2>3
<1>7. /\ DOMAIN new = {b + 8 : b \in held \cup {r}}
      /\ \A b \in held \cup {r} : b \in Nat /\ new[b + 8] = g[b] + 8
  <2>1. PICK all : all = held \cup {r}
    OBVIOUS
  <2>2. new = OwnedBy(g, all)
    BY <1>2, <1>3, <1>5, <2>1 DEF Owned, OwnedBy, Live
  <2>3. all \subseteq DOMAIN g
    BY <1>5, <2>1
  <2> QED
    BY <1>5, <2>1, <2>2, <2>3, OwnedFacts
<1>8. PICK a : a = r + 8
  OBVIOUS
<1>9. a \in DOMAIN new /\ a \notin DOMAIN old /\ DOMAIN new = DOMAIN old \cup {a}
  BY <1>5, <1>6, <1>7, <1>8
<1>10. new = [b \in DOMAIN old \cup {a} |-> IF b = a THEN new[a] ELSE old[b]]
  <2>1. \A b \in DOMAIN old : new[b] = old[b]
    BY <1>5, <1>6, <1>7
  <2>2. new = [b \in DOMAIN new |-> new[b]]
    BY <1>2 DEF Owned
  <2> QED
    BY <1>9, <2>1, <2>2
<1>11. new[a] = g[r] + 8 /\ g[r] \in Nat /\ r \in Nat
  BY <1>5, <1>7, <1>8, BlockFacts
<1>12. new[a] >= sz
  BY <1>5, <1>11, ChainAssumption
<1>13. Start <= a /\ a + new[a] <= End
  <2>1. r + g[r] + 20 <= End /\ Start <= r
    BY <1>5, BlockFacts
  <2> QED
    BY <1>8, <1>11, <2>1, ChainAssumption
<1>14. ASSUME NEW c \in DOMAIN old
       PROVE  Heap!Apart(a, new[a], c, old[c])
  <2>1. PICK b \in held : c = b + 8
    BY <1>6, <1>14
  <2>2. Heap!Apart(r + 8, g[r] + 8, b + 8, g[b] + 8)
    BY <1>5, <2>1, RangesApart
  <2>3. old[c] = g[b] + 8
    BY <1>5, <1>6, <2>1
  <2> QED
    BY <1>8, <1>11, <2>1, <2>2, <2>3
<1>15. ~ halted /\ halted' = halted
  BY DEF Granted
<1> QED
  BY <1>1, <1>2, <1>9, <1>10, <1>12, <1>13, <1>14, <1>15 DEF Heap!Alloc, Owned

\* A release is a Free of HeapSpec.
LEMMA ReleaseIsFree ==
    ASSUME Inv, NEW b, Released(b)
    PROVE  Heap!Next
<1>1. PICK old : old = Owned
  OBVIOUS
<1>2. PICK new : new = Owned'
  OBVIOUS
<1>3. PICK held : held = Blocks \ free
  OBVIOUS
<1>4. /\ b \in held /\ ~ halted /\ halted' = halted
      /\ Blocks' \ free' = held \ {b}
      /\ \A c \in held \ {b} : sizeOf'[c] = sizeOf[c]
  BY <1>3 DEF Released
<1>5. /\ DOMAIN old = {c + 8 : c \in held}
      /\ \A c \in held : c \in Nat /\ old[c + 8] = sizeOf[c] + 8
  <2>1. Chained(sizeOf) /\ held \subseteq DOMAIN sizeOf
    BY <1>3, InvChained DEF Blocks
  <2>2. old = OwnedBy(sizeOf, held)
    BY <1>1, <1>3 DEF Owned, OwnedBy, Live
  <2> QED
    BY <2>1, <2>2, OwnedFacts
<1>6. /\ DOMAIN new = {c + 8 : c \in held \ {b}}
      /\ \A c \in held \ {b} : c \in Nat /\ new[c + 8] = sizeOf'[c] + 8
  <2>1. PICK g, rest : g = sizeOf' /\ rest = held \ {b}
    OBVIOUS
  <2>2. Chained(g)
    BY <2>1 DEF Released, Inv, TypeOK, Tiled, Chained, Blocks
  <2>3. new = OwnedBy(g, rest)
    BY <1>2, <1>4, <2>1 DEF Owned, OwnedBy, Live
  <2>4. rest \subseteq DOMAIN g
    BY <1>4, <2>1 DEF Blocks
  <2>5. /\ DOMAIN new = {c + 8 : c \in rest}
        /\ \A c \in rest : c \in Nat /\ new[c + 8] = g[c] + 8
    BY <2>2, <2>3, <2>4, OwnedFacts
  <2> QED
    BY <2>1, <2>5
<1>7. PICK a : a = b + 8
  OBVIOUS
<1>8. a \in DOMAIN old /\ DOMAIN new = DOMAIN old \ {a}
  BY <1>4, <1>5, <1>6, <1>7
<1>9. new = [c \in DOMAIN old \ {a} |-> old[c]]
  <2>1. \A c \in DOMAIN new : new[c] = old[c]
    BY <1>4, <1>5, <1>6
  <2>2. new = [c \in DOMAIN new |-> new[c]]
    BY <1>2 DEF Owned
  <2> QED
    BY <1>8, <2>1, <2>2
<1> QED
  BY <1>1, <1>2, <1>4, <1>8, <1>9 DEF Heap!Next, Heap!Free, Owned

\* Splitting, page requests and coalescing implement what callers rely on: an
\* address owns its range alone, unmoved, from kheap_alloc to kheap_free.
THEOREM HeapRefinement == Spec => HeapContract
<1>1. Init => Heap!Init
  <2> SUFFICES ASSUME Init PROVE Heap!Init
    OBVIOUS
  <2>1. Blocks \ free = {} /\ halted = FALSE
    BY DEF Init, Blocks
  <2>2. Live = {}
    BY <2>1 DEF Live
  <2> QED
    BY <2>1, <2>2 DEF Heap!Init
<1>2. Inv /\ [Next]_vars => [Heap!Next]_(Heap!vars)
  <2> SUFFICES ASSUME Inv, [Next]_vars PROVE [Heap!Next]_(Heap!vars)
    OBVIOUS
  <2>1. CASE \E sz \in Sizes \cup PageSizes : \E r : Granted(r, sz)
    <3>1. PICK sz \in Sizes \cup PageSizes : \E r : Granted(r, sz)
      BY <2>1
    <3>2. Heap!Alloc(sz)
      BY <3>1, GrantIsAlloc
    <3> QED
      BY <3>1, <3>2 DEF Heap!Next
  <2>2. CASE \E b : Released(b)
    BY <2>2, ReleaseIsFree
  <2>3. CASE halted' = TRUE /\ UNCHANGED <<sizeOf, free>>
    BY <2>3 DEF Heap!Next, Heap!Stop, Live, Blocks
  <2>4. CASE UNCHANGED vars
    BY <2>4 DEF vars, Heap!vars, Live, Blocks
  <2> QED
    BY <2>1, <2>2, <2>3, <2>4, StepCases
<1> QED
  BY InitInv, NextInv, <1>1, <1>2, PTL DEF Spec, HeapContract, Heap!Spec
=============================================================================
