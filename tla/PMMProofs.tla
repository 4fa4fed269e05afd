----------------------------- MODULE PMMProofs ------------------------------
(***************************************************************************)
(* Proofs about PMM for every amount of memory, every memory map and every *)
(* content of uninitialised RAM: the bit set's operators against the set   *)
(* of indices they stand for, type correctness, exclusive ownership of     *)
(* frames, protection of reserved regions and refinement of FramePool.     *)
(***************************************************************************)
EXTENDS PMM, WellFoundedInduction, TLAPS

\* A nonempty set of naturals has a least element.
LEMMA MinExists ==
    ASSUME NEW S \in SUBSET Nat, S # {}
    PROVE  \E i \in S : \A j \in S : i <= j
<1> DEFINE R == OpToRel(<, Nat)
<1>1. IsWellFoundedOn(R, Nat)
  BY NatLessThanWellFounded
<1> HIDE DEF R
<1>2. PICK i \in S : \A j \in S : ~ (<<j, i>> \in R)
  BY <1>1, WFMin
<1>3. \A j \in S : ~ (j < i)
  BY <1>2 DEF R, OpToRel
<1>4. \A j \in S : i <= j
  BY <1>3
<1> QED
  BY <1>4

-----------------------------------------------------------------------------
(* The bit set.                                                            *)

\* An index of the set is a word index and an offset.
LEMMA IndexSplit ==
    ASSUME NEW n \in Nat, NEW i \in 0 .. (n * 32) - 1
    PROVE  /\ i \div 32 \in 0 .. n - 1
           /\ i % 32 \in 0 .. 31
           /\ i = 32 * (i \div 32) + (i % 32)
  OBVIOUS

\* Two indices with the same word and offset are the same index.
LEMMA IndexInjective ==
    ASSUME NEW i \in Nat, NEW j \in Nat,
           i \div 32 = j \div 32, i % 32 = j % 32
    PROVE  i = j
  OBVIOUS

\* bs_get_size is the number of words times 32.
LEMMA SizeOf ==
    ASSUME NEW n \in Nat, NEW bs \in BitSetsOf(n)
    PROVE  bs_get_size(bs) = n * 32 /\ bs_get_size(bs) \in Nat
  BY DEF BitSetsOf, bs_get_size, WordBits

\* bs_set keeps the shape of the bit set.
LEMMA SetType ==
    ASSUME NEW n \in Nat, NEW bs \in BitSetsOf(n), NEW idx \in Nat
    PROVE  bs_set(bs, idx) \in BitSetsOf(n)
<1>1. CASE idx < n * 32
  <2>1. idx \div 32 \in 0 .. n - 1 /\ idx % 32 \in 0 .. 31
    BY <1>1, IndexSplit
  <2>2. idx % 32 \in Offsets
    BY <2>1 DEF Offsets, WordBits
  <2>3. bs.bits[idx \div 32] \in SUBSET Offsets
    BY <2>1 DEF BitSetsOf
  <2>4. bs.bits[idx \div 32] \cup {idx % 32} \in SUBSET Offsets
    BY <2>2, <2>3
  <2> QED
    BY <1>1, <2>1, <2>4, SizeOf DEF bs_set, BitSetsOf, WordBits
<1>2. CASE ~ (idx < n * 32)
  BY <1>2, SizeOf DEF bs_set
<1> QED
  BY <1>1, <1>2

\* bs_clr keeps the shape of the bit set.
LEMMA ClrType ==
    ASSUME NEW n \in Nat, NEW bs \in BitSetsOf(n), NEW idx \in Nat
    PROVE  bs_clr(bs, idx) \in BitSetsOf(n)
<1>1. CASE idx < n * 32
  <2>1. idx \div 32 \in 0 .. n - 1 /\ idx % 32 \in 0 .. 31
    BY <1>1, IndexSplit
  <2> QED
    BY <1>1, <2>1, SizeOf DEF bs_clr, BitSetsOf, Offsets, WordBits
<1>2. CASE ~ (idx < n * 32)
  BY <1>2, SizeOf DEF bs_clr
<1> QED
  BY <1>1, <1>2

\* Membership, spelled out on words and offsets.
LEMMA MembersDef ==
    ASSUME NEW n \in Nat, NEW bs \in BitSetsOf(n), NEW i
    PROVE  i \in Members(bs) <=>
             /\ i \in 0 .. (n * 32) - 1
             /\ i % 32 \in bs.bits[i \div 32]
<1>1. bs_get_size(bs) = n * 32
  BY SizeOf
<1> QED
  BY <1>1 DEF Members, bs_tst, WordBits

\* bs_set adds its index, and only its index, to the set; an index out of
\* range changes nothing.
LEMMA SetMembers ==
    ASSUME NEW n \in Nat, NEW bs \in BitSetsOf(n), NEW idx \in Nat
    PROVE  Members(bs_set(bs, idx)) =
             Members(bs) \cup (IF idx < n * 32 THEN {idx} ELSE {})
<1>1. CASE idx < n * 32
  <2>1. idx \in 0 .. (n * 32) - 1
    BY <1>1
  <2>2. idx \div 32 \in 0 .. n - 1 /\ idx % 32 \in 0 .. 31
    BY <2>1, IndexSplit
  <2>3. bs_set(bs, idx) \in BitSetsOf(n)
    BY SetType
  <2>4. ASSUME NEW i \in 0 .. (n * 32) - 1
        PROVE  (i % 32 \in bs_set(bs, idx).bits[i \div 32])
                 <=> (i % 32 \in bs.bits[i \div 32] \/ i = idx)
    <3>1. i \div 32 \in 0 .. n - 1
      BY IndexSplit
    <3>2. bs_set(bs, idx).bits[i \div 32] =
            IF i \div 32 = idx \div 32
            THEN bs.bits[i \div 32] \cup {idx % 32}
            ELSE bs.bits[i \div 32]
      BY <1>1, <2>2, <3>1, SizeOf DEF bs_set, BitSetsOf, WordBits
    <3>3. i \div 32 = idx \div 32 /\ i % 32 = idx % 32 => i = idx
      BY IndexInjective
    <3> QED
      BY <3>2, <3>3
  <2> QED
    BY <1>1, <2>1, <2>3, <2>4, MembersDef
<1>2. CASE ~ (idx < n * 32)
  BY <1>2, SizeOf DEF bs_set
<1> QED
  BY <1>1, <1>2

\* bs_clr removes its index, and only its index, from the set.
LEMMA ClrMembers ==
    ASSUME NEW n \in Nat, NEW bs \in BitSetsOf(n), NEW idx \in Nat
    PROVE  Members(bs_clr(bs, idx)) = Members(bs) \ {idx}
<1>1. CASE idx < n * 32
  <2>1. idx \in 0 .. (n * 32) - 1
    BY <1>1
  <2>2. idx \div 32 \in 0 .. n - 1 /\ idx % 32 \in 0 .. 31
    BY <2>1, IndexSplit
  <2>3. bs_clr(bs, idx) \in BitSetsOf(n)
    BY ClrType
  <2>4. ASSUME NEW i \in 0 .. (n * 32) - 1
        PROVE  (i % 32 \in bs_clr(bs, idx).bits[i \div 32])
                 <=> (i % 32 \in bs.bits[i \div 32] /\ i # idx)
    <3>1. i \div 32 \in 0 .. n - 1
      BY IndexSplit
    <3>2. bs_clr(bs, idx).bits[i \div 32] =
            IF i \div 32 = idx \div 32
            THEN bs.bits[i \div 32] \ {idx % 32}
            ELSE bs.bits[i \div 32]
      BY <1>1, <2>2, <3>1, SizeOf DEF bs_clr, BitSetsOf, WordBits
    <3>3. i \div 32 = idx \div 32 /\ i % 32 = idx % 32 => i = idx
      BY IndexInjective
    <3> QED
      BY <3>2, <3>3
  <2> QED
    BY <1>1, <2>1, <2>3, <2>4, MembersDef
<1>2. CASE ~ (idx < n * 32)
  <2>1. idx \notin Members(bs)
    BY <1>2, MembersDef
  <2> QED
    BY <1>2, <2>1, SizeOf DEF bs_clr
<1> QED
  BY <1>1, <1>2

\* bs_first_clr finds the least index that is not in the set, and returns the
\* size exactly when there is none.
LEMMA FirstClr ==
    ASSUME NEW n \in Nat, NEW bs \in BitSetsOf(n)
    PROVE  LET free == (0 .. (n * 32) - 1) \ Members(bs)
               f    == bs_first_clr(bs)
           IN  /\ BAD_RETURN(bs, f) <=> free = {}
               /\ free # {} => f \in free /\ \A g \in free : f <= g
<1> DEFINE free == (0 .. (n * 32) - 1) \ Members(bs)
           clear == {i \in 0 .. bs_get_size(bs) - 1 : ~ bs_tst(bs, i)}
<1>1. bs_get_size(bs) = n * 32
  BY SizeOf
<1>2. clear = free
  BY <1>1 DEF Members
<1>3. CASE free = {}
  BY <1>1, <1>2, <1>3 DEF bs_first_clr, BAD_RETURN
<1>4. CASE free # {}
  <2>1. free \in SUBSET Nat
    OBVIOUS
  <2>2. \E i \in free : \A j \in free : i <= j
    BY <1>4, <2>1, MinExists
  <2>3. bs_first_clr(bs) = CHOOSE i \in free : \A j \in free : i <= j
    BY <1>2, <1>4 DEF bs_first_clr
  <2>4. bs_first_clr(bs) \in free /\ \A g \in free : bs_first_clr(bs) <= g
    BY <2>2, <2>3
  <2>5. ~ BAD_RETURN(bs, bs_first_clr(bs))
    BY <1>1, <2>4 DEF BAD_RETURN
  <2> QED
    BY <1>4, <2>4, <2>5
<1> QED
  BY <1>3, <1>4

\* The bit set pmm_init allocates has a whole number of words.
LEMMA FrameCountType ==
    /\ PageFrames \in Nat
    /\ bs_words(PageFrames) \in Nat
    /\ FrameCount = bs_words(PageFrames) * 32
    /\ FrameCount \in Nat
<1>1. MemKB \in Nat
  BY PMMAssumption
<1>2. PageFrames \in Nat
  BY <1>1 DEF PageFrames
<1>3. bs_words(PageFrames) \in Nat
  BY <1>2 DEF bs_words, WordBits
<1> QED
  BY <1>2, <1>3 DEF FrameCount, WordBits

\* The loop of pmm_init adds to the set the marked frames that it covers.
LEMMA SetAllMembers ==
    ASSUME NEW n \in Nat, NEW bs \in BitSetsOf(n), NEW S
    PROVE  /\ bs_set_all(bs, S) \in BitSetsOf(n)
           /\ Members(bs_set_all(bs, S)) =
                Members(bs) \cup (S \cap (0 .. (n * 32) - 1))
<1> DEFINE new(w) == bs.bits[w] \cup {o \in Offsets : w * 32 + o \in S}
<1>1. bs_set_all(bs, S) = [bs EXCEPT !.bits = [w \in 0 .. n - 1 |-> new(w)]]
  BY DEF bs_set_all, BitSetsOf, WordBits
<1>2. \A w \in 0 .. n - 1 : new(w) \in SUBSET Offsets
  BY DEF BitSetsOf
<1>3. [w \in 0 .. n - 1 |-> new(w)] \in [0 .. n - 1 -> SUBSET Offsets]
  BY <1>2
<1>4. bs_set_all(bs, S) \in BitSetsOf(n)
  BY <1>1, <1>3 DEF BitSetsOf
<1>5. ASSUME NEW i \in 0 .. (n * 32) - 1
      PROVE  (i % 32 \in bs_set_all(bs, S).bits[i \div 32])
               <=> (i % 32 \in bs.bits[i \div 32] \/ i \in S)
  <2>1. i \div 32 \in 0 .. n - 1 /\ i % 32 \in 0 .. 31
    BY IndexSplit
  <2>2. i = (i \div 32) * 32 + (i % 32)
    BY IndexSplit
  <2>3. bs_set_all(bs, S).bits[i \div 32] = new(i \div 32)
    BY <1>1, <2>1 DEF BitSetsOf
  <2>4. i % 32 \in Offsets
    BY <2>1 DEF Offsets, WordBits
  <2> QED
    BY <2>2, <2>3, <2>4
<1> QED
  BY <1>4, <1>5, MembersDef

-----------------------------------------------------------------------------
(* Type correctness.                                                       *)

\* The bit set after each operation of the manager, and the set it stands
\* for, in terms of the set before.
LEMMA RunningFrames ==
    ASSUME TypeOK, Running
    PROVE  frames \in BitSetsOf(bs_words(PageFrames))
  BY DEF TypeOK, Running

\* get_frame takes the least clear frame.
LEMMA GetFrameEffect ==
    ASSUME NEW n \in Nat, NEW fs \in BitSetsOf(n), ~ OutOfFrames(fs)
    PROVE  /\ FrameIndex(fs) \in (0 .. (n * 32) - 1) \ Members(fs)
           /\ \A g \in (0 .. (n * 32) - 1) \ Members(fs) : FrameIndex(fs) <= g
           /\ get_frame(fs) \in BitSetsOf(n)
           /\ Members(get_frame(fs)) = Members(fs) \cup {FrameIndex(fs)}
<1> DEFINE i == FrameIndex(fs)
<1>1. /\ i \in (0 .. (n * 32) - 1) \ Members(fs)
      /\ \A g \in (0 .. (n * 32) - 1) \ Members(fs) : i <= g
  BY FirstClr DEF FrameIndex, OutOfFrames
<1> HIDE DEF i
<1>2. i \in Nat /\ i < n * 32 /\ (i * 4096) \div 4096 = i
  BY <1>1
<1>3. get_frame(fs) = bs_set(fs, i)
  BY <1>2 DEF get_frame, set_frame, PG_SZ, i
<1> QED
  BY <1>1, <1>2, <1>3, SetType, SetMembers DEF i

\* set_frame marks the frame of the address if the set has it.
LEMMA SetFrameEffect ==
    ASSUME NEW n \in Nat, NEW fs \in BitSetsOf(n), NEW addr \in Nat
    PROVE  /\ addr \div PG_SZ \in Nat
           /\ set_frame_ok(fs, addr) <=> addr \div PG_SZ \in 0 .. (n * 32) - 1
           /\ set_frame(fs, addr) \in BitSetsOf(n)
           /\ Members(set_frame(fs, addr)) =
                Members(fs) \cup (IF set_frame_ok(fs, addr)
                                  THEN {addr \div PG_SZ} ELSE {})
<1>1. addr \div PG_SZ \in Nat
  BY DEF PG_SZ
<1>2. set_frame_ok(fs, addr) <=> addr \div PG_SZ < n * 32
  BY SizeOf DEF set_frame_ok
<1> QED
  BY <1>1, <1>2, SetType, SetMembers DEF set_frame

\* The state pmm_init leaves: the marked frames, and whatever bits were 1 in
\* the memory it did not clear.
LEMMA PmmInitEffect ==
    ASSUME TypeOK, PmmInit
    PROVE  /\ frames' \in BitSetsOf(bs_words(PageFrames))
           /\ MarkedBy(mmap) \cap (0 .. FrameCount - 1) \subseteq Members(frames')
<1>1. bs_words(PageFrames) \in Nat /\ FrameCount = bs_words(PageFrames) * 32
  BY FrameCountType
<1>2. PICK ram \in [0 .. bs_words(PageFrames) - 1 -> RamWords] :
         frames' = bs_set_all(bs_init(PageFrames, ram), MarkedBy(mmap))
  BY DEF PmmInit
<1>3. bs_init(PageFrames, ram) \in BitSetsOf(bs_words(PageFrames))
  BY <1>2, PMMAssumption DEF bs_init, BitSetsOf
<1> QED
  BY <1>1, <1>2, <1>3, SetAllMembers

\* Every operation keeps the variables in their types.
LEMMA TypeStep == TypeOK /\ [Next]_vars => TypeOK'
<1> SUFFICES ASSUME TypeOK, [Next]_vars
             PROVE  TypeOK'
  OBVIOUS
<1> DEFINE n == bs_words(PageFrames)
<1> USE FrameCountType
<1>1. CASE PmmInit
  <2>1. frames' \in BitSetsOf(n)
    BY <1>1, PmmInitEffect
  <2> QED
    BY <1>1, <2>1 DEF PmmInit, TypeOK, Result, NoFrame
<1>2. CASE GetFrame
  <2>1. frames \in BitSetsOf(n)
    BY <1>2, RunningFrames DEF GetFrame
  <2>2. frames' \in BitSetsOf(n) /\ FrameIndex(frames) \in 0 .. FrameCount - 1
    BY <1>2, <2>1, GetFrameEffect DEF GetFrame
  <2> QED
    BY <1>2, <2>2 DEF GetFrame, TypeOK, Result, NoFrame, Running
<1>3. CASE GetFrameFails
  BY <1>3 DEF GetFrameFails, TypeOK, Result, NoFrame, Running
<1>4. ASSUME NEW addr \in Addrs, SetFrame(addr)
      PROVE  TypeOK'
  <2>1. addr \in Nat
    BY PMMAssumption
  <2>2. frames \in BitSetsOf(n)
    BY <1>4, RunningFrames DEF SetFrame
  <2>3. frames' \in BitSetsOf(n)
    BY <1>4, <2>1, <2>2, SetFrameEffect DEF SetFrame
  <2>4. last' \in [op : {"none", "boot", "take", "claim", "free"},
                    frame : {NoFrame} \cup 0 .. FrameCount - 1]
    BY <1>4, <2>1, <2>2, SetFrameEffect DEF SetFrame, Result
  <2>5. held' \subseteq 0 .. FrameCount - 1
    <3>1. ~ bs_tst(frames, addr \div PG_SZ) => addr \div PG_SZ \in 0 .. FrameCount - 1
      BY <2>1, <2>2, SizeOf DEF bs_tst, PG_SZ
    <3> QED
      BY <1>4, <3>1 DEF SetFrame, TypeOK
  <2> QED
    BY <1>4, <2>3, <2>4, <2>5 DEF SetFrame, TypeOK, Result, Running
<1>5. ASSUME NEW f \in held, FreeFrame(f)
      PROVE  TypeOK'
  <2>1. f \in Nat
    BY DEF TypeOK
  <2>2. frames \in BitSetsOf(n)
    BY <1>5, RunningFrames DEF FreeFrame
  <2>3. frames' \in BitSetsOf(n)
    BY <1>5, <2>1, <2>2, ClrType DEF FreeFrame, free_frame
  <2> QED
    BY <1>5, <2>3 DEF FreeFrame, TypeOK, Result, NoFrame, Running
<1>6. CASE UNCHANGED vars
  BY <1>6 DEF vars, TypeOK
<1> QED
  BY <1>1, <1>2, <1>3, <1>4, <1>5, <1>6 DEF Next

\* The variables of the manager keep their types, whatever the memory size,
\* the memory map and the previous content of RAM.
THEOREM TypeCorrect == Spec => []TypeOK
<1>1. Init => TypeOK
  <2>1. FrameCount \in Nat
    BY FrameCountType
  <2> QED
    BY <2>1 DEF Init, TypeOK, BitSetsOf, Result, NoFrame
<1> QED
  BY <1>1, TypeStep, PTL DEF Spec

-----------------------------------------------------------------------------
(* Ownership of frames.                                                    *)

\* The set of marked frames after each step, in terms of the set before.
LEMMA MembersStep ==
    ASSUME TypeOK
    PROVE  /\ GetFrame => /\ FrameIndex(frames) \notin Members(frames)
                          /\ Members(frames') = Members(frames) \cup {FrameIndex(frames)}
           /\ \A addr \in Addrs : SetFrame(addr) =>
                Members(frames') = Members(frames) \cup
                    (IF set_frame_ok(frames, addr) THEN {addr \div PG_SZ} ELSE {})
           /\ \A f \in held : FreeFrame(f) => Members(frames') = Members(frames) \ {f}
<1> DEFINE n == bs_words(PageFrames)
<1>1. n \in Nat /\ FrameCount = n * 32
  BY FrameCountType
<1> HIDE DEF n
<1>2. Running => frames \in BitSetsOf(n)
  BY RunningFrames DEF n
<1>3. ASSUME GetFrame
      PROVE  /\ FrameIndex(frames) \notin Members(frames)
             /\ Members(frames') = Members(frames) \cup {FrameIndex(frames)}
  BY <1>1, <1>2, <1>3, GetFrameEffect DEF GetFrame
<1>4. ASSUME NEW addr \in Addrs, SetFrame(addr)
      PROVE  Members(frames') = Members(frames) \cup
                 (IF set_frame_ok(frames, addr) THEN {addr \div PG_SZ} ELSE {})
  <2>1. addr \in Nat
    BY PMMAssumption
  <2> QED
    BY <1>1, <1>2, <1>4, <2>1, SetFrameEffect DEF SetFrame
<1>5. ASSUME NEW f \in held, FreeFrame(f)
      PROVE  Members(frames') = Members(frames) \ {f}
  <2>1. f \in Nat
    BY FrameCountType DEF TypeOK
  <2> QED
    BY <1>1, <1>2, <1>5, <2>1, ClrMembers DEF FreeFrame, free_frame
<1> QED
  BY <1>3, <1>4, <1>5

\* A claim gives a frame to the caller only if the frame was clear, and then
\* the frame is one that the bit set has.
LEMMA ClaimClear ==
    ASSUME TypeOK, Running, NEW addr \in Addrs, ~ bs_tst(frames, addr \div PG_SZ)
    PROVE  /\ set_frame_ok(frames, addr)
           /\ addr \div PG_SZ \notin Members(frames)
  BY DEF bs_tst, set_frame_ok, Members

\* Every operation keeps the frames that somebody holds marked.
LEMMA HeldStep == TypeOK /\ HeldAreMarked /\ [Next]_vars => HeldAreMarked'
<1> SUFFICES ASSUME TypeOK, HeldAreMarked, [Next]_vars
             PROVE  HeldAreMarked'
  OBVIOUS
<1>1. CASE PmmInit
  <2>1. Members(frames) = {}
    BY <1>1, MembersDef DEF PmmInit, TypeOK
  <2>2. held = {}
    BY <2>1 DEF HeldAreMarked
  <2> QED
    BY <1>1, <2>2 DEF PmmInit, HeldAreMarked
<1>2. CASE GetFrame
  BY <1>2, MembersStep DEF GetFrame, HeldAreMarked
<1>3. CASE GetFrameFails
  BY <1>3 DEF GetFrameFails, HeldAreMarked
<1>4. ASSUME NEW addr \in Addrs, SetFrame(addr)
      PROVE  HeldAreMarked'
  BY <1>4, MembersStep, ClaimClear DEF SetFrame, HeldAreMarked
<1>5. ASSUME NEW f \in held, FreeFrame(f)
      PROVE  HeldAreMarked'
  BY <1>5, MembersStep DEF FreeFrame, HeldAreMarked
<1>6. CASE UNCHANGED vars
  BY <1>6 DEF vars, HeldAreMarked
<1> QED
  BY <1>1, <1>2, <1>3, <1>4, <1>5, <1>6 DEF Next

\* A frame that somebody holds stays marked until that holder frees it.
THEOREM HeldMarked == Spec => []HeldAreMarked
<1>1. Init => HeldAreMarked
  BY DEF Init, HeldAreMarked
<1> QED
  BY <1>1, TypeCorrect, HeldStep, PTL DEF Spec

\* get_frame never grants a frame that is still held: a frame has at most
\* one holder.
THEOREM NoDoubleGrantCorrect == Spec => NoDoubleGrant
<1>1. ASSUME TypeOK, HeldAreMarked, [Next]_vars
      PROVE  [last'.op = "take" => last'.frame \notin held]_vars
  <2>1. CASE PmmInit
    BY <2>1 DEF PmmInit, Result
  <2>2. CASE GetFrame
    BY <1>1, <2>2, MembersStep DEF GetFrame, HeldAreMarked, Result
  <2>3. CASE GetFrameFails
    BY <1>1, <2>3, FrameCountType DEF GetFrameFails, TypeOK, Result, NoFrame
  <2>4. ASSUME NEW addr \in Addrs, SetFrame(addr)
        PROVE  last'.op # "take"
    BY <2>4 DEF SetFrame, Result
  <2>5. ASSUME NEW f \in held, FreeFrame(f)
        PROVE  last'.op # "take"
    BY <2>5 DEF FreeFrame, Result
  <2> QED
    BY <1>1, <2>1, <2>2, <2>3, <2>4, <2>5 DEF Next
<1> QED
  BY <1>1, TypeCorrect, HeldMarked, PTL DEF Spec, NoDoubleGrant

-----------------------------------------------------------------------------
(* Reserved memory.                                                        *)

\* A byte address is a frame and an offset.
LEMMA FrameAndOffset ==
    ASSUME NEW x \in Nat
    PROVE  \E b \in Nat, o \in Nat : /\ o < 4096
                                    /\ b = x \div 4096 /\ o = x % 4096
                                    /\ x = b * 4096 + o
<1>1. x \div 4096 \in Nat
  OBVIOUS
<1>2. x % 4096 \in Nat /\ x % 4096 < 4096
  OBVIOUS
<1>3. x = (x \div 4096) * 4096 + (x % 4096)
  OBVIOUS
<1>4. WITNESS x \div 4096 \in Nat, x % 4096 \in Nat
<1> QED
  BY <1>2, <1>3

\* An address below AddrSpace fits into a uint32_t.
LEMMA BelowModulus ==
    ASSUME NEW w \in Nat \ {0}, NEW x \in Nat, x < w
    PROVE  x % w = x
  OBVIOUS

\* The step of the loop that comes to frame f of a region of n bytes that
\* starts o bytes into frame b.
LEMMA StepToFrame ==
    ASSUME NEW f \in Nat, NEW b \in Nat, NEW o \in Nat, NEW n \in Nat, o < 4096,
           b * 4096 + o < (f + 1) * 4096, f * 4096 + o < b * 4096 + o + n
    PROVE  /\ f - b \in Nat /\ (f - b) * 4096 < n
           /\ b * 4096 + o + (f - b) * 4096 = f * 4096 + o
           /\ (f * 4096 + o) \div 4096 = f
           /\ \A c, s \in Nat : f < c /\ c * 4096 <= s => f * 4096 + o < s
<1>1. b <= f
  OBVIOUS
<1>2. f - b \in Nat /\ (f - b) * 4096 < n /\ b * 4096 + o + (f - b) * 4096 = f * 4096 + o
  BY <1>1
<1>3. (f * 4096 + o) \div 4096 = f
  OBVIOUS
<1>4. ASSUME NEW c \in Nat, NEW s \in Nat, f < c, c * 4096 <= s
      PROVE  f * 4096 + o < s
  BY <1>4
<1> QED
  BY <1>2, <1>3, <1>4

\* The loop of pmm_init reaches every reserved frame, also when a region does
\* not start on a page boundary.
LEMMA MarkedCoversReserved ==
    ASSUME FramesAddressable, NEW m \in MemMaps
    PROVE  ReservedFrames(m) \subseteq MarkedBy(m)
<1> SUFFICES ASSUME NEW f \in ReservedFrames(m)
             PROVE  f \in MarkedBy(m)
  OBVIOUS
<1>1. f \in Nat /\ f < FrameCount /\ FrameCount \in Nat
  BY FrameCountType DEF ReservedFrames
<1>2. PICK r \in m : /\ r.type = 2
                     /\ r.base < (f + 1) * 4096
                     /\ f * 4096 + (r.base % 4096) < r.base + r.length
  BY DEF ReservedFrames, PG_SZ
<1>3. r.base \in Nat /\ r.length \in Nat /\ AddrSpace \in Nat \ {0}
  BY PMMAssumption DEF Regions
<1>4. PICK b \in Nat, o \in Nat : o < 4096 /\ o = r.base % 4096 /\ r.base = b * 4096 + o
  <2>1. PICK x \in Nat : x = r.base
    BY <1>3
  <2>2. PICK q \in Nat, u \in Nat : u < 4096 /\ u = x % 4096 /\ x = q * 4096 + u
    BY ONLY x \in Nat, FrameAndOffset
  <2>3. WITNESS q \in Nat, u \in Nat
  <2>4. u < 4096
    BY <2>2
  <2>5. u = r.base % 4096
    BY <2>1, <2>2
  <2>6. r.base = q * 4096 + u
    BY <2>1, <2>2
  <2> QED
    BY <2>4, <2>5, <2>6
<1>5. PICK n \in Nat : n = r.length
  BY <1>3
<1>6. b * 4096 + o < (f + 1) * 4096 /\ f * 4096 + o < b * 4096 + o + n
  BY <1>2, <1>4, <1>5
<1>7. PICK i \in Nat : /\ i = f - b /\ i * 4096 < n
                       /\ r.base + i * 4096 = f * 4096 + o
                       /\ (f * 4096 + o) \div 4096 = f
                       /\ f * 4096 + o < AddrSpace
  <2>1. FrameCount * 4096 <= AddrSpace
    BY DEF FramesAddressable, PG_SZ
  <2>2. /\ f - b \in Nat /\ (f - b) * 4096 < n
        /\ b * 4096 + o + (f - b) * 4096 = f * 4096 + o
        /\ (f * 4096 + o) \div 4096 = f
        /\ \A c, s \in Nat : f < c /\ c * 4096 <= s => f * 4096 + o < s
    BY <1>1, <1>4, <1>5, <1>6, StepToFrame
  <2> QED
    BY <1>1, <1>3, <1>4, <2>1, <2>2
<1>8. i \in {k \in 0 .. r.length \div PG_SZ : k * PG_SZ < r.length}
  BY <1>5, <1>7 DEF PG_SZ
<1>9. u32(f * 4096 + o) = f * 4096 + o
  <2>1. PICK a \in Nat, s \in Nat \ {0} : a = f * 4096 + o /\ s = AddrSpace /\ a < s
    BY <1>1, <1>3, <1>4, <1>7
  <2>2. a % s = a
    BY <2>1, BelowModulus
  <2> QED
    BY <2>1, <2>2 DEF u32
<1>10. u32(r.base + i * PG_SZ) \div PG_SZ = f
  BY <1>7, <1>9 DEF PG_SZ
<1> QED
  BY <1>2, <1>8, <1>10 DEF MarkedBy

\* Every operation keeps reserved frames marked and out of callers' hands.
LEMMA ReservedStep ==
    ASSUME FramesAddressable
    PROVE  TypeOK /\ HeldAreMarked /\ ReservedMarked /\ ReservedNeverHeld /\ [Next]_vars
             => ReservedMarked' /\ ReservedNeverHeld'
<1> SUFFICES ASSUME TypeOK, HeldAreMarked, ReservedMarked, ReservedNeverHeld, [Next]_vars
             PROVE  ReservedMarked' /\ ReservedNeverHeld'
  OBVIOUS
<1>1. CASE PmmInit
  <2>1. mmap \in MemMaps
    BY DEF TypeOK
  <2>2. ReservedFrames(mmap) \subseteq MarkedBy(mmap) \cap (0 .. FrameCount - 1)
    BY <2>1, MarkedCoversReserved DEF ReservedFrames
  <2>3. mmap' = mmap /\ held' = held
    BY <1>1 DEF PmmInit
  <2>4. ReservedFrames(mmap) \subseteq Members(frames')
    BY <1>1, <2>2, PmmInitEffect
  <2> QED
    BY <2>3, <2>4 DEF ReservedMarked, ReservedNeverHeld
<1>2. CASE GetFrame
  <2>1. mmap' = mmap /\ Running /\ held' = held \cup {FrameIndex(frames)}
    BY <1>2 DEF GetFrame
  <2> QED
    BY <1>2, <2>1, MembersStep DEF ReservedMarked, ReservedNeverHeld
<1>3. CASE GetFrameFails
  <2>1. mmap' = mmap /\ Running /\ held' = held /\ frames' = frames
    BY <1>3 DEF GetFrameFails
  <2> QED
    BY <2>1 DEF ReservedMarked, ReservedNeverHeld
<1>4. ASSUME NEW addr \in Addrs, SetFrame(addr)
      PROVE  ReservedMarked' /\ ReservedNeverHeld'
  <2>1. mmap' = mmap /\ Running
    BY <1>4 DEF SetFrame
  <2>2. held' = held \/ (/\ ~ bs_tst(frames, addr \div PG_SZ)
                         /\ held' = held \cup {addr \div PG_SZ})
    BY <1>4 DEF SetFrame
  <2>3. ReservedMarked'
    BY <1>4, <2>1, MembersStep DEF ReservedMarked
  <2> QED
    BY <2>1, <2>2, <2>3, ClaimClear DEF ReservedMarked, ReservedNeverHeld
<1>5. ASSUME NEW f \in held, FreeFrame(f)
      PROVE  ReservedMarked' /\ ReservedNeverHeld'
  <2>1. mmap' = mmap /\ Running /\ held' = held \ {f}
    BY <1>5 DEF FreeFrame
  <2> QED
    BY <1>5, <2>1, MembersStep DEF ReservedMarked, ReservedNeverHeld
<1>6. CASE UNCHANGED vars
  BY <1>6 DEF vars, ReservedMarked, ReservedNeverHeld, Running
<1> QED
  BY <1>1, <1>2, <1>3, <1>4, <1>5, <1>6 DEF Next

\* On a machine whose frames are addressable no reserved frame is ever handed
\* out, wherever the regions start: what pmm_init marked stays marked through
\* every get_frame, set_frame and free_frame.
THEOREM ReservedProtected ==
    ASSUME FramesAddressable
    PROVE  Spec => []ReservedNeverHeld
<1>1. Init => ReservedMarked /\ ReservedNeverHeld
  BY DEF Init, ReservedMarked, ReservedNeverHeld, Running, Result
<1>2. TypeOK /\ HeldAreMarked /\ ReservedMarked /\ ReservedNeverHeld /\ [Next]_vars
        => ReservedMarked' /\ ReservedNeverHeld'
  BY ReservedStep
<1> QED
  BY <1>1, <1>2, TypeCorrect, HeldMarked, PTL DEF Spec

-----------------------------------------------------------------------------
(* Refinement.                                                             *)

\* Every step of the manager is a step of the pool, or leaves it alone.
LEMMA PoolStep ==
    ASSUME TypeOK, TypeOK', [Next]_vars
    PROVE  [Pool!Next]_(Pool!vars)
<1> DEFINE n == bs_words(PageFrames)
<1>1. n \in Nat /\ FrameCount = n * 32 /\ FrameCount \in Nat
  BY FrameCountType
<1> HIDE DEF n
<1>2. Running => frames \in BitSetsOf(n)
  BY RunningFrames DEF n
<1>3. Pool!Frame = 0 .. (n * 32) - 1
  BY <1>1 DEF Pool!Frame
<1>4. Pool!Running <=> Running
  BY DEF Pool!Running, Running
<1>5. CASE PmmInit
  <2>1. frames' \in BitSetsOf(n)
    BY <1>5, PmmInitEffect DEF n
  <2>2. Members(frames') \in SUBSET Pool!Frame
    BY <1>1, <1>3, <2>1, MembersDef
  <2>3. Pool!Boot
    BY <1>5, <2>2 DEF PmmInit, Pool!Boot, Pool!Result, Result
  <2> QED
    BY <2>3 DEF Pool!Next
<1>6. CASE GetFrame
  <2>1. /\ FrameIndex(frames) \in Pool!Free
        /\ \A g \in Pool!Free : FrameIndex(frames) <= g
        /\ Members(frames') = Members(frames) \cup {FrameIndex(frames)}
    BY <1>1, <1>2, <1>3, <1>6, GetFrameEffect DEF GetFrame, Pool!Free
  <2>2. Pool!Take
    BY <1>4, <1>6, <2>1 DEF GetFrame, Pool!Take, Pool!Result, Result
  <2> QED
    BY <2>2 DEF Pool!Next
<1>7. CASE GetFrameFails
  <2>1. Pool!Free = {}
    BY <1>1, <1>2, <1>3, <1>7, FirstClr DEF GetFrameFails, OutOfFrames, Pool!Free
  <2>2. Pool!TakeFails
    BY <1>4, <1>7, <2>1 DEF GetFrameFails, Pool!TakeFails, Pool!Result, Result
  <2> QED
    BY <2>2 DEF Pool!Next
<1>8. ASSUME NEW addr \in Addrs, SetFrame(addr)
      PROVE  Pool!Claim \/ Pool!ClaimFails
  <2>1. addr \in Nat /\ frames \in BitSetsOf(n)
    BY <1>2, <1>8, PMMAssumption DEF SetFrame
  <2>2. CASE set_frame_ok(frames, addr)
    <3>1. addr \div PG_SZ \in Pool!Frame
      BY <1>1, <1>3, <2>1, <2>2, SetFrameEffect
    <3>2. Members(frames') = Members(frames) \cup {addr \div PG_SZ}
      BY <1>8, <2>2, MembersStep
    <3> QED
      BY <1>4, <1>8, <2>2, <3>1, <3>2 DEF SetFrame, Pool!Claim, Pool!Result, Result
  <2>3. CASE ~ set_frame_ok(frames, addr)
    <3>1. Members(frames') = Members(frames)
      BY <1>8, <2>3, MembersStep
    <3> QED
      BY <1>4, <1>8, <2>3, <3>1 DEF SetFrame, Pool!ClaimFails, Pool!Result, Result
  <2> QED
    BY <2>2, <2>3
<1>9. ASSUME NEW f \in held, FreeFrame(f)
      PROVE  Pool!GiveBack
  <2>1. f \in Pool!Frame
    BY <1>1, <1>3 DEF TypeOK
  <2> QED
    BY <1>4, <1>9, <2>1, MembersStep DEF FreeFrame, Pool!GiveBack, Pool!Result, Result
<1>10. CASE UNCHANGED vars
  BY <1>10 DEF vars, Pool!vars
<1> QED
  BY <1>5, <1>6, <1>7, <1>8, <1>9, <1>10 DEF Next, Pool!Next

\* The physical memory manager implements the pool of frames: words, offsets
\* and the unused tail of the last word are invisible to its callers.
THEOREM PoolRefinement == Spec => PoolSpec
<1>1. Init => Pool!Init
  <2>1. Init => Members(frames) = {}
    BY DEF Init, Members, bs_get_size, WordBits
  <2> QED
    BY <2>1 DEF Init, Pool!Init, Pool!Result, Result
<1>2. TypeOK /\ TypeOK' /\ [Next]_vars => [Pool!Next]_(Pool!vars)
  BY PoolStep
<1> QED
  BY <1>1, <1>2, TypeCorrect, PTL DEF Spec, PoolSpec, Pool!Spec
=============================================================================
