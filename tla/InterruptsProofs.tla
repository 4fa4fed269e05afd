-------------------------- MODULE InterruptsProofs --------------------------
(***************************************************************************)
(* Proofs about Interrupts for both versions, every set of devices and     *)
(* exceptions and any number of requests.                                  *)
(***************************************************************************)
EXTENDS Interrupts, SequenceTheorems, WellFoundedInduction, TLAPS

-----------------------------------------------------------------------------
(* Bytes and words.                                                        *)

\* The bytes whose bits matter: masks and the wiring of the controllers, the
\* flags of gates and the access bytes of segments.
LEMMA BitsOf ==
    /\ Bits(0) = {} /\ Bits(4) = {2}
    /\ 0 \notin Bits(142) /\ 3 \in Bits(154) /\ 3 \notin Bits(146)
<1> DEFINE P == <<1, 2, 4, 8, 16, 32, 64, 128>>
<1>1. /\ P[1] = 1 /\ P[2] = 2 /\ P[3] = 4 /\ P[4] = 8
      /\ P[5] = 16 /\ P[6] = 32 /\ P[7] = 64 /\ P[8] = 128
  OBVIOUS
<1>2. \A i \in 0 .. 7 : i = 0 \/ i = 1 \/ i = 2 \/ i = 3 \/ i = 4 \/ i = 5 \/ i = 6 \/ i = 7
  OBVIOUS
<1>3. \A v, i : i \in Bits(v) <=> i \in 0 .. 7 /\ (v \div P[i + 1]) % 2 = 1
  BY DEF Bits
<1> HIDE DEF P
<1>4. \A i \in 0 .. 7 : (0 \div P[i + 1]) % 2 = 0
  BY <1>1, <1>2
<1>5. \A i \in 0 .. 7 : (4 \div P[i + 1]) % 2 = 1 <=> i = 2
  BY <1>1, <1>2
<1>6. 0 \notin Bits(142)
  BY <1>1, <1>3
<1>7. 3 \in Bits(154) /\ 3 \notin Bits(146)
  BY <1>1, <1>3
<1> QED
  BY <1>3, <1>4, <1>5, <1>6, <1>7

\* A set of lines has a smallest one.
LEMMA MinOf ==
    ASSUME NEW S, S \in SUBSET Nat, S # {}
    PROVE  Min(S) \in S /\ \A y \in S : Min(S) <= y
<1> DEFINE R == OpToRel(<, Nat)
<1>1. IsWellFoundedOn(R, Nat)
  BY NatLessThanWellFounded
<1> HIDE DEF R
<1>2. PICK f \in S : \A g \in S : ~ (<<g, f>> \in R)
  BY <1>1, WFMin
<1>3. \A g \in S : ~ (g < f)
  BY <1>2 DEF R, OpToRel
<1>4. \A g \in S : f <= g
  BY <1>3
<1> QED
  BY <1>4 DEF Min

LEMMA MinOne ==
    ASSUME NEW x \in Nat
    PROVE  Min({x}) = x
  BY MinOf

-----------------------------------------------------------------------------
(* Setting up the controllers.                                             *)

\* What pic_remap makes of the controllers, whatever they were before.
Remapped == [m |-> Chip(32, 4), s |-> Chip(40, 2)]

Chips == [base : Nat, icw3 : Nat, step : Nat, mask : SUBSET Nat, irr : SUBSET Nat, isr : SUBSET Nat]

\* Written is the last of the values after each byte.
LEMMA WrittenIs ==
    ASSUME NEW p
    PROVE  \E w : /\ w[0] = p
                  /\ \A k \in 1 .. 10 : w[k] = outport(w[k - 1], pic_remap[k][1], pic_remap[k][2])
                  /\ Written(p, pic_remap) = w[10]
<1> DEFINE V(q, k) == outport(q, pic_remap[k][1], pic_remap[k][2])
           F(w) == w = [k \in 0 .. Len(pic_remap) |->
                          IF k = 0 THEN p ELSE outport(w[k - 1], pic_remap[k][1], pic_remap[k][2])]
<1>1. Written(p, pic_remap) = (CHOOSE w : F(w))[Len(pic_remap)]
  BY DEF Written
<1>2. Len(pic_remap) = 10
  BY DEF pic_remap
<1>3. PICK p1, p2, p3, p4, p5 :
        p1 = V(p, 1) /\ p2 = V(p1, 2) /\ p3 = V(p2, 3) /\ p4 = V(p3, 4) /\ p5 = V(p4, 5)
  OBVIOUS
<1>4. PICK p6, p7, p8, p9, p10 :
        p6 = V(p5, 6) /\ p7 = V(p6, 7) /\ p8 = V(p7, 8) /\ p9 = V(p8, 9) /\ p10 = V(p9, 10)
  OBVIOUS
<1>5. PICK f : f = [k \in 0 .. 10 |-> <<p, p1, p2, p3, p4, p5, p6, p7, p8, p9, p10>>[k + 1]]
  OBVIOUS
<1> HIDE DEF V
<1>6. /\ f[0] = p /\ f[1] = p1 /\ f[2] = p2 /\ f[3] = p3 /\ f[4] = p4 /\ f[5] = p5
      /\ f[6] = p6 /\ f[7] = p7 /\ f[8] = p8 /\ f[9] = p9 /\ f[10] = p10
  BY <1>5
<1>7. ASSUME NEW k \in 1 .. 10
      PROVE  f[k] = V(f[k - 1], k)
  <2>1. \/ k = 1 \/ k = 2 \/ k = 3 \/ k = 4 \/ k = 5
        \/ k = 6 \/ k = 7 \/ k = 8 \/ k = 9 \/ k = 10
    OBVIOUS
  <2> QED
    BY <2>1, <1>3, <1>4, <1>6
<1>8. f = [k \in 0 .. 10 |-> IF k = 0 THEN p ELSE V(f[k - 1], k)]
  <2>1. DOMAIN f = 0 .. 10 /\ f = [k \in 0 .. 10 |-> f[k]]
    BY <1>5
  <2>2. \A k \in 0 .. 10 : f[k] = IF k = 0 THEN p ELSE V(f[k - 1], k)
    BY <1>6, <1>7
  <2> QED
    BY <2>1, <2>2
<1>9. F(f)
  BY <1>2, <1>8 DEF V
<1>10. PICK w : w = CHOOSE u : F(u)
  OBVIOUS
<1>11. F(w)
  BY <1>9, <1>10
<1>12. w = [k \in 0 .. 10 |-> IF k = 0 THEN p ELSE V(w[k - 1], k)]
  BY <1>2, <1>11 DEF V
<1>13. w[0] = p /\ \A k \in 1 .. 10 : w[k] = V(w[k - 1], k)
  BY <1>12
<1>14. Written(p, pic_remap) = w[10]
  BY <1>1, <1>2, <1>10
<1> QED
  BY <1>13, <1>14 DEF V

\* A chip that is being initialized.
Under(base, icw3, step) ==
    [base |-> base, icw3 |-> icw3, step |-> step, mask |-> {}, irr |-> {}, isr |-> {}]

LEMMA Command17 ==
    ASSUME NEW c \in Chips
    PROVE  \E b, i : Command(c, 17) = Under(b, i, 2)
<1>1. Command(c, 17) = [c EXCEPT !.step = 2, !.mask = {}, !.irr = {}, !.isr = {}]
  BY DEF Command
<1>2. Command(c, 17) = Under(c.base, c.icw3, 2)
  BY <1>1 DEF Under, Chips
<1> QED
  BY <1>2

LEMMA Data2 ==
    ASSUME NEW b, NEW i, NEW v
    PROVE  Data(Under(b, i, 2), v) = Under(v, i, 3)
<1>1. PICK c : c = Under(b, i, 2)
  OBVIOUS
<1>2. c.step = 2
  BY <1>1 DEF Under
<1>3. Data(c, v) = [c EXCEPT !.base = v, !.step = 3]
  BY <1>2 DEF Data
<1>4. Data(c, v) = Under(v, i, 3)
  BY <1>1, <1>3 DEF Under
<1> QED
  BY <1>1, <1>4

LEMMA Data3 ==
    ASSUME NEW b, NEW i, NEW v
    PROVE  Data(Under(b, i, 3), v) = Under(b, v, 4)
<1>1. PICK c : c = Under(b, i, 3)
  OBVIOUS
<1>2. c.step = 3
  BY <1>1 DEF Under
<1>3. Data(c, v) = [c EXCEPT !.icw3 = v, !.step = 4]
  BY <1>2 DEF Data
<1>4. Data(c, v) = Under(b, v, 4)
  BY <1>1, <1>3 DEF Under
<1> QED
  BY <1>1, <1>4

LEMMA Data4 ==
    ASSUME NEW b, NEW i, NEW v
    PROVE  Data(Under(b, i, 4), v) = Under(b, i, 0)
<1>1. PICK c : c = Under(b, i, 4)
  OBVIOUS
<1>2. c.step = 4
  BY <1>1 DEF Under
<1>3. Data(c, v) = [c EXCEPT !.step = 0]
  BY <1>2 DEF Data
<1>4. Data(c, v) = Under(b, i, 0)
  BY <1>1, <1>3 DEF Under
<1> QED
  BY <1>1, <1>4

LEMMA Data0 ==
    ASSUME NEW b, NEW i
    PROVE  Data(Under(b, i, 0), 0) = Under(b, i, 0)
<1>1. PICK c : c = Under(b, i, 0)
  OBVIOUS
<1>2. c.step = 0
  BY <1>1 DEF Under
<1>3. Data(c, 0) = [c EXCEPT !.mask = Bits(0)]
  BY <1>2 DEF Data
<1>4. Data(c, 0) = Under(b, i, 0)
  BY <1>1, <1>3, BitsOf DEF Under
<1> QED
  BY <1>1, <1>4

\* outport reaches the chip of its port.
Pair(m, s) == [m |-> m, s |-> s]

LEMMA PortWrites ==
    ASSUME NEW m, NEW s, NEW v
    PROVE  /\ outport(Pair(m, s), 32, v) = Pair(Command(m, v), s)
           /\ outport(Pair(m, s), 33, v) = Pair(Data(m, v), s)
           /\ outport(Pair(m, s), 160, v) = Pair(m, Command(s, v))
           /\ outport(Pair(m, s), 161, v) = Pair(m, Data(s, v))
  BY DEF outport, Pair

\* pic_remap leaves the master at vector 32 and the slave at 40, with no line
\* masked, requested or in service.
LEMMA RemapPic ==
    ASSUME NEW p, NEW m \in Chips, NEW s \in Chips, p = Pair(m, s)
    PROVE  Written(p, pic_remap) = Remapped
<1>1. PICK w : /\ w[0] = p
               /\ \A k \in 1 .. 10 : w[k] = outport(w[k - 1], pic_remap[k][1], pic_remap[k][2])
               /\ Written(p, pic_remap) = w[10]
  BY WrittenIs
<1>2. /\ w[1] = outport(w[0], 32, 17) /\ w[2] = outport(w[1], 160, 17)
      /\ w[3] = outport(w[2], 33, 32) /\ w[4] = outport(w[3], 161, 40)
      /\ w[5] = outport(w[4], 33, 4) /\ w[6] = outport(w[5], 161, 2)
      /\ w[7] = outport(w[6], 33, 1) /\ w[8] = outport(w[7], 161, 1)
      /\ w[9] = outport(w[8], 33, 0) /\ w[10] = outport(w[9], 161, 0)
  BY <1>1 DEF pic_remap
<1>3. PICK bm, im, bs, is : Command(m, 17) = Under(bm, im, 2) /\ Command(s, 17) = Under(bs, is, 2)
  BY Command17
<1>4. w[1] = Pair(Under(bm, im, 2), s)
  <2>1. outport(Pair(m, s), 32, 17) = Pair(Command(m, 17), s)
    BY PortWrites
  <2> QED
    BY <2>1, <1>1, <1>2, <1>3
<1>5. w[2] = Pair(Under(bm, im, 2), Under(bs, is, 2))
  <2>1. outport(Pair(Under(bm, im, 2), s), 160, 17) = Pair(Under(bm, im, 2), Command(s, 17))
    BY PortWrites
  <2> QED
    BY <2>1, <1>2, <1>3, <1>4
<1>6. w[3] = Pair(Under(32, im, 3), Under(bs, is, 2))
  <2>1. outport(Pair(Under(bm, im, 2), Under(bs, is, 2)), 33, 32) = Pair(Data(Under(bm, im, 2), 32), Under(bs, is, 2))
    BY PortWrites
  <2>2. Data(Under(bm, im, 2), 32) = Under(32, im, 3)
    BY Data2
  <2> QED
    BY <2>1, <2>2, <1>2, <1>5
<1>7. w[4] = Pair(Under(32, im, 3), Under(40, is, 3))
  <2>1. outport(Pair(Under(32, im, 3), Under(bs, is, 2)), 161, 40) = Pair(Under(32, im, 3), Data(Under(bs, is, 2), 40))
    BY PortWrites
  <2>2. Data(Under(bs, is, 2), 40) = Under(40, is, 3)
    BY Data2
  <2> QED
    BY <2>1, <2>2, <1>2, <1>6
<1>8. w[5] = Pair(Under(32, 4, 4), Under(40, is, 3))
  <2>1. outport(Pair(Under(32, im, 3), Under(40, is, 3)), 33, 4) = Pair(Data(Under(32, im, 3), 4), Under(40, is, 3))
    BY PortWrites
  <2>2. Data(Under(32, im, 3), 4) = Under(32, 4, 4)
    BY Data3
  <2> QED
    BY <2>1, <2>2, <1>2, <1>7
<1>9. w[6] = Pair(Under(32, 4, 4), Under(40, 2, 4))
  <2>1. outport(Pair(Under(32, 4, 4), Under(40, is, 3)), 161, 2) = Pair(Under(32, 4, 4), Data(Under(40, is, 3), 2))
    BY PortWrites
  <2>2. Data(Under(40, is, 3), 2) = Under(40, 2, 4)
    BY Data3
  <2> QED
    BY <2>1, <2>2, <1>2, <1>8
<1>10. w[7] = Pair(Under(32, 4, 0), Under(40, 2, 4))
  <2>1. outport(Pair(Under(32, 4, 4), Under(40, 2, 4)), 33, 1) = Pair(Data(Under(32, 4, 4), 1), Under(40, 2, 4))
    BY PortWrites
  <2>2. Data(Under(32, 4, 4), 1) = Under(32, 4, 0)
    BY Data4
  <2> QED
    BY <2>1, <2>2, <1>2, <1>9
<1>11. w[8] = Pair(Under(32, 4, 0), Under(40, 2, 0))
  <2>1. outport(Pair(Under(32, 4, 0), Under(40, 2, 4)), 161, 1) = Pair(Under(32, 4, 0), Data(Under(40, 2, 4), 1))
    BY PortWrites
  <2>2. Data(Under(40, 2, 4), 1) = Under(40, 2, 0)
    BY Data4
  <2> QED
    BY <2>1, <2>2, <1>2, <1>10
<1>12. w[9] = Pair(Under(32, 4, 0), Under(40, 2, 0))
  <2>1. outport(Pair(Under(32, 4, 0), Under(40, 2, 0)), 33, 0) = Pair(Data(Under(32, 4, 0), 0), Under(40, 2, 0))
    BY PortWrites
  <2>2. Data(Under(32, 4, 0), 0) = Under(32, 4, 0)
    BY Data0
  <2> QED
    BY <2>1, <2>2, <1>2, <1>11
<1>13. w[10] = Pair(Under(32, 4, 0), Under(40, 2, 0))
  <2>1. outport(Pair(Under(32, 4, 0), Under(40, 2, 0)), 161, 0) = Pair(Under(32, 4, 0), Data(Under(40, 2, 0), 0))
    BY PortWrites
  <2>2. Data(Under(40, 2, 0), 0) = Under(40, 2, 0)
    BY Data0
  <2> QED
    BY <2>1, <2>2, <1>2, <1>12
<1> QED
  BY <1>1, <1>13 DEF Remapped, Under, Chip, Pair

-----------------------------------------------------------------------------
(* The tables.                                                             *)

\* Selector 8 is a code and 16 a data segment of the kernel, in both versions.
LEMMA Segments == KernelCode(8) /\ KernelData(16)
<1>1. \A acc : gdt_set_entry(<<0, 0>>, <<65535, 65535>>, acc, 207)
                 = [base_low |-> 0, base_mid |-> 0, base_high |-> 0,
                    lim_low |-> 65535, gran |-> 207, access |-> acc]
  BY DEF gdt_set_entry
<1>2. GDT[1] = gdt_set_entry(<<0, 0>>, <<65535, 65535>>, 154, 207)
  BY DEF GDT, gdt_init, init_gdt, create_segment
<1>3. GDT[2] = gdt_set_entry(<<0, 0>>, <<65535, 65535>>, 146, 207)
  BY DEF GDT, gdt_init, init_gdt, create_segment
<1>4. 8 \div 8 = 1 /\ 16 \div 8 = 2
  OBVIOUS
<1>5. FlatKernel(GDT[1]) /\ GDT[1].access = 154
  <2>1. PICK d : d = GDT[1]
    OBVIOUS
  <2>2. d = [base_low |-> 0, base_mid |-> 0, base_high |-> 0, lim_low |-> 65535, gran |-> 207, access |-> 154]
    BY <2>1, <1>1, <1>2
  <2>3. 207 % 16 = 15 /\ 154 \div 32 = 4
    OBVIOUS
  <2>4. FlatKernel(d) /\ d.access = 154
    BY <2>2, <2>3 DEF FlatKernel
  <2> QED
    BY <2>1, <2>4
<1>6. FlatKernel(GDT[2]) /\ GDT[2].access = 146
  <2>1. PICK d : d = GDT[2]
    OBVIOUS
  <2>2. d = [base_low |-> 0, base_mid |-> 0, base_high |-> 0, lim_low |-> 65535, gran |-> 207, access |-> 146]
    BY <2>1, <1>1, <1>3
  <2>3. 207 % 16 = 15 /\ 146 \div 32 = 4
    OBVIOUS
  <2>4. FlatKernel(d) /\ d.access = 146
    BY <2>2, <2>3 DEF FlatKernel
  <2> QED
    BY <2>1, <2>4
<1> QED
  BY <1>4, <1>5, <1>6, BitsOf DEF KernelCode, KernelData

\* The gates of vectors 0 to 47 lead to the stubs of the same number, and turn
\* interrupts off.
LEMMA Gates ==
    ASSUME NEW v \in 0 .. 47
    PROVE  v \in DOMAIN IDT /\ Entered(v) = v /\ 0 \notin Bits(IDT[v].flags)
<1>1. /\ DOMAIN IDT = 0 .. 47
      /\ IDT[v] = [low |-> StubAddress(v)[2], high |-> StubAddress(v)[1], sel |-> 8, flags |-> 142]
  BY DEF IDT, idt_init, init_idt, add_entry, idt_add_entry
<1>2. ASSUME NEW u \in 0 .. 47, StubAddress(u) = <<IDT[v].high, IDT[v].low>>
      PROVE  u = v
  <2>1. 16 + (u \div 8) = 16 + (v \div 8) /\ 16 * (u % 8) = 16 * (v % 8)
    BY <1>1, <1>2 DEF StubAddress
  <2>2. u = (8 * (u \div 8)) + (u % 8) /\ v = (8 * (v \div 8)) + (v % 8)
    OBVIOUS
  <2> QED
    BY <2>1, <2>2
<1>3. StubAddress(v) = <<IDT[v].high, IDT[v].low>>
  BY <1>1 DEF StubAddress
<1>4. {u \in 0 .. 47 : StubAddress(u) = <<IDT[v].high, IDT[v].low>>} = {v}
  BY <1>2, <1>3
<1>5. Entered(v) = v
  BY <1>1, <1>4, MinOne, Segments DEF Entered
<1> QED
  BY <1>1, <1>5, BitsOf

-----------------------------------------------------------------------------
(* The inductive invariant, in terms of the values the variables have.     *)

\* What may be left of an interrupt's statements, of either version, and of an
\* exception's.
IrqTodos == { <<"handler", "slave", "master">>, <<"slave", "master">>, <<"slave", "handler", "master">>,
              <<"handler", "master">>, <<"master">>, <<>> }
IsrTodos == { <<"handler">>, <<>> }

\* The slave still gets its acknowledgement.
SlaveTodos == { <<"handler", "slave", "master">>, <<"slave", "master">>, <<"slave", "handler", "master">> }

SegSet == [ds : Int, es : Int, fs : Int, gs : Int]

Frame == [n : Int, todo : IrqTodos \cup IsrTodos, words : Int, IF_flag : BOOLEAN, segs : SegSet, line : Int]

\* A frame of an interrupt has the number of its line, and fs as es.
FrameOK(f) ==
    /\ f.line # NoLine => f.line \in 0 .. 15 /\ f.n = 32 + f.line /\ f.todo \in IrqTodos
    /\ f.line = NoLine => f.todo \in IsrTodos
    /\ f.segs.es = f.segs.fs
    /\ StubsFit => f.words = 1

\* Interrupts were on only when the outermost frame was entered, so every
\* other one is of an exception.
StackOK(s) ==
    /\ s \in Seq(Frame)
    /\ \A i \in 1 .. Len(s) : FrameOK(s[i]) /\ s[i].IF_flag = (i = 1)
    /\ \A i \in 2 .. Len(s) : s[i].line = NoLine

\* The controllers after pic_remap.
Ready(p) ==
    /\ p = Pair(p.m, p.s) /\ p.m \in Chips /\ p.s \in Chips
    /\ p.m.base = 32 /\ p.m.icw3 = 4 /\ p.m.step = 0 /\ p.m.mask = {}
    /\ p.s.base = 40 /\ p.s.step = 0 /\ p.s.mask = {}
    /\ p.m.irr \in SUBSET ((0 .. 7) \ {2}) /\ p.s.irr \in SUBSET (0 .. 7)

\* At most one line is in service, and it is one of the outermost frame, which
\* has its acknowledgement still to do.
InService(p, s) ==
    /\ \/ p.m.isr = {}
       \/ /\ \E l \in 0 .. 7 : p.m.isr = {l}
          /\ s # <<>> /\ s[1].line # NoLine /\ s[1].todo # <<>>
    /\ \/ p.s.isr = {}
       \/ /\ \E l \in 0 .. 7 : p.s.isr = {l}
          /\ s # <<>> /\ s[1].line # NoLine /\ s[1].todo \in SlaveTodos /\ s[1].n >= 40

IInv ==
    /\ version \in Versions /\ done \in 0 .. 4
    /\ pic = Pair(pic.m, pic.s) /\ pic.m \in Chips /\ pic.s \in Chips
    /\ done >= 2 => Ready(pic) /\ InService(pic, stack)
    /\ StackOK(stack)
    /\ stack # <<>> => done >= 2
    /\ IF_flag = (stack = <<>> /\ done >= 2)
    /\ segs \in SegSet /\ segs.es = segs.fs
    /\ StubsFit => stop # "wild"

-----------------------------------------------------------------------------
(* The stack of frames.                                                    *)

\* The processor goes through a gate.
LEMMA PushFrame ==
    ASSUME NEW s, StackOK(s), NEW f \in Frame, FrameOK(f),
           f.IF_flag = (s = <<>>), s # <<>> => f.line = NoLine,
           NEW t, t = Append(s, f)
    PROVE  StackOK(t) /\ t # <<>> /\ t[1] = IF s = <<>> THEN f ELSE s[1]
<1>1. s \in Seq(Frame) /\ Len(s) \in Nat /\ (s = <<>> <=> Len(s) = 0)
  BY EmptySeq DEF StackOK
<1>2. /\ t \in Seq(Frame) /\ Len(t) = Len(s) + 1
      /\ \A i \in 1 .. Len(s) : t[i] = s[i]
      /\ t[Len(s) + 1] = f
  BY <1>1, AppendProperties
<1>3. ASSUME NEW i \in 1 .. Len(t)
      PROVE  FrameOK(t[i]) /\ t[i].IF_flag = (i = 1)
  <2>1. CASE i \in 1 .. Len(s)
    <3>1. FrameOK(s[i]) /\ s[i].IF_flag = (i = 1)
      BY <2>1 DEF StackOK
    <3> QED
      BY <3>1, <2>1, <1>2
  <2>2. CASE i = Len(s) + 1
    <3>1. (s = <<>>) = (i = 1)
      BY <2>2, <1>1
    <3> QED
      BY <3>1, <2>2, <1>2
  <2> QED
    BY <2>1, <2>2, <1>1, <1>2
<1>4. ASSUME NEW i \in 2 .. Len(t)
      PROVE  t[i].line = NoLine
  <2>1. CASE i \in 2 .. Len(s)
    BY <2>1, <1>1, <1>2 DEF StackOK
  <2>2. CASE i = Len(s) + 1
    BY <2>2, <1>1, <1>2
  <2> QED
    BY <2>1, <2>2, <1>1, <1>2
<1>5. t # <<>> /\ t[1] = IF s = <<>> THEN f ELSE s[1]
  <2>1. CASE s = <<>>
    BY <2>1, <1>1, <1>2
  <2>2. CASE s # <<>>
    BY <2>2, <1>1, <1>2
  <2> QED
    BY <2>1, <2>2
<1> QED
  BY <1>2, <1>3, <1>4, <1>5 DEF StackOK

\* What is left after a statement.
LEMMA TodoTail ==
    /\ \A q \in IrqTodos : q # <<>> => Tail(q) \in IrqTodos
    /\ \A q \in IsrTodos : q # <<>> => Tail(q) \in IsrTodos
    /\ \A q \in IrqTodos : q # <<>> /\ Head(q) = "slave" => Tail(q) \notin SlaveTodos /\ Tail(q) # <<>>
    /\ \A q \in IrqTodos : q # <<>> /\ Head(q) = "master" => Tail(q) = <<>> /\ q \notin SlaveTodos
    /\ \A q \in IrqTodos : q # <<>> /\ Head(q) = "handler" =>
          Tail(q) # <<>> /\ (q \in SlaveTodos => Tail(q) \in SlaveTodos)
    /\ \A q \in IsrTodos : q # <<>> => Head(q) = "handler"
    /\ \A q \in SlaveTodos : q # <<>>
  BY DEF IrqTodos, IsrTodos, SlaveTodos

\* The top frame does one statement.
LEMMA StepFrame ==
    ASSUME NEW f \in Frame, FrameOK(f), f.todo # <<>>,
           NEW g, g = [f EXCEPT !.todo = Tail(@)]
    PROVE  /\ g \in Frame /\ FrameOK(g)
           /\ g.todo = Tail(f.todo) /\ g.line = f.line /\ g.n = f.n /\ g.IF_flag = f.IF_flag
<1>1. /\ g.todo = Tail(f.todo) /\ g.line = f.line /\ g.n = f.n /\ g.IF_flag = f.IF_flag
      /\ g.segs = f.segs /\ g.words = f.words
  BY DEF Frame
<1>2. /\ f.todo \in IrqTodos => g.todo \in IrqTodos
      /\ f.todo \in IsrTodos => g.todo \in IsrTodos
  BY <1>1, TodoTail
<1>3. g \in Frame
  BY <1>2 DEF Frame
<1>4. FrameOK(g)
  BY <1>1, <1>2 DEF FrameOK
<1> QED
  BY <1>1, <1>3, <1>4

LEMMA StepStack ==
    ASSUME NEW s, StackOK(s), s # <<>>, s[Len(s)].todo # <<>>,
           NEW t, t = [s EXCEPT ![Len(s)].todo = Tail(@)]
    PROVE  /\ StackOK(t) /\ t # <<>> /\ Len(t) = Len(s)
           /\ t[1].line = s[1].line /\ t[1].n = s[1].n
           /\ IF Len(s) = 1 THEN t[1].todo = Tail(s[1].todo) ELSE t[1] = s[1]
<1>1. s \in Seq(Frame) /\ Len(s) \in Nat /\ Len(s) # 0 /\ DOMAIN s = 1 .. Len(s)
  BY EmptySeq DEF StackOK
<1>2. PICK f, g : f = s[Len(s)] /\ g = [f EXCEPT !.todo = Tail(@)]
  OBVIOUS
<1>3. f \in Frame /\ FrameOK(f) /\ f.todo # <<>>
  BY <1>1, <1>2, ElementOfSeq DEF StackOK
<1>4. /\ g \in Frame /\ FrameOK(g)
      /\ g.todo = Tail(f.todo) /\ g.line = f.line /\ g.n = f.n /\ g.IF_flag = f.IF_flag
  BY <1>2, <1>3, StepFrame, Zenon
<1>5. t = [s EXCEPT ![Len(s)] = g]
  BY <1>2
<1>6. /\ t \in Seq(Frame) /\ Len(t) = Len(s)
      /\ \A j \in 1 .. Len(s) : t[j] = IF j = Len(s) THEN g ELSE s[j]
  <2>1. PICK k \in 1 .. Len(s) : k = Len(s)
    BY <1>1
  <2>2. t = [s EXCEPT ![k] = g]
    BY <2>1, <1>5
  <2>3. s \in Seq(Frame) /\ g \in Frame
    BY <1>1, <1>4
  <2>4. [s EXCEPT ![k] = g] \in Seq(Frame) /\ Len([s EXCEPT ![k] = g]) = Len(s)
    BY <2>1, <2>3, ExceptSeq
  <2>5. \A j \in 1 .. Len(s) : t[j] = IF j = k THEN g ELSE s[j]
    BY <2>2, <1>1
  <2>6. t \in Seq(Frame) /\ Len(t) = Len(s)
    BY <2>2, <2>4
  <2> QED
    BY <2>1, <2>5, <2>6
<1>7. ASSUME NEW i \in 1 .. Len(t)
      PROVE  FrameOK(t[i]) /\ t[i].IF_flag = (i = 1)
  <2>1. FrameOK(s[i]) /\ s[i].IF_flag = (i = 1)
    BY <1>6 DEF StackOK
  <2> QED
    BY <2>1, <1>2, <1>4, <1>6
<1>8. ASSUME NEW i \in 2 .. Len(t)
      PROVE  t[i].line = NoLine
  <2>1. s[i].line = NoLine /\ i \in 1 .. Len(s)
    BY <1>6 DEF StackOK
  <2>2. t[i] = IF i = Len(s) THEN g ELSE s[i]
    BY <2>1, <1>6
  <2>3. i = Len(s) => g.line = s[i].line
    BY <1>2, <1>4
  <2> QED
    BY <2>1, <2>2, <2>3
<1>9. t # <<>>
  BY <1>1, <1>6
<1>10. /\ t[1].line = s[1].line /\ t[1].n = s[1].n
       /\ IF Len(s) = 1 THEN t[1].todo = Tail(s[1].todo) ELSE t[1] = s[1]
  BY <1>1, <1>2, <1>4, <1>6
<1> QED
  BY <1>6, <1>7, <1>8, <1>9, <1>10 DEF StackOK

\* The top frame returns.
LEMMA PopFrame ==
    ASSUME NEW s, StackOK(s), s # <<>>, NEW t, t = SubSeq(s, 1, Len(s) - 1)
    PROVE  /\ StackOK(t) /\ (t = <<>> <=> Len(s) = 1) /\ (t # <<>> => t[1] = s[1])
           /\ Len(t) < Len(s)
           /\ s[Len(s)] \in Frame /\ FrameOK(s[Len(s)]) /\ s[Len(s)].IF_flag = (t = <<>>)
<1>1. s \in Seq(Frame) /\ Len(s) \in Nat /\ Len(s) # 0 /\ DOMAIN s = 1 .. Len(s)
  BY EmptySeq DEF StackOK
<1>2. /\ t \in Seq(Frame) /\ Len(t) = Len(s) - 1
      /\ \A i \in 1 .. Len(s) - 1 : t[i] = s[i]
  BY <1>1, SubSeqProperties
<1>3. t = <<>> <=> Len(t) = 0
  BY <1>2, EmptySeq
<1>4. \A i \in 1 .. Len(t) : FrameOK(t[i]) /\ t[i].IF_flag = (i = 1)
  BY <1>1, <1>2 DEF StackOK
<1>5. \A i \in 2 .. Len(t) : t[i].line = NoLine
  BY <1>1, <1>2 DEF StackOK
<1>6. s[Len(s)] \in Frame /\ FrameOK(s[Len(s)]) /\ s[Len(s)].IF_flag = (Len(s) = 1)
  BY <1>1, ElementOfSeq DEF StackOK
<1>7. (t = <<>>) = (Len(s) = 1)
  BY <1>1, <1>2, <1>3
<1> QED
  BY <1>1, <1>2, <1>3, <1>4, <1>5, <1>6, <1>7 DEF StackOK

-----------------------------------------------------------------------------
(* The controllers at work.                                                *)

\* The end of interrupt, when at most one line is in service.
LEMMA EndOfInterrupt ==
    ASSUME NEW c \in Chips, c.isr = {} \/ \E l \in 0 .. 7 : c.isr = {l},
           NEW d, d = Command(c, 32)
    PROVE  /\ d \in Chips /\ d.isr = {} /\ d.base = c.base /\ d.icw3 = c.icw3
           /\ d.step = c.step /\ d.mask = c.mask /\ d.irr = c.irr
<1>1. d = [c EXCEPT !.isr = IF @ = {} THEN @ ELSE @ \ {Min(@)}]
  BY DEF Command
<1>2. (IF c.isr = {} THEN c.isr ELSE c.isr \ {Min(c.isr)}) = {}
  <2>1. CASE c.isr = {}
    BY <2>1
  <2>2. ASSUME NEW l \in 0 .. 7, c.isr = {l}
        PROVE  c.isr \ {Min(c.isr)} = {}
    BY <2>2, MinOne
  <2> QED
    BY <2>1, <2>2
<1>3. d = [c EXCEPT !.isr = {}]
  BY <1>1, <1>2
<1> QED
  BY <1>3 DEF Chips

LEMMA AckOfSlave ==
    ASSUME NEW p, Ready(p), p.s.isr = {} \/ \E l \in 0 .. 7 : p.s.isr = {l},
           NEW q, q = outport(p, 160, 32)
    PROVE  Ready(q) /\ q.s.isr = {} /\ q.m = p.m
<1>1. PICK m, s : m = p.m /\ s = p.s
  OBVIOUS
<1>2. p = Pair(m, s) /\ s \in Chips
  BY <1>1 DEF Ready
<1>3. q = Pair(m, Command(s, 32))
  BY <1>2, PortWrites
<1>4. PICK d : d = Command(s, 32)
  OBVIOUS
<1>5. /\ d \in Chips /\ d.isr = {} /\ d.base = s.base /\ d.icw3 = s.icw3
      /\ d.step = s.step /\ d.mask = s.mask /\ d.irr = s.irr
  BY <1>1, <1>2, <1>4, EndOfInterrupt
<1>6. q.m = m /\ q.s = d /\ q = Pair(q.m, q.s)
  BY <1>3, <1>4 DEF Pair
<1> QED
  BY <1>1, <1>5, <1>6 DEF Ready

LEMMA AckOfMaster ==
    ASSUME NEW p, Ready(p), p.m.isr = {} \/ \E l \in 0 .. 7 : p.m.isr = {l},
           NEW q, q = outport(p, 32, 32)
    PROVE  Ready(q) /\ q.m.isr = {} /\ q.s = p.s
<1>1. PICK m, s : m = p.m /\ s = p.s
  OBVIOUS
<1>2. p = Pair(m, s) /\ m \in Chips
  BY <1>1 DEF Ready
<1>3. q = Pair(Command(m, 32), s)
  BY <1>2, PortWrites
<1>4. PICK d : d = Command(m, 32)
  OBVIOUS
<1>5. /\ d \in Chips /\ d.isr = {} /\ d.base = m.base /\ d.icw3 = m.icw3
      /\ d.step = m.step /\ d.mask = m.mask /\ d.irr = m.irr
  BY <1>1, <1>2, <1>4, EndOfInterrupt
<1>6. q.m = d /\ q.s = s /\ q = Pair(q.m, q.s)
  BY <1>3, <1>4 DEF Pair
<1> QED
  BY <1>1, <1>5, <1>6 DEF Ready

\* The processor acknowledges, or the request was withdrawn: the vector is that
\* of the line, and at most that line goes into service.
LEMMA Acknowledged ==
    ASSUME NEW p, Ready(p), Intr(p), p.m.isr = {}, p.s.isr = {},
           NEW a, a = Acknowledge(p) \/ a = AcknowledgeSpurious(p)
    PROVE  /\ a.line \in 0 .. 15 /\ a.vec = 32 + a.line /\ Ready(a.pic)
           /\ a.pic.m.isr = {} \/ \E l \in 0 .. 7 : a.pic.m.isr = {l}
           /\ a.pic.s.isr = {} \/ (a.line >= 8 /\ \E l \in 0 .. 7 : a.pic.s.isr = {l})
<1>1. PICK l, k : l = Min(MasterOpen(p)) /\ k = Min(SlaveOpen(p))
  OBVIOUS
<1>2. SlaveOpen(p) = p.s.irr
  BY DEF SlaveOpen, Open, Ready
<1>3. MasterOpen(p) = IF p.s.irr # {} THEN p.m.irr \cup {2} ELSE p.m.irr
  BY <1>2, BitsOf DEF MasterOpen, Open, Ready
<1>4. l \in MasterOpen(p) /\ l \in 0 .. 7
  <2>1. MasterOpen(p) \in SUBSET (0 .. 7) /\ MasterOpen(p) # {}
    BY <1>3 DEF Ready, Intr
  <2> QED
    BY <2>1, <1>1, MinOf
<1>5. FromSlave(p) <=> l = 2
  BY <1>1, BitsOf DEF FromSlave, Ready
<1>6. FromSlave(p) => k \in p.s.irr /\ k \in 0 .. 7
  <2>1. FromSlave(p) => p.s.irr # {}
    BY <1>3, <1>4, <1>5 DEF Ready
  <2>2. p.s.irr \in SUBSET (0 .. 7)
    BY DEF Ready
  <2> QED
    BY <2>1, <2>2, <1>1, <1>2, MinOf
<1>7. PICK m, s : m = p.m /\ s = p.s
  OBVIOUS
<1>8. p = Pair(m, s) /\ m \in Chips /\ s \in Chips
  BY <1>7 DEF Ready
<1>9. CASE FromSlave(p) /\ a = Acknowledge(p)
  <2>1. a = [pic  |-> [p EXCEPT !.m.isr = @ \cup {l}, !.s.isr = @ \cup {k}, !.s.irr = @ \ {k}],
             vec  |-> p.s.base + k, line |-> 8 + k]
    BY <1>1, <1>9 DEF Acknowledge
  <2>2. a.pic = Pair([m EXCEPT !.isr = {l}], [s EXCEPT !.isr = {k}, !.irr = @ \ {k}])
    BY <2>1, <1>7, <1>8 DEF Pair, Chips
  <2>3. a.vec = 32 + a.line /\ a.line \in 0 .. 15 /\ a.line >= 8
    BY <2>1, <1>6, <1>9 DEF Ready
  <2>4. PICK c, d : c = [m EXCEPT !.isr = {l}] /\ d = [s EXCEPT !.isr = {k}, !.irr = @ \ {k}]
    OBVIOUS
  <2>5. /\ c \in Chips /\ c.isr = {l} /\ c.irr = m.irr /\ c.base = 32 /\ c.icw3 = 4
        /\ c.step = 0 /\ c.mask = {}
    BY <2>4, <1>4, <1>7, <1>8 DEF Ready, Chips
  <2>6. /\ d \in Chips /\ d.isr = {k} /\ d.irr = s.irr \ {k} /\ d.base = 40
        /\ d.step = 0 /\ d.mask = {}
    <3>1. k \in Nat
      BY <1>6, <1>9
    <3>2. d.isr = {k} /\ d.irr = s.irr \ {k} /\ d.base = s.base /\ d.step = s.step /\ d.mask = s.mask
      BY <2>4, <1>8 DEF Chips
    <3>3. d \in Chips
      BY <3>1, <2>4, <1>8 DEF Chips
    <3>4. s.base = 40 /\ s.step = 0 /\ s.mask = {}
      BY <1>7 DEF Ready
    <3> QED
      BY <3>2, <3>3, <3>4
  <2>7. a.pic.m = c /\ a.pic.s = d /\ a.pic = Pair(a.pic.m, a.pic.s)
    BY <2>2, <2>4 DEF Pair
  <2>8. Ready(a.pic)
    BY <2>5, <2>6, <2>7, <1>7 DEF Ready
  <2> QED
    BY <2>3, <2>5, <2>6, <2>7, <2>8, <1>4, <1>6, <1>9
<1>10. CASE FromSlave(p) /\ a = AcknowledgeSpurious(p)
  <2>1. a = [pic  |-> [p EXCEPT !.m.isr = @ \cup {l}, !.s.irr = @ \ {k}],
             vec  |-> p.s.base + 7, line |-> 15]
    BY <1>1, <1>10 DEF AcknowledgeSpurious
  <2>2. a.pic = Pair([m EXCEPT !.isr = {l}], [s EXCEPT !.irr = @ \ {k}])
    BY <2>1, <1>7, <1>8 DEF Pair, Chips
  <2>3. a.vec = 32 + a.line /\ a.line \in 0 .. 15
    BY <2>1, <1>10 DEF Ready
  <2>4. PICK c, d : c = [m EXCEPT !.isr = {l}] /\ d = [s EXCEPT !.irr = @ \ {k}]
    OBVIOUS
  <2>5. /\ c \in Chips /\ c.isr = {l} /\ c.irr = m.irr /\ c.base = 32 /\ c.icw3 = 4
        /\ c.step = 0 /\ c.mask = {}
    BY <2>4, <1>4, <1>7, <1>8 DEF Ready, Chips
  <2>6. /\ d \in Chips /\ d.isr = {} /\ d.irr = s.irr \ {k} /\ d.base = 40
        /\ d.step = 0 /\ d.mask = {}
    BY <2>4, <1>6, <1>7, <1>8, <1>10 DEF Ready, Chips
  <2>7. a.pic.m = c /\ a.pic.s = d /\ a.pic = Pair(a.pic.m, a.pic.s)
    BY <2>2, <2>4 DEF Pair
  <2>8. Ready(a.pic)
    BY <2>5, <2>6, <2>7, <1>7 DEF Ready
  <2> QED
    BY <2>3, <2>5, <2>6, <2>7, <2>8, <1>4, <1>6, <1>10
<1>11. CASE ~ FromSlave(p) /\ a = Acknowledge(p)
  <2>1. a = [pic  |-> [p EXCEPT !.m.isr = @ \cup {l}, !.m.irr = @ \ {l}],
             vec  |-> p.m.base + l, line |-> l]
    BY <1>1, <1>11 DEF Acknowledge
  <2>2. a.pic = Pair([m EXCEPT !.isr = {l}, !.irr = @ \ {l}], s)
    BY <2>1, <1>7, <1>8 DEF Pair, Chips
  <2>3. a.vec = 32 + a.line /\ a.line \in 0 .. 15
    BY <2>1, <1>4, <1>11 DEF Ready
  <2>4. PICK c : c = [m EXCEPT !.isr = {l}, !.irr = @ \ {l}]
    OBVIOUS
  <2>5. /\ c \in Chips /\ c.isr = {l} /\ c.irr = m.irr \ {l} /\ c.base = 32 /\ c.icw3 = 4
        /\ c.step = 0 /\ c.mask = {}
    <3>1. m.base = 32 /\ m.icw3 = 4 /\ m.step = 0 /\ m.mask = {}
      BY <1>7 DEF Ready
    <3>2. {l} \in SUBSET Nat /\ m.irr \ {l} \in SUBSET Nat
      BY <1>4, <1>8 DEF Chips
    <3> QED
      BY <3>1, <3>2, <2>4, <1>8 DEF Chips
  <2>6. a.pic.m = c /\ a.pic.s = s /\ a.pic = Pair(a.pic.m, a.pic.s)
    BY <2>2, <2>4 DEF Pair
  <2>7. Ready(a.pic)
    BY <2>5, <2>6, <1>7 DEF Ready
  <2> QED
    BY <2>3, <2>5, <2>6, <2>7, <1>4, <1>7
<1>12. CASE ~ FromSlave(p) /\ a = AcknowledgeSpurious(p)
  <2>1. a = [pic  |-> [p EXCEPT !.m.irr = @ \ {l}], vec  |-> p.m.base + 7, line |-> 7]
    BY <1>1, <1>12 DEF AcknowledgeSpurious
  <2>2. a.pic = Pair([m EXCEPT !.irr = @ \ {l}], s)
    BY <2>1, <1>7, <1>8 DEF Pair, Chips
  <2>3. a.vec = 32 + a.line /\ a.line \in 0 .. 15
    BY <2>1, <1>12 DEF Ready
  <2>4. PICK c : c = [m EXCEPT !.irr = @ \ {l}]
    OBVIOUS
  <2>5. /\ c \in Chips /\ c.isr = {} /\ c.irr = m.irr \ {l} /\ c.base = 32 /\ c.icw3 = 4
        /\ c.step = 0 /\ c.mask = {}
    BY <2>4, <1>4, <1>7, <1>8 DEF Ready, Chips
  <2>6. a.pic.m = c /\ a.pic.s = s /\ a.pic = Pair(a.pic.m, a.pic.s)
    BY <2>2, <2>4 DEF Pair
  <2>7. Ready(a.pic)
    BY <2>5, <2>6, <1>7 DEF Ready
  <2> QED
    BY <2>3, <2>5, <2>6, <2>7, <1>4, <1>7
<1> QED
  BY <1>9, <1>10, <1>11, <1>12

\* A request of a device.
LEMMA RaisedPair ==
    ASSUME NEW p, p = Pair(p.m, p.s), p.m \in Chips, p.s \in Chips, NEW d \in Devices,
           NEW q, q = Raised(p, d)
    PROVE  /\ q = Pair(q.m, q.s) /\ q.m \in Chips /\ q.s \in Chips
           /\ q.m.isr = p.m.isr /\ q.s.isr = p.s.isr
           /\ Ready(p) => Ready(q)
<1>1. PICK m, s : m = p.m /\ s = p.s
  OBVIOUS
<1>2. p = Pair(m, s) /\ m \in Chips /\ s \in Chips /\ d \in 0 .. 15 /\ d # 2
  BY <1>1, InterruptsAssumption
<1>3. CASE d < 8
  <2>1. q = Pair([m EXCEPT !.irr = @ \cup {d}], s)
    BY <1>2, <1>3 DEF Raised, Pair
  <2> QED
    BY <2>1, <1>1, <1>2, <1>3 DEF Pair, Chips, Ready
<1>4. CASE ~ (d < 8)
  <2>1. q = Pair(m, [s EXCEPT !.irr = @ \cup {d - 8}])
    BY <1>2, <1>4 DEF Raised, Pair
  <2> QED
    BY <2>1, <1>1, <1>2, <1>4 DEF Pair, Chips, Ready
<1> QED
  BY <1>3, <1>4

-----------------------------------------------------------------------------
(* The invariant is inductive.                                             *)

LEMMA IInvInit ==
    ASSUME Init
    PROVE  IInv
<1>1. Chip(8, 4) \in Chips /\ Chip(112, 2) \in Chips
  BY DEF Chip, Chips
<1>2. pic = Pair(pic.m, pic.s) /\ pic.m \in Chips /\ pic.s \in Chips
  BY <1>1 DEF Init, BiosPair, Pair
<1>3. StackOK(stack)
  BY DEF Init, StackOK
<1>4. segs \in SegSet /\ segs.es = segs.fs
  BY DEF Init, Segs, SegSet, Loader
<1>5. done = 0 /\ IF_flag = FALSE /\ stack = <<>> /\ stop = "no" /\ version \in Versions
  BY DEF Init
<1>6. ~ (done >= 2) /\ done \in 0 .. 4 /\ stop # "wild"
  BY <1>5
<1>7. IF_flag = (stack = <<>> /\ done >= 2)
  BY <1>5, <1>6, Zenon
<1> QED
  BY <1>2, <1>3, <1>4, <1>5, <1>6, <1>7, Zenon DEF IInv

LEMMA IInvSetup ==
    ASSUME IInv, Setup
    PROVE  IInv'
<1>1. CASE GdtInit
  <2>1. /\ stop = "no" /\ stack = <<>> /\ done = 0 /\ done' = 1 /\ segs' = gdt_install(segs)
        /\ UNCHANGED <<version, pic, handlers, IF_flag, stack, raised, traps, stop>>
    BY <1>1 DEF GdtInit, InKmain
  <2>2. segs' \in SegSet /\ segs'.es = segs'.fs
    BY <2>1 DEF gdt_install, Segs, SegSet, Kern, IInv
  <2>3. ~ (done >= 2) /\ ~ (done' >= 2) /\ done' \in 0 .. 4
    BY <2>1
  <2>4. (IF_flag = (stack = <<>> /\ done >= 2))'
    BY <2>1, <2>3, Zenon DEF IInv
  <2> QED
    BY <2>1, <2>2, <2>3, <2>4 DEF IInv
<1>2. CASE IdtInit
  <2>1. /\ stack = <<>> /\ done = 1 /\ done' = 2 /\ IF_flag' = TRUE /\ pic' = Written(pic, pic_remap)
        /\ UNCHANGED <<version, handlers, stack, segs, raised, traps, stop>>
    BY <1>2 DEF IdtInit, InKmain, init_idt
  <2>2. pic' = Remapped
    <3>1. PICK p, m, s : p = pic /\ m = pic.m /\ s = pic.s
      OBVIOUS
    <3>2. p = Pair(m, s) /\ m \in Chips /\ s \in Chips
      BY <3>1 DEF IInv
    <3>3. Written(p, pic_remap) = Remapped
      BY <3>2, RemapPic
    <3> QED
      BY <3>1, <3>3, <2>1
  <2>3. Ready(Remapped) /\ Remapped = Pair(Remapped.m, Remapped.s)
        /\ Remapped.m \in Chips /\ Remapped.s \in Chips
        /\ Remapped.m.isr = {} /\ Remapped.s.isr = {}
    BY DEF Remapped, Ready, Chip, Chips, Pair
  <2>4. Ready(pic)' /\ InService(pic, stack)'
    BY <2>2, <2>3 DEF InService
  <2>5. done' >= 2 /\ done' \in 0 .. 4
    BY <2>1
  <2>6. (IF_flag = (stack = <<>> /\ done >= 2))'
    BY <2>1, <2>5, Zenon
  <2> QED
    BY <2>1, <2>2, <2>3, <2>4, <2>5, <2>6 DEF IInv
<1>3. CASE KernHandlers \/ V1Handlers
  <2>1. /\ stop = "no" /\ stack = <<>> /\ done \in {2, 3} /\ done' = done + 1
        /\ UNCHANGED <<version, pic, IF_flag, stack, segs, raised, traps, stop>>
    BY <1>3 DEF KernHandlers, V1Handlers, InKmain, AddHandler
  <2>2. done' \in 0 .. 4 /\ done' >= 2 /\ done >= 2
    BY <2>1
  <2> QED
    BY <2>1, <2>2 DEF IInv
<1> QED
  BY <1>1, <1>2, <1>3 DEF Setup

LEMMA IInvRaise ==
    ASSUME IInv, NEW d \in Devices, Raise(d)
    PROVE  IInv'
<1>1. pic' = Raised(pic, d) /\ UNCHANGED <<version, handlers, done, IF_flag, stack, segs, traps, stop>>
  BY DEF Raise
<1>2. PICK p, q : p = pic /\ q = pic'
  OBVIOUS
<1>3. p = Pair(p.m, p.s) /\ p.m \in Chips /\ p.s \in Chips /\ q = Raised(p, d)
  BY <1>1, <1>2 DEF IInv
<1>4. /\ q = Pair(q.m, q.s) /\ q.m \in Chips /\ q.s \in Chips
      /\ q.m.isr = p.m.isr /\ q.s.isr = p.s.isr
      /\ Ready(p) => Ready(q)
  BY <1>3, RaisedPair
<1>5. InService(p, stack) => InService(q, stack)
  BY <1>4 DEF InService
<1> QED
  BY <1>1, <1>2, <1>4, <1>5 DEF IInv

LEMMA FrameType ==
    ASSUME NEW n \in Int, NEW todo \in IrqTodos \cup IsrTodos, NEW words \in Int,
           NEW flag \in BOOLEAN, NEW sg \in SegSet, NEW ln \in Int
    PROVE  [n |-> n, todo |-> todo, words |-> words, IF_flag |-> flag, segs |-> sg, line |-> ln] \in Frame
  BY DEF Frame

\* Enter pushes a frame with the number of the vector.
LEMMA Entering ==
    ASSUME IInv, done >= 2, NEW v \in 0 .. 47, NEW e \in BOOLEAN, NEW ln \in Int, Enter(v, e, ln),
           \/ v >= 32 /\ ln \in 0 .. 15 /\ v = 32 + ln /\ e = FALSE /\ stack = <<>>
           \/ v < 32 /\ ln = NoLine /\ v \in Exceptions /\ e = (v \in PushesError)
    PROVE  /\ \E f \in Frame :
                 /\ FrameOK(f) /\ f.line = ln /\ f.n = v /\ f.IF_flag = (stack = <<>>)
                 /\ ln # NoLine => f.todo \in SlaveTodos
                 /\ stack' = Append(stack, f)
           /\ IF_flag' = FALSE /\ segs' = Segs(Kern, Kern, Kern, Kern) /\ stop' = stop
<1>1. Entered(v) = v /\ v # -1 /\ KernelData(Kern) /\ 0 \notin Bits(IDT[v].flags)
  <2>1. Entered(v) = v /\ 0 \notin Bits(IDT[v].flags)
    BY Gates
  <2>2. KernelData(Kern)
    BY Segments DEF Kern
  <2>3. v # -1
    OBVIOUS
  <2> QED
    BY <2>1, <2>2, <2>3
<1> DEFINE noerr == v >= 32 \/ v \notin (IF V1 THEN ISR_ERR ELSE isr_err)
<1>2. PICK words : words = (IF e THEN 1 ELSE 0) + (IF noerr THEN 1 ELSE 0)
  OBVIOUS
<1>3. PICK todo : todo = IF v >= 32 THEN (IF V1 THEN v1_irq_handler ELSE irq_handler)
                         ELSE IF V1 THEN v1_isr_handler ELSE isr_handler
  OBVIOUS
<1>4. PICK f : f = [n |-> v, todo |-> todo, words |-> words, IF_flag |-> IF_flag, segs |-> segs, line |-> ln]
  OBVIOUS
<1>5. /\ stack' = Append(stack, f)
      /\ IF_flag' = (IF_flag /\ V1 /\ 0 \in Bits(IDT[v].flags))
      /\ segs' = Segs(Kern, Kern, Kern, Kern) /\ stop' = stop
  BY <1>1, <1>2, <1>3, <1>4 DEF Enter
<1>6. IF_flag' = FALSE
  BY <1>1, <1>5
<1>7. words \in Int /\ (StubsFit => words = 1)
  <2>1. words \in Int
    BY <1>2
  <2>2. CASE v >= 32
    BY <2>2, <1>2
  <2>3. ASSUME StubsFit, v < 32
        PROVE  words = 1
    <3>1. version \in Versions /\ version \in {"kern", "v1"}
      BY InterruptsAssumption DEF IInv
    <3>2. (v \in PushesError) <=> ~ noerr
      BY <3>1, <2>3 DEF StubsFit, V1, PushesError, ISR_ERR, isr_err
    <3>3. e <=> ~ noerr
      BY <3>2, <2>3
    <3> QED
      BY <3>3, <1>2
  <2> QED
    BY <2>1, <2>2, <2>3
<1>8. /\ v >= 32 => todo \in SlaveTodos /\ todo \in IrqTodos
      /\ v < 32 => todo \in IsrTodos
  BY <1>3 DEF SlaveTodos, IrqTodos, IsrTodos, irq_handler, v1_irq_handler, isr_handler, v1_isr_handler
<1>9. IF_flag = (stack = <<>>) /\ IF_flag \in BOOLEAN /\ segs \in SegSet /\ segs.es = segs.fs
  BY DEF IInv
<1>10. /\ f.n = v /\ f.todo = todo /\ f.words = words /\ f.segs = segs /\ f.line = ln
       /\ f.IF_flag = IF_flag
  BY <1>4
<1>11. todo \in IrqTodos \cup IsrTodos
  BY <1>8
<1>12. f \in Frame
  <2>1. v \in Int
    OBVIOUS
  <2> QED
    BY <2>1, <1>4, <1>7, <1>9, <1>11, FrameType, Zenon
<1>13. FrameOK(f)
  BY <1>7, <1>8, <1>9, <1>10 DEF FrameOK, NoLine
<1>14. ln # NoLine => f.todo \in SlaveTodos
  BY <1>8, <1>10
<1> QED
  BY <1>5, <1>6, <1>9, <1>10, <1>12, <1>13, <1>14

\* The conjuncts about the flag and the registers, after Enter.
LEMMA Entered2 ==
    ASSUME stack' # <<>>, IF_flag' = FALSE, segs' = Segs(Kern, Kern, Kern, Kern)
    PROVE  /\ (IF_flag = (stack = <<>> /\ done >= 2))'
           /\ segs' \in SegSet /\ segs'.es = segs'.fs
<1>1. segs' \in SegSet /\ segs'.es = segs'.fs
  BY DEF Segs, SegSet, Kern
<1>2. (IF_flag = (stack = <<>> /\ done >= 2))'
  BY Zenon
<1> QED
  BY <1>1, <1>2

LEMMA IInvTake ==
    ASSUME IInv, Take
    PROVE  IInv'
<1>1. /\ stop = "no" /\ IF_flag /\ Intr(pic)
      /\ UNCHANGED <<version, handlers, done, raised, traps>>
  BY DEF Take
<1>2. stack = <<>> /\ done >= 2
  BY <1>1, Zenon DEF IInv
<1>3. Ready(pic) /\ pic.m.isr = {} /\ pic.s.isr = {}
  BY <1>2 DEF IInv, InService
<1>4. PICK a : /\ a = Acknowledge(pic) \/ a = AcknowledgeSpurious(pic)
               /\ pic' = a.pic /\ Enter(a.vec, FALSE, a.line)
  BY DEF Take
<1>5. /\ a.line \in 0 .. 15 /\ a.vec = 32 + a.line /\ Ready(a.pic)
      /\ a.pic.m.isr = {} \/ \E l \in 0 .. 7 : a.pic.m.isr = {l}
      /\ a.pic.s.isr = {} \/ (a.line >= 8 /\ \E l \in 0 .. 7 : a.pic.s.isr = {l})
  <2>1. PICK p : p = pic
    OBVIOUS
  <2>2. Ready(p) /\ Intr(p) /\ p.m.isr = {} /\ p.s.isr = {} /\ (a = Acknowledge(p) \/ a = AcknowledgeSpurious(p))
    BY <2>1, <1>1, <1>3, <1>4
  <2> QED
    BY <2>2, Acknowledged
<1>6. PICK v \in 0 .. 47, ln \in 0 .. 15 : v = a.vec /\ ln = a.line /\ v = 32 + ln
  BY <1>5
<1>7. v >= 32 /\ ln # NoLine /\ ln \in Int /\ FALSE \in BOOLEAN
  BY <1>6 DEF NoLine
<1>8. /\ \E f \in Frame :
            /\ FrameOK(f) /\ f.line = ln /\ f.n = v /\ f.IF_flag = (stack = <<>>)
            /\ ln # NoLine => f.todo \in SlaveTodos
            /\ stack' = Append(stack, f)
      /\ IF_flag' = FALSE /\ segs' = Segs(Kern, Kern, Kern, Kern) /\ stop' = stop
  <2>1. Enter(v, FALSE, ln)
    BY <1>4, <1>6
  <2> QED
    BY <2>1, <1>2, <1>6, <1>7, Entering, Zenon
<1>9. PICK f \in Frame :
        /\ FrameOK(f) /\ f.line = ln /\ f.n = v /\ f.IF_flag = (stack = <<>>)
        /\ f.todo \in SlaveTodos /\ stack' = Append(stack, f)
  BY <1>7, <1>8
<1>10. PICK s, t : s = stack /\ t = stack'
  OBVIOUS
<1>11. StackOK(s) /\ s = <<>> /\ t = Append(s, f) /\ f.IF_flag = (s = <<>>)
  BY <1>2, <1>9, <1>10 DEF IInv
<1>12. StackOK(t) /\ t # <<>> /\ t[1] = f
  BY <1>9, <1>11, PushFrame
<1>13. InService(a.pic, t)
  <2>1. PICK p : p = a.pic
    OBVIOUS
  <2>2. /\ p.m.isr = {} \/ \E l \in 0 .. 7 : p.m.isr = {l}
        /\ p.s.isr = {} \/ (ln >= 8 /\ \E l \in 0 .. 7 : p.s.isr = {l})
    BY <2>1, <1>5, <1>6
  <2>3. f.todo # <<>> /\ f.todo \in SlaveTodos
    BY <1>9, TodoTail
  <2>4. ln >= 8 => f.n >= 40
    BY <1>6, <1>9
  <2>5. t # <<>> /\ t[1].line # NoLine /\ t[1].todo # <<>> /\ t[1].todo \in SlaveTodos
        /\ t[1].n = f.n
    BY <2>3, <1>7, <1>9, <1>12
  <2>6. InService(p, t)
    BY <2>2, <2>4, <2>5, Zenon DEF InService
  <2> QED
    BY <2>1, <2>6
<1>14. /\ (IF_flag = (stack = <<>> /\ done >= 2))'
       /\ segs' \in SegSet /\ segs'.es = segs'.fs
  BY <1>8, <1>10, <1>12, Entered2
<1>15. Ready(pic)' /\ InService(pic, stack)' /\ StackOK(stack)'
  BY <1>4, <1>5, <1>10, <1>12, <1>13
<1>16. (pic = Pair(pic.m, pic.s) /\ pic.m \in Chips /\ pic.s \in Chips)'
  BY <1>15 DEF Ready
<1> QED
  BY <1>1, <1>2, <1>8, <1>14, <1>15, <1>16 DEF IInv

LEMMA IInvTrap ==
    ASSUME IInv, NEW v \in Exceptions, Trap(v)
    PROVE  IInv'
<1>1. /\ stop = "no" /\ done >= 2 /\ Enter(v, v \in PushesError, NoLine)
      /\ UNCHANGED <<version, pic, handlers, done, raised>>
  BY DEF Trap
<1>2. v \in 0 .. 47 /\ v < 32 /\ NoLine \in Int
  BY InterruptsAssumption DEF NoLine
<1>3. PICK e \in BOOLEAN : e = (v \in PushesError)
  <2>1. CASE v \in PushesError
    <3>1. TRUE = (v \in PushesError)
      BY <2>1, Zenon
    <3> QED
      BY <3>1, Zenon
  <2>2. CASE v \notin PushesError
    <3>1. FALSE = (v \in PushesError)
      BY <2>2, SMT
    <3> QED
      BY <3>1, Zenon
  <2> QED
    BY <2>1, <2>2
<1>4. /\ \E f \in Frame :
            /\ FrameOK(f) /\ f.line = NoLine /\ f.n = v /\ f.IF_flag = (stack = <<>>)
            /\ stack' = Append(stack, f)
      /\ IF_flag' = FALSE /\ segs' = Segs(Kern, Kern, Kern, Kern) /\ stop' = stop
  <2>1. Enter(v, e, NoLine)
    BY <1>1, <1>3, Zenon
  <2> QED
    BY <2>1, <1>1, <1>2, <1>3, Entering, ZenonT(60)
<1>5. PICK f \in Frame :
        /\ FrameOK(f) /\ f.line = NoLine /\ f.IF_flag = (stack = <<>>)
        /\ stack' = Append(stack, f)
  BY <1>4
<1>6. PICK s, t : s = stack /\ t = stack'
  OBVIOUS
<1>7. StackOK(s) /\ t = Append(s, f) /\ f.IF_flag = (s = <<>>)
  BY <1>5, <1>6 DEF IInv
<1>8. StackOK(t) /\ t # <<>> /\ t[1] = IF s = <<>> THEN f ELSE s[1]
  BY <1>5, <1>7, PushFrame
<1>9. InService(pic, t)
  <2>1. InService(pic, s)
    BY <1>1, <1>6 DEF IInv
  <2> QED
    BY <2>1, <1>8 DEF InService
<1>10. /\ (IF_flag = (stack = <<>> /\ done >= 2))'
       /\ segs' \in SegSet /\ segs'.es = segs'.fs
  BY <1>4, <1>6, <1>8, Entered2
<1>11. InService(pic, stack)' /\ StackOK(stack)'
  BY <1>1, <1>6, <1>8, <1>9
<1> QED
  BY <1>1, <1>4, <1>10, <1>11 DEF IInv

\* A statement of the top frame leaves the flag and the registers alone.
LEMMA Stepped ==
    ASSUME IInv, stack # <<>>, UNCHANGED <<version, done, IF_flag, segs, stop>>,
           NEW q, NEW t, q = pic', t = stack', t # <<>>, StackOK(t), Ready(q), InService(q, t)
    PROVE  IInv'
<1>1. (pic = Pair(pic.m, pic.s) /\ pic.m \in Chips /\ pic.s \in Chips)'
  BY DEF Ready
<1>2. done >= 2 /\ stack' # <<>>
  BY DEF IInv
<1>3. (IF_flag = (stack = <<>> /\ done >= 2))'
  <2>1. IF_flag = FALSE
    BY Zenon DEF IInv
  <2> QED
    BY <2>1, <1>2, Zenon
<1> QED
  BY <1>1, <1>2, <1>3 DEF IInv

\* The top frame has a statement to do.
LEMMA TopFrame ==
    ASSUME IInv, NEW h, At(h),
           NEW s, s = stack, NEW t, t = StepTop
    PROVE  /\ s # <<>> /\ StackOK(s) /\ s[Len(s)].todo # <<>> /\ Head(s[Len(s)].todo) = h
           /\ Ready(pic) /\ InService(pic, s)
           /\ t = [s EXCEPT ![Len(s)].todo = Tail(@)]
           /\ FrameOK(s[1]) /\ FrameOK(s[Len(s)])
           /\ h # "handler" => Len(s) = 1 /\ s[1].line # NoLine
           /\ Len(s) = 1 \/ (Len(s) # 1 /\ s[Len(s)].line = NoLine)
<1>1. s # <<>> /\ StackOK(s) /\ s[Len(s)].todo # <<>> /\ Head(s[Len(s)].todo) = h
  BY DEF At, Top, IInv
<1>2. Ready(pic) /\ InService(pic, s)
  BY <1>1 DEF IInv
<1>3. t = [s EXCEPT ![Len(s)].todo = Tail(@)]
  BY DEF StepTop
<1>4. s \in Seq(Frame) /\ Len(s) \in Nat /\ Len(s) # 0
  BY <1>1, EmptySeq DEF StackOK
<1>5. FrameOK(s[1]) /\ FrameOK(s[Len(s)])
  BY <1>1, <1>4 DEF StackOK
<1>6. Len(s) = 1 \/ (Len(s) # 1 /\ s[Len(s)].line = NoLine)
  <2>1. Len(s) = 1 \/ Len(s) \in 2 .. Len(s)
    <3>1. \A k \in Nat : k # 0 => k = 1 \/ k \in 2 .. k
      OBVIOUS
    <3> QED
      BY <3>1, <1>4, Zenon
  <2>2. \A i \in 2 .. Len(s) : s[i].line = NoLine
    BY <1>1 DEF StackOK
  <2> QED
    BY <2>1, <2>2, <1>4
<1>7. s[Len(s)].line = NoLine => h = "handler"
  BY <1>1, <1>5, TodoTail DEF FrameOK
<1> QED
  BY <1>1, <1>2, <1>3, <1>5, <1>6, <1>7

LEMMA IInvHandle ==
    ASSUME IInv, Handle
    PROVE  IInv'
<1>1. /\ At("handler") /\ stack' = StepTop
      /\ UNCHANGED <<version, pic, handlers, done, IF_flag, segs, raised, traps, stop>>
  BY DEF Handle
<1>2. PICK p, s, t, u : p = pic /\ s = stack /\ t = StepTop /\ u = s[1].todo
  OBVIOUS
<1>3. /\ s # <<>> /\ StackOK(s) /\ s[Len(s)].todo # <<>> /\ Head(s[Len(s)].todo) = "handler"
      /\ Ready(p) /\ InService(p, s) /\ t = [s EXCEPT ![Len(s)].todo = Tail(@)] /\ FrameOK(s[1])
  BY <1>1, <1>2, TopFrame
<1>4. /\ StackOK(t) /\ t # <<>> /\ Len(t) = Len(s)
      /\ t[1].line = s[1].line /\ t[1].n = s[1].n
      /\ IF Len(s) = 1 THEN t[1].todo = Tail(s[1].todo) ELSE t[1] = s[1]
  BY <1>3, StepStack
<1>5. s[1].line # NoLine /\ u # <<>> =>
          /\ t[1].todo # <<>>
          /\ u \in SlaveTodos => t[1].todo \in SlaveTodos
  <2>1. CASE Len(s) # 1
    BY <2>1, <1>2, <1>4
  <2>2. CASE Len(s) = 1
    <3>1. s[1].line # NoLine => u \in IrqTodos
      BY <1>2, <1>3 DEF FrameOK
    <3>2. Head(u) = "handler" /\ t[1].todo = Tail(u)
      BY <2>2, <1>2, <1>3, <1>4
    <3> QED
      BY <3>1, <3>2, TodoTail
  <2> QED
    BY <2>1, <2>2
<1>6. InService(p, t)
  BY <1>2, <1>3, <1>4, <1>5, TodoTail DEF InService
<1> QED
  BY <1>1, <1>2, <1>3, <1>4, <1>6, Stepped

\* After the slave's acknowledgement at most the master has a line in service.
LEMMA IInvAckSlave ==
    ASSUME IInv, AckSlave
    PROVE  IInv'
<1>1. /\ At("slave") /\ stack' = StepTop
      /\ pic' = IF Top.n >= 40 THEN outport(pic, 160, 32) ELSE pic
      /\ UNCHANGED <<version, handlers, done, IF_flag, segs, raised, traps, stop>>
  BY DEF AckSlave
<1>2. PICK p, q, s, t, u : p = pic /\ q = pic' /\ s = stack /\ t = StepTop /\ u = s[1].todo
  OBVIOUS
<1>3. /\ s # <<>> /\ StackOK(s) /\ s[Len(s)].todo # <<>> /\ Head(s[Len(s)].todo) = "slave"
      /\ Ready(p) /\ InService(p, s) /\ t = [s EXCEPT ![Len(s)].todo = Tail(@)] /\ FrameOK(s[1])
      /\ Len(s) = 1 /\ s[1].line # NoLine
  BY <1>1, <1>2, TopFrame
<1>4. /\ StackOK(t) /\ t # <<>> /\ t[1].line = s[1].line /\ t[1].todo = Tail(u)
  BY <1>2, <1>3, StepStack
<1>5. Tail(u) # <<>>
  <2>1. u \in IrqTodos /\ u # <<>> /\ Head(u) = "slave"
    BY <1>2, <1>3 DEF FrameOK
  <2> QED
    BY <2>1, TodoTail
<1>6. q = IF s[1].n >= 40 THEN outport(p, 160, 32) ELSE p
  BY <1>1, <1>2, <1>3 DEF Top
<1>7. Ready(q) /\ q.s.isr = {} /\ q.m = p.m
  <2>1. CASE s[1].n >= 40
    <3>1. p.s.isr = {} \/ \E l \in 0 .. 7 : p.s.isr = {l}
      BY <1>3 DEF InService
    <3> QED
      BY <3>1, <2>1, <1>3, <1>6, AckOfSlave
  <2>2. CASE ~ (s[1].n >= 40)
    BY <2>2, <1>3, <1>6 DEF InService
  <2> QED
    BY <2>1, <2>2
<1>8. InService(q, t)
  BY <1>3, <1>4, <1>5, <1>7 DEF InService
<1> QED
  BY <1>1, <1>2, <1>3, <1>4, <1>7, <1>8, Stepped

\* After the master's acknowledgement no line is in service.
LEMMA IInvAckMaster ==
    ASSUME IInv, AckMaster
    PROVE  IInv'
<1>1. /\ At("master") /\ stack' = StepTop /\ pic' = outport(pic, 32, 32)
      /\ UNCHANGED <<version, handlers, done, IF_flag, segs, raised, traps, stop>>
  BY DEF AckMaster
<1>2. PICK p, q, s, t, u : p = pic /\ q = pic' /\ s = stack /\ t = StepTop /\ u = s[1].todo
  OBVIOUS
<1>3. /\ s # <<>> /\ StackOK(s) /\ s[Len(s)].todo # <<>> /\ Head(s[Len(s)].todo) = "master"
      /\ Ready(p) /\ InService(p, s) /\ t = [s EXCEPT ![Len(s)].todo = Tail(@)] /\ FrameOK(s[1])
      /\ Len(s) = 1 /\ s[1].line # NoLine
  BY <1>1, <1>2, TopFrame
<1>4. StackOK(t) /\ t # <<>>
  BY <1>3, StepStack
<1>5. u \notin SlaveTodos
  <2>1. u \in IrqTodos /\ u # <<>> /\ Head(u) = "master"
    BY <1>2, <1>3 DEF FrameOK
  <2> QED
    BY <2>1, TodoTail
<1>6. p.s.isr = {} /\ (p.m.isr = {} \/ \E l \in 0 .. 7 : p.m.isr = {l})
  BY <1>2, <1>3, <1>5 DEF InService
<1>7. Ready(q) /\ q.m.isr = {} /\ q.s.isr = {}
  BY <1>1, <1>2, <1>3, <1>6, AckOfMaster
<1>8. InService(q, t)
  BY <1>7 DEF InService
<1> QED
  BY <1>1, <1>2, <1>3, <1>4, <1>7, <1>8, Stepped

\* With stubs that fit, every frame has its one word above the number.
LEMMA IInvReturn ==
    ASSUME IInv, Return
    PROVE  IInv'
<1>1. /\ stop = "no" /\ stack # <<>> /\ Top.todo = <<>>
      /\ UNCHANGED <<version, pic, handlers, done, raised, traps>>
  BY DEF Return
<1>2. PICK s, t, f : s = stack /\ t = SubSeq(s, 1, Len(s) - 1) /\ f = s[Len(s)]
  OBVIOUS
<1>3. /\ f = Top /\ s # <<>> /\ StackOK(s) /\ f.todo = <<>>
      /\ done >= 2 /\ Ready(pic) /\ InService(pic, s)
  BY <1>1, <1>2 DEF Top, IInv
<1>4. /\ StackOK(t) /\ (t = <<>> <=> Len(s) = 1) /\ (t # <<>> => t[1] = s[1])
      /\ f \in Frame /\ FrameOK(f) /\ f.IF_flag = (t = <<>>)
  BY <1>2, <1>3, PopFrame, Zenon
<1>5. CASE f.words = 1
  <2>1. /\ stack' = t /\ IF_flag' = f.IF_flag /\ stop' = stop
        /\ segs' = IF f.n >= 32 /\ ~ V1 THEN Segs(f.segs.ds, f.segs.es, f.segs.es, f.segs.gs) ELSE f.segs
    BY <1>2, <1>3, <1>5 DEF Return
  <2>2. segs' \in SegSet /\ segs'.es = segs'.fs
    <3>1. f.segs \in SegSet /\ f.segs.es = f.segs.fs
      BY <1>4 DEF Frame, FrameOK
    <3> QED
      BY <3>1, <2>1 DEF SegSet, Segs
  <2>3. InService(pic, t)
    <3>1. CASE t = <<>>
      <4>1. s[1].todo = <<>>
        BY <3>1, <1>2, <1>3, <1>4
      <4>2. s[1].todo \notin SlaveTodos
        BY <4>1, TodoTail
      <4> QED
        BY <4>1, <4>2, <1>3 DEF InService
    <3>2. CASE t # <<>>
      BY <3>2, <1>3, <1>4 DEF InService
    <3> QED
      BY <3>1, <3>2
  <2>4. (IF_flag = (stack = <<>> /\ done >= 2))'
    <3>1. IF_flag' = (t = <<>>)
      BY <2>1, <1>4, Zenon
    <3>2. done' >= 2
      BY <1>1, <1>3
    <3> QED
      BY <3>1, <3>2, <2>1, Zenon
  <2> QED
    BY <2>1, <2>2, <2>3, <2>4, <1>1, <1>3, <1>4 DEF IInv
<1>6. CASE f.words # 1
  <2>1. stop' = "wild" /\ UNCHANGED <<stack, IF_flag, segs>>
    BY <1>3, <1>6 DEF Return
  <2>2. ~ StubsFit
    BY <1>4, <1>6 DEF FrameOK
  <2> QED
    BY <2>1, <2>2, <1>1 DEF IInv, StubsFit
<1> QED
  BY <1>5, <1>6

LEMMA IInvStops ==
    ASSUME IInv, Halt \/ SwitchFresh \/ UNCHANGED vars
    PROVE  IInv'
<1>1. /\ UNCHANGED <<version, pic, done, IF_flag, stack, segs>>
      /\ stop' = stop \/ stop' = "halt" \/ stop' = "fresh"
  BY DEF Halt, SwitchFresh, vars
<1> QED
  BY <1>1 DEF IInv, StubsFit

LEMMA IInvNext ==
    ASSUME IInv, [Next]_vars
    PROVE  IInv'
  BY IInvSetup, IInvRaise, IInvTake, IInvTrap, IInvHandle, IInvStops, IInvAckSlave, IInvAckMaster,
     IInvReturn DEF Next

\* At most one interrupt is between its gate and its acknowledgements, it is the
\* outermost frame, and it has them still to do; interrupts are on exactly in
\* kmain's own code after idt_install; es and fs agree, there and in every frame.
THEOREM Inductive == Spec => []IInv
<1>1. Init => IInv
  BY IInvInit
<1>2. IInv /\ [Next]_vars => IInv'
  BY IInvNext
<1> QED
  BY <1>1, <1>2, PTL DEF Spec

-----------------------------------------------------------------------------
(* What it implies.                                                        *)

\* irq_handler sees the number of the line that asked, also for a request that
\* was withdrawn, with any set of devices on the two controllers.
THEOREM NumberOfLine == Spec => []OwnNumber
<1>1. IInv => OwnNumber
  <2> SUFFICES ASSUME IInv, NEW i \in DOMAIN stack
               PROVE  stack[i].line # NoLine => stack[i].n = 32 + stack[i].line
    BY DEF OwnNumber
  <2>1. StackOK(stack)
    BY DEF IInv
  <2>2. stack \in Seq(Frame)
    BY <2>1 DEF StackOK
  <2>3. i \in 1 .. Len(stack)
    BY <2>2
  <2>4. FrameOK(stack[i])
    BY <2>1, <2>3 DEF StackOK
  <2> QED
    BY <2>4 DEF FrameOK
<1> QED
  BY <1>1, Inductive, PTL

\* Whenever interrupts are on after pic_remap, irq_handler has acknowledged every
\* earlier interrupt to each controller it came through.
THEOREM Acknowledges == Spec => []NothingInService
<1>1. IInv => NothingInService
  <2> SUFFICES ASSUME IInv, done >= 2, IF_flag
               PROVE  pic.m.isr = {} /\ pic.s.isr = {}
    BY DEF NothingInService
  <2>1. stack = <<>>
    BY Zenon DEF IInv
  <2> QED
    BY <2>1 DEF IInv, InService
<1> QED
  BY <1>1, Inductive, PTL

\* Every interrupt, and every exception whose stub is right, returns to where it
\* left, in either version.
THEOREM Returns ==
    ASSUME StubsFit
    PROVE  Spec => []ComesBack
<1>1. IInv => ComesBack
  BY DEF IInv, ComesBack
<1> QED
  BY <1>1, Inductive, PTL

\* irq_common restores fs from es, which does no harm: es and fs agree wherever an
\* interrupt or an exception can come.
THEOREM SegmentsRestored == Spec => SegmentsKept
<1>1. IInv /\ [Next]_vars => [Len(stack') < Len(stack) => segs' = Top.segs]_vars
  <2> SUFFICES ASSUME IInv, Next, Len(stack') < Len(stack)
               PROVE  segs' = Top.segs
    OBVIOUS
  <2>1. PICK s : s = stack
    OBVIOUS
  <2>2. s \in Seq(Frame) /\ StackOK(s)
    BY <2>1 DEF IInv, StackOK
  <2>3. \A t : Len(t) < Len(s) => t # s
    BY <2>2
  <2>4. stack' # stack
    BY <2>1, <2>3
  <2>5. ~ (\E f : stack' = Append(stack, f))
    BY <2>1, <2>2
  <2>6. stack' # StepTop
    BY <2>1, <2>2 DEF StepTop
  <2>7. CASE Return
    <3>1. PICK f : f = s[Len(s)]
      OBVIOUS
    <3>2. f = Top /\ s # <<>>
      BY <3>1, <2>1, <2>7 DEF Top, Return
    <3>3. f \in Frame /\ FrameOK(f)
      BY <3>1, <3>2, <2>2, PopFrame
    <3>4. segs' = IF f.n >= 32 /\ ~ V1 THEN Segs(f.segs.ds, f.segs.es, f.segs.es, f.segs.gs) ELSE f.segs
      BY <3>2, <2>4, <2>7 DEF Return
    <3>5. f.segs \in SegSet /\ f.segs.es = f.segs.fs
      BY <3>3 DEF Frame, FrameOK
    <3>6. segs' = f.segs
      BY <3>4, <3>5 DEF SegSet, Segs
    <3> QED
      BY <3>2, <3>6
  <2>8. ~ Setup /\ ~ Halt /\ ~ SwitchFresh
    BY <2>4 DEF Setup, GdtInit, IdtInit, KernHandlers, V1Handlers, AddHandler, Halt, SwitchFresh
  <2>9. \A d \in Devices : ~ Raise(d)
    BY <2>4 DEF Raise
  <2>10. ~ Take
    BY <2>4, <2>5 DEF Take, Enter
  <2>11. \A v \in Exceptions : ~ Trap(v)
    BY <2>4, <2>5 DEF Trap, Enter
  <2>12. ~ Handle /\ ~ AckSlave /\ ~ AckMaster
    BY <2>6 DEF Handle, AckSlave, AckMaster
  <2> QED
    BY <2>7, <2>8, <2>9, <2>10, <2>11, <2>12 DEF Next
<1> QED
  BY <1>1, Inductive, PTL DEF Spec, SegmentsKept
=============================================================================
