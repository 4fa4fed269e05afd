-------------------------------- MODULE PIC ---------------------------------
(***************************************************************************)
(* The two 8259 interrupt controllers, as far as the code in pic_remap and *)
(* irq_handler programs them: the four initialization words, the mask and  *)
(* the unspecific end of interrupt.  The chips are not part of the         *)
(* repository; a pair of them is a record with the fields m and s.         *)
(***************************************************************************)
EXTENDS Integers, FiniteSetsExt

Bits(v) == {i \in 0 .. 7 : (v \div <<1, 2, 4, 8, 16, 32, 64, 128>>[i + 1]) % 2 = 1}

\* A chip in operation: the vector of its line 0 and the word that says how it
\* is wired to the other one.  irr and isr are the lines requested and in
\* service; step is the initialization word it waits for, 0 for none.
Chip(base, icw3) ==
    [base |-> base, icw3 |-> icw3, step |-> 0, mask |-> {}, irr |-> {}, isr |-> {}]

\* How the BIOS leaves them, see the comment in pic_remap.
BiosPair == [m |-> Chip(8, 4), s |-> Chip(112, 2)]

\* A byte for the command port: 0x11 starts the initialization, 0x20 ends the
\* service of the line with the highest priority.
Command(c, v) ==
    CASE v = 17 -> [c EXCEPT !.step = 2, !.mask = {}, !.irr = {}, !.isr = {}]
      [] v = 32 -> [c EXCEPT !.isr = IF @ = {} THEN @ ELSE @ \ {Min(@)}]

\* A byte for the data port.
Data(c, v) ==
    CASE c.step = 2 -> [c EXCEPT !.base = v, !.step = 3]
      [] c.step = 3 -> [c EXCEPT !.icw3 = v, !.step = 4]
      [] c.step = 4 -> [c EXCEPT !.step = 0]
      [] c.step = 0 -> [c EXCEPT !.mask = Bits(v)]

\* outport, for the ports of the two chips.
outport(p, port, v) ==
    CASE port = 32  -> [p EXCEPT !.m = Command(@, v)]
      [] port = 33  -> [p EXCEPT !.m = Data(@, v)]
      [] port = 160 -> [p EXCEPT !.s = Command(@, v)]
      [] port = 161 -> [p EXCEPT !.s = Data(@, v)]

\* Of the lines ls those that are neither masked nor held back by one in service.
Open(c, ls) == {l \in ls \ c.mask : \A k \in c.isr : l < k}

SlaveOpen(p) == Open(p.s, p.s.irr)

\* The slave is wired to one line of the master.
MasterOpen(p) ==
    Open(p.m, IF SlaveOpen(p) # {} THEN p.m.irr \cup Bits(p.m.icw3) ELSE p.m.irr)

\* The processor sees a request.
Intr(p) == p.m.step = 0 /\ p.s.step = 0 /\ MasterOpen(p) # {}

FromSlave(p) == Min(MasterOpen(p)) \in Bits(p.m.icw3)

\* The processor acknowledges: the request is in service from here on.  line
\* numbers the lines of both chips, 0 to 15.
Acknowledge(p) ==
    LET l == Min(MasterOpen(p))
        k == Min(SlaveOpen(p))
    IN  IF FromSlave(p)
        THEN [pic  |-> [p EXCEPT !.m.isr = @ \cup {l}, !.s.isr = @ \cup {k}, !.s.irr = @ \ {k}],
              vec  |-> p.s.base + k,
              line |-> 8 + k]
        ELSE [pic  |-> [p EXCEPT !.m.isr = @ \cup {l}, !.m.irr = @ \ {l}],
              vec  |-> p.m.base + l,
              line |-> l]

\* The device takes its request back just before that.  The chip answers for
\* its line 7 and has nothing in service.
AcknowledgeSpurious(p) ==
    LET l == Min(MasterOpen(p))
        k == Min(SlaveOpen(p))
    IN  IF FromSlave(p)
        THEN [pic  |-> [p EXCEPT !.m.isr = @ \cup {l}, !.s.irr = @ \ {k}],
              vec  |-> p.s.base + 7,
              line |-> 15]
        ELSE [pic  |-> [p EXCEPT !.m.irr = @ \ {l}],
              vec  |-> p.m.base + 7,
              line |-> 7]

Raised(p, line) ==
    IF line < 8 THEN [p EXCEPT !.m.irr = @ \cup {line}]
    ELSE [p EXCEPT !.s.irr = @ \cup {line - 8}]

Waiting(p, line) == IF line < 8 THEN line \in p.m.irr ELSE line - 8 \in p.s.irr
=============================================================================
